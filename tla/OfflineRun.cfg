SPECIFICATION Spec
CONSTANTS
  page = page  near = near  far = far  image = image
  None = None  Gone = Gone
  LowerCase <- MCLowerCase
  Replaced <- MCReplaced
  Workers = {w1, w2}
  Files <- MCFiles
  Pages = {page, near, far}
  Worlds <- MCWorlds
  Edits <- MCEdits
  MaxEdits = 1
  Deliverable <- MCDeliverable
INVARIANTS
  VerdictsAreTrue
  ReadsBounded
  SelfLinkAgrees
  SlugsAreNumbered
SYMMETRY Symmetry
CHECK_DEADLOCK FALSE
