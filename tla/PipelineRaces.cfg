SPECIFICATION Spec
CONSTANTS
  s1 = s1  s2 = s2
  a1 = a1  a2 = a2  a3 = a3  b1 = b1  b2 = b2
  k1 = k1  k2 = k2  k3 = k3
  h1 = h1  h2 = h2
  None = None
  Sources = {s1, s2}
  BareURLs = {s2}
  Links = {a1, a2, a3, b1, b2}
  Offline = {a3}
  Keys = {k1, k2}
  Hosts = {h1}
  SourceOf <- RacesSourceOf
  KeyOf <- RacesKeyOf
  HostOf <- RacesHostOf
  Warm <- K2Warm
  ParseWorkers = 2
  URLWorkers = 2
  FilesCap = 1
  JobsCap = 1
  ReadyCap = 1
  Burst <- OneToken
  Answers = {"alive", "dead", "flaky", "error"}
  MaxTime = FALSE
INVARIANTS
  TypeOK
  Ledger
  Control
  AtMostOnce
  GreenMeansComplete
  VerdictAgreement
  OneCheckPerURL
  NoLinkLost
  DiskMatchesReport
PROPERTIES
  ImplementsContract
CHECK_DEADLOCK FALSE
