SPECIFICATION Spec
CONSTANTS
  Workers = {w1, w2}
  Jobs = 5
  ReadyCap = 1
  ConfiguredRPS = 1700
  Delays <- MCDelays
  MaxCooldown = 2
  SuccessesPerRecovery = 2
  MaxRetries = 1
INVARIANTS
  TypeOK
  RateBounds
  CooldownCapped
PROPERTIES
  AllServed
  GrantsRespectCooldowns
  RecoveryIsEarned
CHECK_DEADLOCK FALSE
