SPECIFICATION Spec
CONSTANTS
  r1 = r1  r2 = r2  r3 = r3  polA = polA  polB = polB
  Runs = {r1, r2, r3}
  Keys = {"k1"}
  Policies = {polA, polB}
  PolicyOf <- MCPolicyOf
  Outcomes <- MCOutcomes
  TTL = 1
  MaxClock = 2
  None = None
  Garbage = Garbage
INVARIANTS
  TypeOK
  ServedIsHonest
  NoLitter
PROPERTIES
  FileIsWhole
CHECK_DEADLOCK FALSE
