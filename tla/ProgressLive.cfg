SPECIFICATION Spec
CONSTANTS
  j1 = j1  j2 = j2  j3 = j3  h1 = h1  h2 = h2
  Jobs = {j1, j2, j3}
  Hosts = {h1, h2}
  HostOf <- MCHostOf
  LiveOn = TRUE
  MaxTicks = 2
INVARIANTS
  TypeOK
  GaugesAgree
PROPERTIES
  ReportIsLast
  FinishReturns
CHECK_DEADLOCK FALSE
