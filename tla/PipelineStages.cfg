SPECIFICATION Spec
CONSTANTS
  s1 = s1  s2 = s2
  a1 = a1  a2 = a2  a3 = a3  b1 = b1  b2 = b2
  k1 = k1  k2 = k2  k3 = k3
  h1 = h1  h2 = h2
  None = None
  Sources = {s1}
  BareURLs = {}
  Links = {a1, a2, a3}
  Offline = {}
  Keys = {k1, k2, k3}
  Hosts = {h1, h2}
  SourceOf <- StagesSourceOf
  KeyOf <- StagesKeyOf
  HostOf <- StagesHostOf
  Warm <- NoneWarm
  ParseWorkers = 1
  URLWorkers = 1
  FilesCap = 1
  JobsCap = 1
  ReadyCap = 1
  Burst <- OneToken
  Answers = {"alive"}
  MaxTime = TRUE
INVARIANTS
  NoSendOnClosed
PROPERTIES
  Termination
CHECK_DEADLOCK FALSE
