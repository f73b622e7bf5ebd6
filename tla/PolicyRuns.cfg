SPECIFICATION Spec
CONSTANTS
  forge = forge  api = api  other = other
  secret = secret  t1 = t1  t2 = t2  agent = agent  bot = bot  any = any
  None = None  Unset = Unset  Zero = Zero
  Default <- MCDefault
  Origins = {forge, api, other}
  GitHubHosts = {forge, api}
  Within <- MCWithin
  Wrote <- MCWrote
  Worlds <- MCWorlds
  MaxRuns = 2
INVARIANTS
  Precedence
  ServedIsOwn
  HeadersStayHome
CHECK_DEADLOCK FALSE
