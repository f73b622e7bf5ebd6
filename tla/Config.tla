------------------------------- MODULE Config -------------------------------
(***************************************************************************)
(* From what the user wrote in the config file, the environment and the    *)
(* flags to the Resolved configuration of a run, and the fingerprint under *)
(* which its cache is kept.  A configuration is a function from setting    *)
(* names to values.                                                        *)
(***************************************************************************)
EXTENDS Integers, TLC

CONSTANTS
  Default,   \* Defaults()
  Unset,     \* nil, or a Duration that is not Set
  Zero       \* the zero value of a plain string, number or bool

\* Pointers, slices and Durations can tell "not set" from "set to zero"...
Optional == {"ignorePatterns", "replacementPatterns", "httpHeaders", "aliveStatusCodes",
             "timeout", "retryOn429", "retryCount", "fallbackRetryDelay", "connectRetries",
             "backoffMax", "maxRedirects", "mailtoCheckMX", "errorFailsRun",
             "checkExternal", "checkFragments", "cacheEnabled", "cacheTTL"}
\* ...and plain values cannot: zero means not set.  maxRetries is an alias of retryCount.
Plain == {"ignoreDisable", "projectBaseUrl", "perHostRPS", "perHostBurst", "urlWorkers",
          "parseWorkers", "maxRetries", "userAgent", "githubToken", "cachePath"}
Fields == Optional \cup Plain \cup {"hostOverrides"}

FileOnly == {"ignorePatterns", "replacementPatterns", "httpHeaders", "aliveStatusCodes",
             "fallbackRetryDelay", "ignoreDisable", "hostOverrides", "maxRetries"}
ByEnvironment == Fields \ FileOnly
ByFile == Fields \ {"githubToken"}

\* A map whose entries are merged one by one; the others are replaced.
NoHosts == <<>>
UnsetValue(f) ==
  CASE f \in Optional -> Unset [] f = "hostOverrides" -> NoHosts [] OTHER -> Zero

ASSUME DefaultAssumption ==
  /\ DOMAIN Default = Fields
  /\ Default["maxRetries"] = Zero
  /\ Default["retryCount"] \in Nat
  /\ Unset \notin Int /\ Zero \notin Int /\ Unset # Zero

-----------------------------------------------------------------------------
\* What a layer sets: a file, the environment or the flags, of which the user wrote
\* `wrote`, a function from some of the settings to their values.  Environment values
\* that do not parse are not in it.
Layer(wrote) == [f \in Fields |-> IF f \in DOMAIN wrote THEN wrote[f] ELSE UnsetValue(f)]

\* c.Merge(src).  retryCount outranks its alias within a layer; its mutant folds the
\* alias in last.
MergeAliasLast(c, src) ==
  [f \in Fields |->
     CASE f = "retryCount" ->
            IF src["maxRetries"] # Zero THEN src["maxRetries"]
            ELSE IF src[f] # Unset THEN src[f] ELSE c[f]
       [] f = "maxRetries" -> c[f]
       [] f = "hostOverrides" -> src[f] @@ c[f]
       [] OTHER -> IF src[f] # UnsetValue(f) THEN src[f] ELSE c[f]]
Merge(c, src) ==
  [f \in Fields |->
     CASE f = "retryCount" ->
            IF src[f] # Unset THEN src[f]
            ELSE IF src["maxRetries"] # Zero THEN src["maxRetries"] ELSE c[f]
       [] f = "maxRetries" -> c[f]
       [] f = "hostOverrides" -> src[f] @@ c[f]
       [] OTHER -> IF src[f] # UnsetValue(f) THEN src[f] ELSE c[f]]

\* resolveConfig: the file, then the environment, then the flags.
ResolveConfig(file, env, flags) == Merge(Merge(Layer(file), Layer(env)), Layer(flags))

CodeSet(codes) == IF codes = {} THEN {200} ELSE codes
AtLeastZero(n) == IF n < 0 THEN 0 ELSE n

\* Resolve, and the codes of --alive on top (buildResolved).  The merge with the
\* defaults folds in the alias that Merge has left in place.
BuildResolved(file, env, flags, aliveExtra) ==
  LET d == Merge(Default, ResolveConfig(file, env, flags)) IN
  [d EXCEPT !["aliveStatusCodes"] = CodeSet(@) \cup aliveExtra,
            !["maxRetries"] = AtLeastZero(d["retryCount"])]

\* CacheFingerprint: the policy under which a result was obtained; of the token, whether
\* there is one.  Its mutant forgets the cap on redirects.
FingerprintAnyCap(r) ==
  <<r["aliveStatusCodes"], r["userAgent"], r["projectBaseUrl"],
    r["mailtoCheckMX"], r["githubToken"] # Zero, r["httpHeaders"]>>
CacheFingerprint(r) ==
  <<r["aliveStatusCodes"], r["userAgent"], r["projectBaseUrl"], r["maxRedirects"],
    r["mailtoCheckMX"], r["githubToken"] # Zero, r["httpHeaders"]>>
=============================================================================
