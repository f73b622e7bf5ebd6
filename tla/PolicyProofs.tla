---------------------------- MODULE PolicyProofs ----------------------------
(***************************************************************************)
(* Proofs about Policy for every default, every thing a user may write,    *)
(* every header rule and every chain of redirects.                         *)
(***************************************************************************)
EXTENDS Policy, TLAPS

USE DefaultAssumption, OriginsAssumption, WroteAssumption, WorldsAssumption

-----------------------------------------------------------------------------
(* One setting in one layer, and in the merge of two.                      *)

LEMMA LayerAt ==
  ASSUME NEW written, NEW f \in Fields
  PROVE  Layer(written)[f] = IF f \in DOMAIN written THEN written[f] ELSE UnsetValue(f)
BY DEF Layer

\* A setting without an alias is that of the upper layer, if it sets it.
LEMMA MergeAt ==
  ASSUME NEW c, NEW src, NEW f \in Fields \ {"retryCount", "maxRetries", "hostOverrides"}
  PROVE  Merge(c, src)[f] = IF src[f] # UnsetValue(f) THEN src[f] ELSE c[f]
BY DEF Merge

LEMMA MergeRetries ==
  ASSUME NEW c, NEW src
  PROVE  /\ Merge(c, src)["retryCount"] = IF src["retryCount"] # Unset THEN src["retryCount"]
                                          ELSE IF src["maxRetries"] # Zero THEN src["maxRetries"]
                                          ELSE c["retryCount"]
         /\ Merge(c, src)["maxRetries"] = c["maxRetries"]
<1>1. "retryCount" \in Fields /\ "maxRetries" \in Fields BY DEF Fields, Optional, Plain
<1> QED BY <1>1 DEF Merge

\* Three layers and the defaults: the highest that sets it.
LEMMA MergedAt ==
  ASSUME NEW w, NEW f \in Fields \ {"retryCount", "maxRetries", "hostOverrides"}
  PROVE  Merge(Default, ResolveConfig(w.file, w.env, w.flags))[f] = Highest(w, f)
<1> DEFINE u == UnsetValue(f)
<1>1. \A l \in {w.flags, w.env, w.file} :
        /\ Layer(l)[f] # u <=> Set(l, f)
        /\ Set(l, f) => Layer(l)[f] = l[f]
  BY LayerAt DEF Set
<1>2. ResolveConfig(w.file, w.env, w.flags)[f]
        = IF Layer(w.flags)[f] # u THEN Layer(w.flags)[f]
          ELSE IF Layer(w.env)[f] # u THEN Layer(w.env)[f] ELSE Layer(w.file)[f]
  BY MergeAt DEF ResolveConfig
<1>3. Merge(Default, ResolveConfig(w.file, w.env, w.flags))[f]
        = IF ResolveConfig(w.file, w.env, w.flags)[f] # u
          THEN ResolveConfig(w.file, w.env, w.flags)[f] ELSE Default[f]
  BY MergeAt
<1>4. CASE Set(w.flags, f) BY <1>1, <1>2, <1>3, <1>4 DEF Highest
<1>5. CASE ~Set(w.flags, f) /\ Set(w.env, f) BY <1>1, <1>2, <1>3, <1>5 DEF Highest
<1>6. CASE ~Set(w.flags, f) /\ ~Set(w.env, f) /\ Set(w.file, f)
  BY <1>1, <1>2, <1>3, <1>6 DEF Highest
<1>7. CASE ~Set(w.flags, f) /\ ~Set(w.env, f) /\ ~Set(w.file, f)
  BY <1>1, <1>2, <1>3, <1>7 DEF Highest
<1> QED BY <1>4, <1>5, <1>6, <1>7

\* The alias of the file survives both merges, and outranks no layer's retryCount.
LEMMA MergedRetries ==
  ASSUME NEW w \in Wrote
  PROVE  Merge(Default, ResolveConfig(w.file, w.env, w.flags))["retryCount"] = RetryLimit(w)
<1> DEFINE rc == "retryCount"
           mr == "maxRetries"
<1>a. rc \in Fields /\ mr \in Fields BY DEF Fields, Optional, Plain
<1>b. UnsetValue(rc) = Unset /\ UnsetValue(mr) = Zero
  BY DEF UnsetValue, Optional
<1>c. mr \notin DOMAIN w.env /\ mr \notin DOMAIN w.flags
  BY DEF ByEnvironment, FileOnly
<1>1. Layer(w.env)[mr] = Zero /\ Layer(w.flags)[mr] = Zero
  BY <1>a, <1>b, <1>c, LayerAt
<1>2. ResolveConfig(w.file, w.env, w.flags)[mr] = Layer(w.file)[mr]
  BY MergeRetries DEF ResolveConfig
<1>3. ResolveConfig(w.file, w.env, w.flags)[rc]
        = IF Layer(w.flags)[rc] # Unset THEN Layer(w.flags)[rc]
          ELSE IF Layer(w.env)[rc] # Unset THEN Layer(w.env)[rc] ELSE Layer(w.file)[rc]
  BY <1>1, MergeRetries DEF ResolveConfig
<1>4. \A l \in {w.flags, w.env, w.file} :
        /\ Layer(l)[rc] # Unset <=> Set(l, rc)
        /\ Set(l, rc) => Layer(l)[rc] = l[rc]
  BY <1>a, <1>b, LayerAt DEF Set
<1>5. /\ Layer(w.file)[mr] # Zero <=> Set(w.file, mr)
      /\ Set(w.file, mr) => Layer(w.file)[mr] = w.file[mr]
  BY <1>a, <1>b, LayerAt DEF Set
<1>6. Merge(Default, ResolveConfig(w.file, w.env, w.flags))[rc]
        = IF ResolveConfig(w.file, w.env, w.flags)[rc] # Unset
          THEN ResolveConfig(w.file, w.env, w.flags)[rc]
          ELSE IF Layer(w.file)[mr] # Zero THEN Layer(w.file)[mr] ELSE Default[rc]
  BY <1>2, MergeRetries
<1>7. CASE \E l \in {w.flags, w.env, w.file} : Set(l, rc)
  <2>1. RetryLimit(w) = Highest(w, rc) BY <1>7 DEF RetryLimit
  <2>2. CASE Set(w.flags, rc) BY <1>3, <1>4, <1>6, <2>1, <2>2 DEF Highest
  <2>3. CASE ~Set(w.flags, rc) /\ Set(w.env, rc) BY <1>3, <1>4, <1>6, <2>1, <2>3 DEF Highest
  <2>4. CASE ~Set(w.flags, rc) /\ ~Set(w.env, rc) /\ Set(w.file, rc)
    BY <1>3, <1>4, <1>6, <2>1, <2>4 DEF Highest
  <2> QED BY <1>7, <2>2, <2>3, <2>4
<1>8. CASE \A l \in {w.flags, w.env, w.file} : ~Set(l, rc)
  BY <1>3, <1>4, <1>5, <1>6, <1>8 DEF RetryLimit, Highest
<1> QED BY <1>7, <1>8

-----------------------------------------------------------------------------
\* The configuration of a run is the one that its user wrote.
Resolution ==
  resolved # None =>
    /\ wrote \in Wrote
    /\ resolved = BuildResolved(wrote.file, wrote.env, wrote.flags, wrote.alive)

LEMMA ResolutionPrecedes == Resolution => Precedence
<1> SUFFICES ASSUME Resolution, resolved # None
             PROVE  /\ \A f \in (Optional \cup Plain) \ {"retryCount", "maxRetries", "aliveStatusCodes"} :
                         resolved[f] = Highest(wrote, f)
                    /\ resolved["maxRetries"] = AtLeastZero(RetryLimit(wrote))
                    /\ wrote.alive \cup CodeSet(Highest(wrote, "aliveStatusCodes"))
                         = resolved["aliveStatusCodes"]
    BY DEF Precedence
<1> DEFINE d == Merge(Default, ResolveConfig(wrote.file, wrote.env, wrote.flags))
<1>1. resolved = [d EXCEPT !["aliveStatusCodes"] = CodeSet(@) \cup wrote.alive,
                           !["maxRetries"] = AtLeastZero(d["retryCount"])]
  BY DEF Resolution, BuildResolved
<1>2. DOMAIN d = Fields BY DEF Merge
<1>3. "aliveStatusCodes" \in Fields \ {"retryCount", "maxRetries", "hostOverrides"}
      /\ "maxRetries" \in Fields
  BY DEF Fields, Optional, Plain
<1>4. \A f \in Fields \ {"retryCount", "maxRetries", "hostOverrides"} : d[f] = Highest(wrote, f)
  BY MergedAt
<1>5. d["retryCount"] = RetryLimit(wrote) BY MergedRetries DEF Resolution
<1>6. (Optional \cup Plain) \ {"retryCount", "maxRetries", "aliveStatusCodes"}
        \subseteq Fields \ {"retryCount", "maxRetries", "hostOverrides"}
  BY DEF Fields, Optional, Plain
<1> HIDE DEF d
<1>7. /\ \A f \in Fields \ {"aliveStatusCodes", "maxRetries"} : resolved[f] = d[f]
      /\ resolved["aliveStatusCodes"] = CodeSet(d["aliveStatusCodes"]) \cup wrote.alive
      /\ resolved["maxRetries"] = AtLeastZero(d["retryCount"])
  BY <1>1, <1>2, <1>3
<1> QED BY <1>3, <1>4, <1>5, <1>6, <1>7

\* Defaults < file < env < flags, for every setting of every run.
THEOREM PrecedenceHolds == Spec => []Precedence
<1>1. Init => Resolution BY DEF Init, Resolution
<1>2. Resolution /\ [Next]_vars => Resolution'
  BY DEF Resolution, Next, vars, Configure, Serve, Miss, Send, Follow, Refuse, Save
<1> QED BY <1>1, <1>2, ResolutionPrecedes, PTL DEF Spec

-----------------------------------------------------------------------------
\* What was sent is the chain of this run up to the current request.
Chain ==
  /\ hop \in Nat \ {0}
  /\ pc = "start" => sent = {}
  /\ \A q \in sent : \E k \in 1..hop :
       /\ q.url = world.path[k]
       /\ q.headers = HeadersAt(resolved, world.path, k)

\* A header of a rule goes along only as far as the chain stays at, or comes back to,
\* the origin that the rule names.
LEMMA RuleStaysHome ==
  ASSUME NEW r, NEW path, NEW k \in Nat \ {0}, NEW h \in HeadersAt(r, path, k), h.from = "rule"
  PROVE  \E i \in DOMAIN r["httpHeaders"] :
           LET rule == r["httpHeaders"][i] IN
           /\ h.name \in DOMAIN rule.headers /\ rule.headers[h.name] = h.value
           /\ \E u \in rule.urls : u.origin = path[k].origin
<1>1. h \in FirstHeaders(r, path[1])
  BY DEF HeadersAt, Strip, Copied
<1>2. h \in RuleHeaders(r, path[1])
  BY <1>1 DEF FirstHeaders, Agent, Header
<1>3. PICK i \in First(r, path[1]) :
        \E n \in DOMAIN r["httpHeaders"][i].headers :
          h = Header(n, "rule", r["httpHeaders"][i].headers[n])
  BY <1>2 DEF RuleHeaders
<1>4. /\ i \in DOMAIN r["httpHeaders"]
      /\ \E u \in r["httpHeaders"][i].urls : u.origin = path[1].origin
  BY <1>3 DEF First, Matching, RuleMatches
<1>5. h.name \in DOMAIN r["httpHeaders"][i].headers
      /\ h.value = r["httpHeaders"][i].headers[h.name]
  BY <1>3 DEF Header
<1>6. h.name \in RuleNames(r) BY <1>4, <1>5 DEF RuleNames
<1>7. path[k].origin = path[1].origin BY <1>6 DEF HeadersAt, Strip
<1> QED BY <1>4, <1>5, <1>7

\* The token goes along only as long as every URL of the chain is at the first one's
\* host or below it.
LEMMA TokenStaysHome ==
  ASSUME NEW r, NEW path, NEW k \in Nat \ {0}, NEW h \in HeadersAt(r, path, k), h.from = "token"
  PROVE  path[k].origin \in GitHubHosts
<1>1. h \in FirstHeaders(r, path[1])
  BY DEF HeadersAt, Strip, Copied
<1>2. h.name = "Authorization" /\ path[1].origin \in GitHubHosts
  BY <1>1 DEF FirstHeaders, RuleHeaders, Agent, Header
<1>3. CASE k = 1 BY <1>2, <1>3
<1>4. CASE k # 1
  <2>1. ~HasLeft(path, k) BY <1>2, <1>4 DEF HeadersAt, Strip, Copied, Sensitive
  <2>2. <<path[1].origin, path[k].origin>> \in Within BY <1>4, <2>1 DEF HasLeft
  <2> QED BY <1>2, <2>2
<1> QED BY <1>3, <1>4

\* What a rule attaches is sent only to origins the rule names, and the token only to
\* GitHub, over any chain of redirects.
THEOREM HeadersStay == Spec => []HeadersStayHome
<1>1. Init => Chain BY DEF Init, Chain
<1>2. Chain /\ [Next]_vars => Chain'
  <2> SUFFICES ASSUME Chain, [Next]_vars PROVE Chain'
      OBVIOUS
  <2>1. CASE Send
    <3>1. \A q \in sent' : q \in sent \/ q = [url |-> world.path[hop],
                                              headers |-> HeadersAt(resolved, world.path, hop)]
      BY <2>1 DEF Send
    <3>2. hop \in 1..hop BY DEF Chain
    <3>3. pc' # "start" /\ UNCHANGED <<hop, world, resolved>> BY <2>1 DEF Send
    <3> QED BY <3>1, <3>2, <3>3 DEF Chain
  <2>2. CASE Follow
    <3>1. 1..hop \subseteq 1..(hop + 1) BY DEF Chain
    <3> QED BY <2>2, <3>1 DEF Follow, Chain
  <2>3. ASSUME NEW w \in Wrote, Configure(w) PROVE Chain'
    BY <2>3 DEF Configure, Chain
  <2>4. CASE Serve \/ Miss \/ Refuse BY <2>4 DEF Serve, Miss, Refuse, Chain
  <2>5. CASE Save BY <2>5 DEF Save, Chain
  <2>6. CASE UNCHANGED vars BY <2>6 DEF vars, Chain
  <2> QED BY <2>1, <2>2, <2>3, <2>4, <2>5, <2>6 DEF Next
<1>3. Chain => HeadersStayHome
  <2> SUFFICES ASSUME Chain, NEW q \in sent, NEW h \in q.headers
               PROVE  /\ h.from = "rule" =>
                           \E i \in DOMAIN resolved["httpHeaders"] :
                             LET rule == resolved["httpHeaders"][i] IN
                             /\ h.name \in DOMAIN rule.headers /\ rule.headers[h.name] = h.value
                             /\ \E u \in rule.urls : u.origin = q.url.origin
                      /\ h.from = "token" => q.url.origin \in GitHubHosts
      BY DEF HeadersStayHome
  <2>1. PICK k \in 1..hop : /\ q.url = world.path[k]
                            /\ q.headers = HeadersAt(resolved, world.path, k)
    BY DEF Chain
  <2>2. k \in Nat \ {0} BY DEF Chain
  <2> QED BY <2>1, <2>2, RuleStaysHome, TokenStaysHome
<1> QED BY <1>1, <1>2, <1>3, PTL DEF Spec

-----------------------------------------------------------------------------
\* The configurations that users get.
Configurations == {BuildResolved(w.file, w.env, w.flags, w.alive) : w \in Wrote}

\* Configurations with one fingerprint send the same headers, tokens apart.
LEMMA SameHeaders ==
  ASSUME NEW r \in Configurations, NEW s \in Configurations,
         CacheFingerprint(r) = CacheFingerprint(s),
         NEW path, NEW k \in Nat \ {0}, NEW h \in HeadersAt(r, path, k)
  PROVE  \/ h \in HeadersAt(s, path, k)
         \/ /\ h.value = r["githubToken"] /\ r["githubToken"] # Zero /\ s["githubToken"] # Zero
            /\ Header(h.name, "token", s["githubToken"]) \in HeadersAt(s, path, k)
<1>1. /\ r["httpHeaders"] = s["httpHeaders"] /\ r["userAgent"] = s["userAgent"]
      /\ (r["githubToken"] # Zero) = (s["githubToken"] # Zero)
  BY DEF CacheFingerprint
<1>2. /\ RuleHeaders(r, path[1]) = RuleHeaders(s, path[1])
      /\ Agent(r) = Agent(s) /\ RuleNames(r) = RuleNames(s)
  BY <1>1 DEF RuleHeaders, First, Matching, Agent, RuleNames
<1>3. ASSUME NEW g \in FirstHeaders(r, path[1])
      PROVE  \/ g \in FirstHeaders(s, path[1])
             \/ /\ g.value = r["githubToken"] /\ r["githubToken"] # Zero /\ s["githubToken"] # Zero
                /\ g.name = "Authorization"
                /\ Header("Authorization", "token", s["githubToken"]) \in FirstHeaders(s, path[1])
  BY <1>1, <1>2 DEF FirstHeaders, Header
<1>4. h \in FirstHeaders(r, path[1]) BY DEF HeadersAt, Strip, Copied
<1>5. ASSUME NEW g \in FirstHeaders(s, path[1]), g.name = h.name
      PROVE  g \in HeadersAt(s, path, k)
  BY <1>2, <1>5 DEF HeadersAt, Strip, Copied
<1>6. Header("Authorization", "token", s["githubToken"]).name = "Authorization" BY DEF Header
<1> QED BY <1>3, <1>4, <1>5, <1>6

\* And as tokens are equally good, the link answers them alike.
LEMMA SameAnswer ==
  ASSUME NEW r \in Configurations, NEW s \in Configurations,
         CacheFingerprint(r) = CacheFingerprint(s), world \in Worlds,
         NEW k \in Nat \ {0},
         NEW h \in HeadersAt(r, world.path, k), h.name = world.guard, h.value \in world.accepts
  PROVE  \E g \in HeadersAt(s, world.path, k) : g.name = world.guard /\ g.value \in world.accepts
<1>1. CASE h \in HeadersAt(s, world.path, k) BY <1>1
<1>2. CASE /\ h.value = r["githubToken"] /\ r["githubToken"] # Zero /\ s["githubToken"] # Zero
           /\ Header(h.name, "token", s["githubToken"]) \in HeadersAt(s, world.path, k)
  <2>1. r["githubToken"] \in Tokens /\ s["githubToken"] \in Tokens
    BY <1>2 DEF Configurations, Tokens
  <2>2. s["githubToken"] \in world.accepts BY <1>2, <2>1
  <2>3. /\ Header(h.name, "token", s["githubToken"]).name = h.name
        /\ Header(h.name, "token", s["githubToken"]).value = s["githubToken"]
    BY DEF Header
  <2> QED BY <1>2, <2>2, <2>3
<1> QED BY <1>1, <1>2, SameHeaders

\* So one fingerprint means one verdict.
LEMMA SameVerdict ==
  ASSUME NEW r \in Configurations, NEW s \in Configurations,
         CacheFingerprint(r) = CacheFingerprint(s), world \in Worlds
  PROVE  OwnVerdict(r) = OwnVerdict(s)
<1> DEFINE n == Len(world.path)
<1>1. n \in Nat \ {0} OBVIOUS
<1>2. r["maxRedirects"] = s["maxRedirects"] /\ r["aliveStatusCodes"] = s["aliveStatusCodes"]
  BY DEF CacheFingerprint
<1>3. Answer(HeadersAt(r, world.path, n)) = Answer(HeadersAt(s, world.path, n))
  <2> HIDE DEF n
  <2>1. (\E h \in Named(HeadersAt(r, world.path, n), world.guard) : h.value \in world.accepts)
          <=> (\E h \in Named(HeadersAt(s, world.path, n), world.guard) : h.value \in world.accepts)
    BY <1>1, SameAnswer DEF Named
  <2> QED BY <2>1 DEF Answer
<1> QED BY <1>2, <1>3 DEF OwnVerdict, Classified, RefusesRedirect

-----------------------------------------------------------------------------
\* A run has refused no redirect so far, and what it or an earlier run concluded is the
\* verdict of a configuration with the fingerprint.
Judged ==
  /\ world \in Worlds
  /\ pc # "start" => resolved \in Configurations
  /\ hop \in 1..Len(world.path)
  /\ pc \in {"start", "lookup"} => hop = 1
  /\ pc = "redirect" => hop < Len(world.path)
  /\ pc \in {"send", "redirect"} => \A made \in 1..(hop - 1) : ~RefusesRedirect(resolved, made)
  /\ pc = "save" \/ verdict # None => verdict = OwnVerdict(resolved)
  /\ pc \notin {"save"} => verdict = None
  /\ store # None =>
       \E r \in Configurations :
         store.fingerprint = CacheFingerprint(r) /\ store.verdict = OwnVerdict(r)

\* Every run that completes a check or is served one has its own verdict.
LEMMA JudgedStep == Judged /\ [Next]_vars => Judged'
<1> SUFFICES ASSUME Judged, [Next]_vars PROVE Judged'
    OBVIOUS
<1>a. Len(world.path) \in Nat \ {0} BY DEF Judged
<1>b. UNCHANGED world => \A r : OwnVerdict(r)' = OwnVerdict(r)
  BY DEF OwnVerdict, Classified, Answer
<1>1. ASSUME NEW w \in Wrote, Configure(w) PROVE Judged'
  <2>1. resolved' \in Configurations BY <1>1 DEF Configure, Configurations
  <2> QED BY <1>1, <1>b, <2>1 DEF Configure, Judged
<1>2. CASE Serve
  <2>1. resolved \in Configurations BY <1>2 DEF Serve, Judged
  <2>2. PICK r \in Configurations :
          store.fingerprint = CacheFingerprint(r) /\ store.verdict = OwnVerdict(r)
    BY <1>2 DEF Serve, Usable, Judged
  <2>3. CacheFingerprint(r) = CacheFingerprint(resolved) BY <1>2, <2>2 DEF Serve, Usable
  <2>4. verdict' = OwnVerdict(resolved) BY <1>2, <2>1, <2>2, <2>3, SameVerdict DEF Serve, Judged
  <2> QED BY <1>2, <1>b, <2>4 DEF Serve, Judged, OwnVerdict, Classified, Answer
<1>3. CASE Miss
  BY <1>3, <1>a, <1>b DEF Miss, Judged
<1>4. CASE Send
  <2>1. CASE hop < Len(world.path) BY <1>4, <1>b, <2>1 DEF Send, Judged, RefusesRedirect
  <2>2. CASE hop = Len(world.path)
    <3>1. verdict' = Classified(resolved, Answer(HeadersAt(resolved, world.path, hop)))
      BY <1>4, <2>2 DEF Send
    <3>2. verdict' = OwnVerdict(resolved) BY <1>4, <2>2, <3>1 DEF Send, Judged, OwnVerdict
    <3> QED BY <1>4, <1>b, <2>2, <3>2 DEF Send, Judged, OwnVerdict, Classified, Answer
  <2> QED BY <1>a, <2>1, <2>2 DEF Judged
<1>5. CASE Follow
  <2>1. \A made \in 1..hop : ~RefusesRedirect(resolved, made)
    BY <1>5, <1>a DEF Follow, Judged
  <2>2. hop + 1 \in 1..Len(world.path) /\ (hop + 1) - 1 = hop
    BY <1>5, <1>a DEF Follow, Judged
  <2> QED BY <1>5, <1>b, <2>1, <2>2 DEF Follow, Judged, RefusesRedirect
<1>6. CASE Refuse
  <2>1. hop \in 1..(Len(world.path) - 1) BY <1>6, <1>a DEF Refuse, Judged
  <2>2. OwnVerdict(resolved) = "flaky" BY <1>6, <2>1 DEF Refuse, OwnVerdict
  <2> QED BY <1>6, <1>b, <2>2 DEF Refuse, Judged, OwnVerdict, Classified, Answer
<1>7. CASE Save
  <2>1. resolved \in Configurations /\ verdict = OwnVerdict(resolved)
    BY <1>7 DEF Save, Judged
  <2>2. store' # None =>
          \E r \in Configurations :
            store'.fingerprint = CacheFingerprint(r) /\ store'.verdict = OwnVerdict(r)
    BY <1>7, <2>1 DEF Save, Entry, Judged
  <2> QED BY <1>7, <1>a, <1>b, <2>2 DEF Save, Judged
<1>8. CASE UNCHANGED vars
  BY <1>8, <1>b DEF vars, Judged, RefusesRedirect, OwnVerdict, Classified, Answer
<1> QED BY <1>1, <1>2, <1>3, <1>4, <1>5, <1>6, <1>7, <1>8 DEF Next

\* A result obtained under one policy is not reused under another: what the cache
\* serves is what the run's own check would have come to.
THEOREM ServedStaysOwn == Spec => []ServedIsOwn
<1>1. Init => Judged
  <2> SUFFICES ASSUME Init PROVE Judged
      OBVIOUS
  <2>1. Len(world.path) \in Nat \ {0} BY DEF Init
  <2> QED BY <2>1 DEF Init, Judged
<1>2. Judged => ServedIsOwn BY DEF Judged, ServedIsOwn
<1> QED BY <1>1, <1>2, JudgedStep, PTL DEF Spec
=============================================================================
