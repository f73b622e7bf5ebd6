------------------------------- MODULE Policy -------------------------------
(***************************************************************************)
(* Runs of the program, one after the other, that check one link under     *)
(* configurations of their own and share a cache file: from the config     *)
(* file, the environment and the flags to the headers on the wire, the     *)
(* redirects that are followed and the cache entry that is served.  The    *)
(* server does not change, so a verdict may differ between runs only       *)
(* because their policies do.  HEAD and GET send the same chain.           *)
(***************************************************************************)
EXTENDS Requests

CONSTANTS
  Wrote,    \* what a user may write: [file, env, flags, alive]
  Worlds,   \* what the link leads to: [path, guard, accepts, code]
  MaxRuns,  \* bound: how many runs
  None

ASSUME WroteAssumption ==
  \A w \in Wrote :
    /\ DOMAIN w.file \subseteq ByFile /\ DOMAIN w.env \subseteq ByEnvironment
    /\ DOMAIN w.flags \subseteq ByEnvironment
    /\ \A written \in {w.file, w.env, w.flags} :
         /\ "retryCount" \in DOMAIN written => written["retryCount"] \in Int
         /\ "maxRetries" \in DOMAIN written => written["maxRetries"] \in Nat \cup {Zero}

\* The fingerprint knows of the token only whether there is one: as far as a link can
\* tell, one is as good as another.
Tokens ==
  {BuildResolved(w.file, w.env, w.flags, w.alive)["githubToken"] : w \in Wrote} \ {Zero}

ASSUME WorldsAssumption ==
  \A w \in Worlds :
    /\ Len(w.path) \in Nat \ {0}
    /\ Tokens \subseteq w.accepts \/ Tokens \cap w.accepts = {}

VARIABLES
  runs,      \* runs begun
  world,
  pc,
  wrote,     \* what the user wrote for this run
  resolved,  \* the run's Resolved configuration
  hop,       \* index of the request in the chain
  sent,      \* history: the requests of this run
  verdict,   \* this run's verdict on the link: alive, dead (cacheable), flaky, or None
  store      \* the cache file: a fingerprint and a verdict, or None

vars == <<runs, world, pc, wrote, resolved, hop, sent, verdict, store>>

Init ==
  /\ runs = 0 /\ world \in Worlds /\ pc = "start"
  /\ wrote = None /\ resolved = None /\ hop = 1 /\ sent = {}
  /\ verdict = None /\ store = None

\* buildResolved.
Configure(w) ==
  /\ pc = "start" /\ runs < MaxRuns
  /\ runs' = runs + 1
  /\ wrote' = w
  /\ resolved' = BuildResolved(w.file, w.env, w.flags, w.alive)
  /\ pc' = "lookup"
  /\ UNCHANGED <<world, hop, sent, verdict, store>>

\* New drops a file with another fingerprint; a cache that is off has no hits.
Usable == resolved["cacheEnabled"] /\ store # None
          /\ store.fingerprint = CacheFingerprint(resolved)

Serve ==
  /\ pc = "lookup" /\ Usable
  /\ verdict' = store.verdict
  /\ pc' = "save"
  /\ UNCHANGED <<runs, world, wrote, resolved, hop, sent, store>>

Miss ==
  /\ pc = "lookup" /\ ~Usable
  /\ pc' = "send"
  /\ UNCHANGED <<runs, world, wrote, resolved, hop, sent, verdict, store>>

\* What the last URL of the chain answers: some pages need a header.
Answer(headers) ==
  IF world.guard = None \/ \E h \in Named(headers, world.guard) : h.value \in world.accepts
  THEN world.code ELSE 404

Classified(r, code) == IF code \in r["aliveStatusCodes"] THEN "alive"
                       ELSE IF code = 404 THEN "dead" ELSE "flaky"

Send ==
  /\ pc = "send"
  /\ LET headers == HeadersAt(resolved, world.path, hop) IN
     /\ sent' = sent \cup {[url |-> world.path[hop], headers |-> headers]}
     /\ IF hop < Len(world.path)
        THEN pc' = "redirect" /\ UNCHANGED verdict
        ELSE pc' = "save" /\ verdict' = Classified(resolved, Answer(headers))
  /\ UNCHANGED <<runs, world, wrote, resolved, hop, store>>

Follow ==
  /\ pc = "redirect" /\ ~RefusesRedirect(resolved, hop)
  /\ hop' = hop + 1
  /\ pc' = "send"
  /\ UNCHANGED <<runs, world, wrote, resolved, sent, verdict, store>>

\* errTooManyRedirects: dead without a status, which is not cached.
Refuse ==
  /\ pc = "redirect" /\ RefusesRedirect(resolved, hop)
  /\ verdict' = "flaky"
  /\ pc' = "save"
  /\ UNCHANGED <<runs, world, wrote, resolved, hop, sent, store>>

\* Put and Save, under the fingerprint of this run; then the process is over.
Entry(v) == [fingerprint |-> CacheFingerprint(resolved), verdict |-> v]
Save ==
  /\ pc = "save"
  /\ store' = IF ~resolved["cacheEnabled"] THEN store
              ELSE IF verdict = "flaky" THEN None ELSE Entry(verdict)
  /\ pc' = "start"
  /\ wrote' = None /\ resolved' = None /\ hop' = 1 /\ sent' = {} /\ verdict' = None
  /\ UNCHANGED <<runs, world>>

Next ==
  \/ \E w \in Wrote : Configure(w)
  \/ Serve \/ Miss \/ Send \/ Follow \/ Refuse \/ Save

Spec == Init /\ [][Next]_vars
-----------------------------------------------------------------------------
(* Properties.                                                             *)

\* A setting counts where it was written, if its kind can tell it from unset.
Set(written, f) == f \in DOMAIN written /\ written[f] # UnsetValue(f)

\* The value of a setting is that of the highest layer that sets it.
Highest(w, f) ==
  IF Set(w.flags, f) THEN w.flags[f]
  ELSE IF Set(w.env, f) THEN w.env[f]
  ELSE IF Set(w.file, f) THEN w.file[f] ELSE Default[f]
\* Of the retry limit, both names count in the file, and the alias less.
RetryLimit(w) ==
  IF Set(w.file, "maxRetries") /\ \A l \in {w.flags, w.env, w.file} : ~Set(l, "retryCount")
  THEN w.file["maxRetries"] ELSE Highest(w, "retryCount")

\* Defaults < file < env < flags (resolveConfig, Merge, Resolve), for every
\* setting; and an explicit retryCount, 0 included, is not undone by the alias
\* maxRetries of a lower layer, which Merge leaves in place to be folded in twice.
Precedence ==
  resolved # None =>
    /\ \A f \in (Optional \cup Plain) \ {"retryCount", "maxRetries", "aliveStatusCodes"} :
         resolved[f] = Highest(wrote, f)
    /\ resolved["maxRetries"] = AtLeastZero(RetryLimit(wrote))
    /\ wrote.alive \cup CodeSet(Highest(wrote, "aliveStatusCodes")) = resolved["aliveStatusCodes"]

\* What a check of the link under configuration r comes to.
OwnVerdict(r) ==
  LET n == Len(world.path) IN
  IF \E made \in 1..(n - 1) : RefusesRedirect(r, made) THEN "flaky"
  ELSE Classified(r, Answer(HeadersAt(r, world.path, n)))

\* Results obtained under one policy are not reused under another: whatever
\* was changed between the runs, in whichever layer, a verdict from the cache
\* is the one that the run's own check would have come to (CacheFingerprint).
ServedIsOwn == verdict # None => verdict = OwnVerdict(resolved)

\* Over any chain of redirects, back and forth, what a header rule attaches is
\* sent only to an origin that a rule with this header names, and the token only
\* to GitHub (do, ruleMatches, checkRedirect).
HeadersStayHome ==
  \A q \in sent : \A h \in q.headers :
    /\ h.from = "rule" =>
         \E i \in DOMAIN resolved["httpHeaders"] :
           LET rule == resolved["httpHeaders"][i] IN
           /\ h.name \in DOMAIN rule.headers /\ rule.headers[h.name] = h.value
           /\ \E u \in rule.urls : u.origin = q.url.origin
    /\ h.from = "token" => q.url.origin \in GitHubHosts

\* maxRedirects is the "maximum redirects to follow" (cli.go:66): a link is
\* given up only when its chain has more of them.
RedirectsAsAsked ==
  verdict = "flaky" /\ Classified(resolved, world.code) = "alive" =>
    Len(world.path) - 1 > resolved["maxRedirects"]
=============================================================================
