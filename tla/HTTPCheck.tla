------------------------------ MODULE HTTPCheck ------------------------------
(***************************************************************************)
(* One call of HTTPChecker.Check: a HEAD, perhaps a GET, each run by the   *)
(* shared retryablehttp client with the hooks of internal/checker, against *)
(* a server that may answer anything and a context that may end at any     *)
(* time.  The accounting of retryState is shared by the two methods.       *)
(***************************************************************************)
EXTENDS Integers

CONSTANTS
  MaxRetries,      \* --retry-count: rate-limit and timeout retries
  ConnectRetries,  \* retries of a failed connection
  RetryOn429,
  BackoffMin, BackoffMax,   \* fallback delay and cap of the backoff, in half seconds
  Alive,           \* AliveStatusCodes
  Statuses,        \* statuses the server may answer with
  RetryAfters,     \* delays it may put into a Retry-After header, in half seconds
  DurationLimit,   \* what a time.Duration cannot hold: 2^63 nanoseconds in the code
  None

Throttled == {429, 503}

ASSUME ConstantsAssumption ==
  /\ MaxRetries \in Nat /\ ConnectRetries \in Nat
  /\ RetryOn429 \in BOOLEAN
  /\ BackoffMin \in Nat \ {0} /\ BackoffMax \in Nat \ {0}
  /\ Statuses \subseteq 100..599 /\ Alive \subseteq Statuses
  /\ RetryAfters \subseteq Nat /\ None \notin Nat
  /\ DurationLimit \in Nat \ {0} /\ BackoffMax < DurationLimit

\* What one attempt comes to: a response, or no response (code 0).
Failures == {"refused", "timeout", "redirects", "unbuildable", "cancelled"}
Answer == [kind : Failures \cup {"response"}, code : Statuses \cup {0},
           retryAfter : RetryAfters \cup {None}]
Failed(kind) == [kind |-> kind, code |-> 0, retryAfter |-> None]
Responses ==
  {a \in Answer : /\ a.kind = "response" /\ a.code \in Statuses
                  /\ a.code \notin Throttled => a.retryAfter = None}

VARIABLES
  sound,      \* can a request be built from the URL?
  method,     \* HEAD, then perhaps GET
  pc,
  attempt,    \* index of the current attempt within the client's Do
  answer,     \* resp and err of the last attempt
  st,         \* retryState
  wait,       \* the wait before the next attempt
  ctx,        \* the context: live, or ended by a signal or its deadline
  res,        \* the Result
  tally       \* history: attempts made and what they came to

vars == <<sound, method, pc, attempt, answer, st, wait, ctx, res, tally>>

RetryState == [retries : Nat, saw429 : BOOLEAN, retryAfter : Int,
               transportFailures : Nat, rateLimitRetries : Nat, timeoutRetries : Nat]
Result == [state : {"alive", "dead", "error"}, code : Statuses \cup {0},
           retries : Nat, saw429 : BOOLEAN, retryAfter : Int]
Tally == [sent : Nat, refused : Nat, timeout : Nat, throttled : Nat, n429 : Nat]

TypeOK ==
  /\ sound \in BOOLEAN
  /\ method \in {"HEAD", "GET"}
  /\ pc \in {"send", "decide", "wait", "returned", "done"}
  /\ attempt \in Nat
  /\ answer \in Answer
  /\ st \in RetryState
  /\ wait \in Nat
  /\ ctx \in {"live", "signal", "deadline"}
  /\ res \in Result \cup {None}
  /\ tally \in Tally

Init ==
  /\ sound \in BOOLEAN
  /\ method = "HEAD" /\ pc = "send" /\ attempt = 0
  /\ answer = Failed("unbuildable")
  /\ st = [retries |-> 0, saw429 |-> FALSE, retryAfter |-> 0, transportFailures |-> 0,
           rateLimitRetries |-> 0, timeoutRetries |-> 0]
  /\ wait = 0 /\ ctx = "live" /\ res = None
  /\ tally = [sent |-> 0, refused |-> 0, timeout |-> 0, throttled |-> 0, n429 |-> 0]

Done == ctx # "live"
One(condition) == IF condition THEN 1 ELSE 0

-----------------------------------------------------------------------------
(* The client's Do: an attempt, checkRetry, a wait, the next attempt.      *)

\* do cannot build the request: it returns before the client is asked.
Unbuildable ==
  /\ pc = "send" /\ attempt = 0 /\ ~sound
  /\ answer' = Failed("unbuildable")
  /\ pc' = "returned"
  /\ UNCHANGED <<sound, method, attempt, st, wait, ctx, res, tally>>

\* requestLogHook, then the attempt.  An ended context fails it.
Send(a) ==
  /\ pc = "send" /\ sound
  /\ a.kind = "cancelled" <=> Done
  /\ answer' = a
  /\ st' = [st EXCEPT !.retries = @ + One(attempt > 0)]
  /\ tally' = [sent |-> tally.sent + 1,
               refused |-> tally.refused + One(a.kind = "refused"),
               timeout |-> tally.timeout + One(a.kind = "timeout"),
               throttled |-> tally.throttled + One(a.code \in Throttled),
               n429 |-> tally.n429 + One(a.code = 429)]
  /\ pc' = "decide"
  /\ UNCHANGED <<sound, method, attempt, wait, ctx, res>>

\* parseRetryAfter: the seconds of the header times time.Second, in 64 bits.
Parsed(seconds) == ((seconds + DurationLimit) % (2 * DurationLimit)) - DurationLimit

TooLong(a) == a.retryAfter # None /\ Parsed(a.retryAfter) > BackoffMax

\* A 429 or 503 that is charged to the retry budget.  Its mutant: a long
\* Retry-After is waited out as far as the cap goes.
ThrottleCapped(a) == a.code \in Throttled /\ (a.code = 429 => RetryOn429)
ThrottleRetry(a) ==
  a.code \in Throttled /\ (a.code = 429 => RetryOn429) /\ ~TooLong(a)

\* What checkRetry and rateLimitRetry write down.  Its mutants: saw429 is that
\* of the last response; timeouts are charged to nobody.
NotedLast(a) ==
  [st EXCEPT !.saw429 = a.code = 429,
             !.timeoutRetries = @ + One(a.kind = "timeout"),
             !.transportFailures = @ + One(a.kind = "refused"),
             !.rateLimitRetries = @ + One(ThrottleRetry(a))]
NotedNoTimeout(a) ==
  [st EXCEPT !.saw429 = IF a.code = 429 THEN TRUE ELSE @,
             !.transportFailures = @ + One(a.kind = "refused"),
             !.rateLimitRetries = @ + One(ThrottleRetry(a))]
Noted(a) ==
  [st EXCEPT !.saw429 = IF a.code = 429 THEN TRUE ELSE @,
             !.timeoutRetries = @ + One(a.kind = "timeout"),
             !.transportFailures = @ + One(a.kind = "refused"),
             !.rateLimitRetries = @ + One(ThrottleRetry(a))]

\* checkRetry, each kind of failure against its own budget.
CheckRetry(a) ==
  \/ a.kind = "timeout" /\ Noted(a).timeoutRetries <= MaxRetries
  \/ a.kind = "refused" /\ Noted(a).transportFailures <= ConnectRetries
  \/ ThrottleRetry(a) /\ Noted(a).rateLimitRetries <= MaxRetries

RetryMax == IF MaxRetries > ConnectRetries THEN MaxRetries ELSE ConnectRetries
WillRetry(a) == CheckRetry(a) /\ attempt < RetryMax

DecideCancelled ==
  /\ pc = "decide" /\ Done
  /\ answer' = Failed("cancelled")
  /\ pc' = "returned"
  /\ UNCHANGED <<sound, method, attempt, st, wait, ctx, res, tally>>

\* The client passes the last response or error through.
DecideReturn ==
  /\ pc = "decide" /\ ~Done /\ ~WillRetry(answer)
  /\ st' = Noted(answer)
  /\ pc' = "returned"
  /\ UNCHANGED <<sound, method, attempt, answer, wait, ctx, res, tally>>

\* connectBackoff: 0.5s, 1s, 2s, 3s, 3s, ...
ConnectBackoff == CASE attempt = 0 -> 1 [] attempt = 1 -> 2 [] attempt = 2 -> 4
                    [] OTHER -> 6

\* expJitterBackoff: anything from the floor to the doubled floor, under the cap.
Floor == IF BackoffMin > BackoffMax THEN BackoffMax ELSE BackoffMin
ExpJitter == {w \in Floor..BackoffMax : w <= Floor * 2^attempt}

\* The Retry-After that is waited for.  Its mutant is not floored at zero.
HonouredUnfloored(d) == IF d > BackoffMax THEN BackoffMax ELSE d
Honoured(d) == IF d < 0 THEN 0 ELSE IF d > BackoffMax THEN BackoffMax ELSE d

\* computeBackoff.
Backoffs(a) ==
  CASE a.kind # "response" -> {ConnectBackoff}
    [] a.retryAfter # None -> {Honoured(Parsed(a.retryAfter))}
    [] OTHER -> ExpJitter

DecideRetry(w) ==
  /\ pc = "decide" /\ ~Done /\ WillRetry(answer)
  /\ w \in Backoffs(answer)
  /\ wait' = w
  /\ st' = [Noted(answer) EXCEPT
              !.retryAfter = IF answer.retryAfter # None THEN Parsed(answer.retryAfter) ELSE @]
  /\ pc' = "wait"
  /\ UNCHANGED <<sound, method, attempt, answer, ctx, res, tally>>

WaitOver ==
  /\ pc = "wait"
  /\ attempt' = attempt + 1
  /\ pc' = "send"
  /\ UNCHANGED <<sound, method, answer, st, wait, ctx, res, tally>>

WaitCancelled ==
  /\ pc = "wait" /\ Done
  /\ answer' = Failed("cancelled")
  /\ pc' = "returned"
  /\ UNCHANGED <<sound, method, attempt, st, wait, ctx, res, tally>>

-----------------------------------------------------------------------------
(* Check, after Do has returned.                                           *)

Returned(m) == pc = "returned" /\ method = m
HasResponse == answer.kind = "response"

\* isTimeout of the error: a per-request timeout, or the deadline of the context.
IsTimeout == answer.kind = "timeout" \/ (answer.kind = "cancelled" /\ ctx = "deadline")

\* HEAD alone decides: any 2xx, a code that is configured as alive, or a status of a
\* throttling host.  Its mutant lets a client error decide too.
ShortCircuit(code) == code \in 200..299 \/ code \in Alive
ConclusiveBelow500(code) == ShortCircuit(code) \/ code \in 400..499 \cup {503}
Conclusive(code) == ShortCircuit(code) \/ code \in Throttled

\* res, with applyRetryState.
Conclude(state, code) ==
  /\ res' = [state |-> state, code |-> code, retries |-> st.retries,
             saw429 |-> st.saw429, retryAfter |-> st.retryAfter]
  /\ pc' = "done"
  /\ UNCHANGED <<sound, method, attempt, answer, st, wait, ctx, tally>>

Classify ==
  /\ HasResponse
  /\ Returned("GET") \/ (Returned("HEAD") /\ Conclusive(answer.code))
  /\ Conclude(IF answer.code \in Alive THEN "alive" ELSE "dead", answer.code)

\* ctx.Err() is looked at before the error.
ReturnError ==
  /\ pc = "returned" /\ ~HasResponse /\ Done
  /\ res' = [state |-> "error", code |-> 0, retries |-> 0, saw429 |-> FALSE,
             retryAfter |-> 0]
  /\ pc' = "done"
  /\ UNCHANGED <<sound, method, attempt, answer, st, wait, ctx, tally>>

\* No response makes the link dead: a timeout of HEAD, any failure of GET.  Its
\* mutant looks at the error before the context.
FailedFirst == ~HasResponse /\ (method = "GET" \/ IsTimeout)
FailedLive == ~HasResponse /\ ~Done /\ (method = "GET" \/ IsTimeout)
GiveUp ==
  /\ pc = "returned" /\ FailedLive
  /\ Conclude("dead", 0)

\* HEAD reached no verdict, or no server.
FallBack ==
  /\ Returned("HEAD")
  /\ IF HasResponse THEN ~Conclusive(answer.code) ELSE ~Done /\ ~IsTimeout
  /\ method' = "GET" /\ attempt' = 0 /\ pc' = "send"
  /\ UNCHANGED <<sound, answer, st, wait, ctx, res, tally>>

-----------------------------------------------------------------------------
Attempt == \E a \in Responses \cup {Failed(f) : f \in Failures \ {"unbuildable"}} : Send(a)

Step ==
  \/ Unbuildable \/ Attempt \/ DecideCancelled \/ DecideReturn
  \/ (\E w \in Backoffs(answer) : DecideRetry(w))
  \/ WaitOver \/ WaitCancelled \/ Classify \/ ReturnError \/ GiveUp \/ FallBack

\* A signal or --max-time ends the context; an attempt under way fails with it.
Cancel(why) ==
  /\ ~Done /\ pc # "done"
  /\ ctx' = why
  /\ UNCHANGED <<sound, method, pc, attempt, answer, st, wait, res, tally>>

Next == Step \/ \E why \in {"signal", "deadline"} : Cancel(why)

Spec == Init /\ [][Next]_vars
-----------------------------------------------------------------------------
(* Properties.                                                             *)

\* The budgets hold over HEAD and GET together and however the failures mix:
\* at most MaxRetries + 1 throttled and as many timed-out attempts (so the
\* timeouts cost at most (retryCount + 1) times --timeout), ConnectRetries + 2
\* refused ones (GET tries once more), and RetryMax + 1 attempts per method.
BudgetsHold ==
  /\ tally.throttled <= MaxRetries + 1
  /\ tally.timeout <= MaxRetries + 1
  /\ tally.refused <= ConnectRetries + 2
  /\ tally.sent <= 2 * (RetryMax + 1)

\* A hard-dead verdict, which the cache keeps and which fails the run, is GET's
\* word: servers that reject HEAD alone are not called dead for it (Check).
HardDeadIsGETs ==
  res # None /\ res.state = "dead" /\ res.code \in 400..499 \ {429} => method = "GET"

\* A Retry-After that a time.Duration can hold is waited out in full before the
\* next attempt; what is longer than BackoffMax is not waited for at all, nor
\* retried (rateLimitRetry, computeBackoff).
RetryAfterHonoured ==
  pc = "wait" /\ answer.retryAfter # None /\ answer.retryAfter < DurationLimit =>
    wait >= answer.retryAfter

\* No link is called dead because the run was cancelled: a verdict without a
\* response rests on a failure of the link's own.
CancelIsNotDeath ==
  res # None /\ res.state # "error" =>
    answer.kind \in {"response", "refused", "timeout", "redirects", "unbuildable"}

\* The pipeline penalizes the host exactly when some attempt of a completed
\* check was answered 429, also when a later attempt succeeded (saw429).
ThrottlingRemembered ==
  res # None /\ res.state # "error" => (res.saw429 <=> tally.n429 > 0)

\* The inductive invariant behind these.  While the client goes on, retryState has
\* counted exactly what happened and no budget is overdrawn; what goes over a
\* budget is the last answer, and HEAD hands over to GET only what is not.
Pending(condition) == One(pc = "decide" /\ condition)
GoingOn == \/ pc \in {"send", "wait", "decide"}
           \/ pc = "returned" /\ answer.kind # "cancelled"
HandsOver == pc = "returned" /\ method = "HEAD" /\ answer.kind \notin {"timeout", "cancelled"}

Accounting ==
  /\ GoingOn =>
       /\ tally.timeout = st.timeoutRetries + Pending(answer.kind = "timeout")
       /\ tally.refused = st.transportFailures + Pending(answer.kind = "refused")
       /\ (st.saw429 \/ (pc = "decide" /\ answer.code = 429)) <=> tally.n429 > 0
  /\ pc \in {"send", "wait", "decide"} \/ HandsOver => st.timeoutRetries <= MaxRetries
  /\ pc \in {"send", "wait", "decide"} \/ (HandsOver /\ answer.code \notin Throttled) =>
       tally.throttled = st.rateLimitRetries + Pending(answer.code \in Throttled)
       /\ st.rateLimitRetries <= MaxRetries
  /\ pc \in {"send", "wait", "decide"} => st.transportFailures <= ConnectRetries + One(method = "GET")
  /\ HandsOver => st.transportFailures <= ConnectRetries + 1
  /\ attempt <= RetryMax /\ (pc = "wait" => attempt < RetryMax)
  /\ tally.sent <= attempt + One(pc # "send") + (IF method = "GET" THEN RetryMax + 1 ELSE 0)
  /\ answer.kind # "response" => answer.code = 0
  /\ pc \in {"decide", "returned"} /\ answer.kind = "cancelled" => Done
  /\ res # None => pc = "done"
  /\ BudgetsHold /\ HardDeadIsGETs /\ CancelIsNotDeath /\ ThrottlingRemembered

\* "Honor the server's Retry-After as sent, capped only by BackoffMax"
\* (computeBackoff), where more than the cap is a reason to give up
\* (rateLimitRetry): nobody is asked again before the time he named.
RetryAfterAsSent ==
  pc = "wait" /\ answer.retryAfter # None => wait >= answer.retryAfter

\* The Result carries the "observed Retry-After, if any, for the host cooldown"
\* (model.Result).
RetryAfterReported ==
  res # None /\ answer.retryAfter # None => res.retryAfter = answer.retryAfter
=============================================================================
