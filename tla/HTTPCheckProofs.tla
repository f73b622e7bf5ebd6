--------------------------- MODULE HTTPCheckProofs ---------------------------
(***************************************************************************)
(* Proofs about HTTPCheck for every budget, every set of statuses and of   *)
(* Retry-After delays, and every configuration of the codes alive.         *)
(***************************************************************************)
EXTENDS HTTPCheck, TLAPS

USE ConstantsAssumption DEF One

LEMMA RetryMaxBounds == RetryMax \in Nat /\ MaxRetries <= RetryMax /\ ConnectRetries <= RetryMax
BY SMTT(30) DEF RetryMax

\* An update of the fields that checkRetry writes.
LEMMA RetryStateUpdate ==
  ASSUME NEW s \in RetryState, NEW b \in BOOLEAN, NEW x \in Nat, NEW y \in Nat, NEW z \in Nat
  PROVE  [s EXCEPT !.saw429 = b, !.timeoutRetries = x, !.transportFailures = y,
                   !.rateLimitRetries = z] \in RetryState
BY ZenonT(30) DEF RetryState

\* checkRetry's bookkeeping yields a retryState.
LEMMA NotedType ==
  ASSUME TypeOK, NEW a \in Answer
  PROVE  Noted(a) \in RetryState
<1> DEFINE b == IF a.code = 429 THEN TRUE ELSE st.saw429
           x == st.timeoutRetries + One(a.kind = "timeout")
           y == st.transportFailures + One(a.kind = "refused")
           z == st.rateLimitRetries + One(ThrottleRetry(a))
<1>1. st \in RetryState /\ b \in BOOLEAN
  <2>1. st \in RetryState BY DEF TypeOK
  <2>2. st.saw429 \in BOOLEAN BY <2>1 DEF RetryState
  <2>3. b = TRUE \/ b = st.saw429 OBVIOUS
  <2> HIDE DEF b
  <2> QED BY <2>1, <2>2, <2>3
<1>2. x \in Nat /\ y \in Nat /\ z \in Nat BY <1>1 DEF RetryState
<1>3. Noted(a) = [st EXCEPT !.saw429 = b, !.timeoutRetries = x, !.transportFailures = y,
                            !.rateLimitRetries = z]
  <2> HIDE DEF One
  <2> QED BY DEF Noted
<1>4. [st EXCEPT !.saw429 = b, !.timeoutRetries = x, !.transportFailures = y,
                 !.rateLimitRetries = z] \in RetryState
  <2> HIDE DEF b, x, y, z, One
  <2> QED BY <1>1, <1>2, RetryStateUpdate
<1> HIDE DEF b, x, y, z, One
<1> QED BY <1>3, <1>4

\* What parseRetryAfter makes of a header is a Duration.
LEMMA ParsedType ==
  \A d \in Nat : /\ Parsed(d) \in Int
                 /\ -DurationLimit <= Parsed(d) /\ Parsed(d) < DurationLimit
<1> TAKE d \in Nat
<1>1. (d + DurationLimit) % (2 * DurationLimit) \in 0..(2 * DurationLimit - 1)
  OBVIOUS
<1> QED BY <1>1 DEF Parsed

\* A backoff is a natural number of half seconds.
LEMMA BackoffType ==
  ASSUME TypeOK, NEW w \in Backoffs(answer)
  PROVE  w \in Nat
<1>1. Floor \in Nat BY DEF Floor
<1>2. ConnectBackoff \in Nat BY DEF ConnectBackoff, TypeOK
<1>3. \A x \in ExpJitter : x \in Nat BY <1>1 DEF ExpJitter
<1>4. \A d \in Int : Honoured(d) \in Nat BY DEF Honoured
<1>5. answer.retryAfter # None => answer.retryAfter \in Nat BY DEF TypeOK, Answer
<1>6. answer.retryAfter # None => Parsed(answer.retryAfter) \in Int BY <1>5, ParsedType
<1> QED BY <1>2, <1>3, <1>4, <1>6 DEF Backoffs

\* Every variable keeps its type in every step.
LEMMA TypeStep == TypeOK /\ [Next]_vars => TypeOK'
<1> SUFFICES ASSUME TypeOK, [Next]_vars PROVE TypeOK'
    OBVIOUS
<1>a. \A f \in Failures : Failed(f) \in Answer BY DEF Failures, Failed, Answer
<1>1. CASE Unbuildable BY <1>1, <1>a DEF Unbuildable, TypeOK, Failures
<1>2. ASSUME NEW a \in Responses \cup {Failed(f) : f \in Failures \ {"unbuildable"}}, Send(a)
      PROVE  TypeOK'
  <2>1. a \in Answer BY <1>a DEF Responses
  <2> QED BY <2>1, <1>2 DEF Send, TypeOK, RetryState, Tally
<1>3. CASE DecideCancelled BY <1>3, <1>a DEF DecideCancelled, TypeOK, Failures
<1>4. CASE DecideReturn BY <1>4, NotedType DEF DecideReturn, TypeOK
<1>5. ASSUME NEW w \in Backoffs(answer), DecideRetry(w) PROVE TypeOK'
  <2>1. w \in Nat BY BackoffType
  <2>2. Noted(answer) \in RetryState BY NotedType DEF TypeOK
  <2>a. answer.retryAfter # None => answer.retryAfter \in Nat BY DEF TypeOK, Answer
  <2>3. answer.retryAfter # None => Parsed(answer.retryAfter) \in Int BY <2>a, ParsedType
  <2>4. st' \in RetryState BY <1>5, <2>2, <2>3 DEF DecideRetry, RetryState
  <2> QED BY <1>5, <2>1, <2>4 DEF DecideRetry, TypeOK
<1>6. CASE WaitOver BY <1>6 DEF WaitOver, TypeOK
<1>7. CASE WaitCancelled BY <1>7, <1>a DEF WaitCancelled, TypeOK, Failures
<1>8. CASE Classify
  <2>1. answer.code \in Statuses \cup {0} BY DEF TypeOK, Answer
  <2> QED BY <1>8, <2>1 DEF Classify, Conclude, TypeOK, Result, RetryState
<1>9. CASE ReturnError BY <1>9 DEF ReturnError, TypeOK, Result
<1>10. CASE GiveUp BY <1>10 DEF GiveUp, Conclude, TypeOK, Result, RetryState
<1>11. CASE FallBack BY <1>11 DEF FallBack, TypeOK
<1>12. ASSUME NEW why \in {"signal", "deadline"}, Cancel(why) PROVE TypeOK'
  BY <1>12 DEF Cancel, TypeOK
<1>13. CASE UNCHANGED vars BY <1>13 DEF vars, TypeOK
<1> QED BY <1>1, <1>2, <1>3, <1>4, <1>5, <1>6, <1>7, <1>8, <1>9, <1>10, <1>11, <1>12, <1>13
        DEF Next, Step, Attempt

\* TypeOK holds of every behaviour of a check.
THEOREM TypeCorrect == Spec => []TypeOK
<1>1. Init => TypeOK BY DEF Init, TypeOK, RetryState, Tally, Answer, Failed, Failures
<1> QED BY <1>1, TypeStep, PTL DEF Spec

-----------------------------------------------------------------------------
\* Every step keeps the accounting of retries.
LEMMA AccountingStep == TypeOK /\ TypeOK' /\ Accounting /\ [Next]_vars => Accounting'
<1> SUFFICES ASSUME TypeOK, TypeOK', Accounting, [Next]_vars PROVE Accounting'
    OBVIOUS
<1> USE RetryMaxBounds DEF TypeOK, RetryState, Tally, Answer, Accounting, Pending, GoingOn,
      HandsOver, BudgetsHold, HardDeadIsGETs, CancelIsNotDeath, ThrottlingRemembered, Throttled
<1>1. CASE Unbuildable BY <1>1 DEF Unbuildable, Failed
<1>2. ASSUME NEW a \in Responses \cup {Failed(f) : f \in Failures \ {"unbuildable"}}, Send(a)
      PROVE  Accounting'
  <2>1. a.kind # "response" => a.code = 0 BY DEF Responses, Failed
  <2>2. a.code \in Statuses \cup {0} /\ a \in Answer BY DEF Responses, Failed, Failures
  <2> QED BY <2>1, <2>2, <1>2 DEF Send, Done
<1>3. CASE DecideCancelled BY <1>3 DEF DecideCancelled, Failed, Done
<1>4. CASE DecideReturn BY <1>4 DEF DecideReturn, WillRetry, CheckRetry, Noted, ThrottleRetry, Done
<1>5. ASSUME NEW w \in Backoffs(answer), DecideRetry(w) PROVE Accounting'
  BY <1>5 DEF DecideRetry, WillRetry, CheckRetry, Noted, ThrottleRetry, Done
<1>6. CASE WaitOver BY <1>6 DEF WaitOver
<1>7. CASE WaitCancelled BY <1>7 DEF WaitCancelled, Failed, Done
<1>8. CASE Classify
  BY <1>8 DEF Classify, Conclude, HasResponse, Returned, Conclusive, ShortCircuit
<1>9. CASE ReturnError BY <1>9 DEF ReturnError
<1>10. CASE GiveUp BY <1>10 DEF GiveUp, Conclude, HasResponse, FailedLive, Done, Failures
<1>11. CASE FallBack
  BY <1>11 DEF FallBack, Returned, HasResponse, Conclusive, IsTimeout, Done, Failures
<1>12. ASSUME NEW why \in {"signal", "deadline"}, Cancel(why) PROVE Accounting'
  BY <1>12 DEF Cancel, Done
<1>13. CASE UNCHANGED vars BY <1>13 DEF vars, Done
<1> HIDE DEF TypeOK, RetryState, Tally, Answer, Accounting, Pending, GoingOn, HandsOver,
      BudgetsHold, HardDeadIsGETs, CancelIsNotDeath, ThrottlingRemembered, Throttled
<1> QED BY <1>1, <1>2, <1>3, <1>4, <1>5, <1>6, <1>7, <1>8, <1>9, <1>10, <1>11, <1>12, <1>13
        DEF Next, Step, Attempt

\* The inductive invariant of a check.
THEOREM AccountingHolds == Spec => []Accounting
<1>1. Init => Accounting
  BY RetryMaxBounds DEF Init, Accounting, Pending, GoingOn, HandsOver, BudgetsHold, HardDeadIsGETs,
     CancelIsNotDeath, ThrottlingRemembered, Failed, Throttled
<1> QED BY <1>1, AccountingStep, TypeCorrect, PTL DEF Spec

\* The retry budgets hold over HEAD and GET, however the failures of a link mix.
THEOREM BudgetsAreKept == Spec => []BudgetsHold
BY AccountingHolds, PTL DEF Accounting

\* A hard-dead verdict is always GET's.
THEOREM HardDeadNeedsGET == Spec => []HardDeadIsGETs
BY AccountingHolds, PTL DEF Accounting

\* Cancelling a run makes no link dead.
THEOREM CancelKillsNoLink == Spec => []CancelIsNotDeath
BY AccountingHolds, PTL DEF Accounting

\* Throttling is reported to the host exactly when it occurred.
THEOREM ThrottlingIsRemembered == Spec => []ThrottlingRemembered
BY AccountingHolds, PTL DEF Accounting

-----------------------------------------------------------------------------
\* Only a throttled response has a delay, and a wait is that of the last answer.
HeaderOfThrottled ==
  answer.retryAfter # None => answer.kind = "response" /\ answer.code \in Throttled
Waits == HeaderOfThrottled /\ RetryAfterHonoured

\* A delay that a Duration can hold is parsed as it is.
LEMMA ParsedExactly ==
  ASSUME NEW d \in Nat, d < DurationLimit
  PROVE  Parsed(d) = d
<1>1. (d + DurationLimit) % (2 * DurationLimit) = d + DurationLimit OBVIOUS
<1> QED BY <1>1 DEF Parsed

\* Every step keeps the wait at least as long as it was asked for.
LEMMA WaitsStep == TypeOK /\ Waits /\ [Next]_vars => Waits'
<1> SUFFICES ASSUME TypeOK, Waits, [Next]_vars PROVE Waits'
    OBVIOUS
<1>1. ASSUME NEW a \in Responses \cup {Failed(f) : f \in Failures \ {"unbuildable"}}, Send(a)
      PROVE  Waits'
  <2>1. a.retryAfter # None => a.kind = "response" /\ a.code \in Throttled
    BY DEF Responses, Failed
  <2> QED BY <1>1, <2>1 DEF Send, Waits, HeaderOfThrottled, RetryAfterHonoured
<1>2. CASE Unbuildable \/ DecideCancelled \/ WaitCancelled
  BY <1>2 DEF Unbuildable, DecideCancelled, WaitCancelled, Failed, Waits, HeaderOfThrottled,
              RetryAfterHonoured
<1>3. ASSUME NEW w \in Backoffs(answer), DecideRetry(w) PROVE Waits'
  <2> SUFFICES ASSUME answer.retryAfter # None, answer.retryAfter < DurationLimit
               PROVE  w >= answer.retryAfter
      BY <1>3 DEF DecideRetry, Waits, HeaderOfThrottled, RetryAfterHonoured
  <2>1. answer.kind = "response" BY DEF Waits, HeaderOfThrottled
  <2>2. ThrottleRetry(answer) BY <1>3, <2>1 DEF DecideRetry, WillRetry, CheckRetry
  <2>3. answer.retryAfter \in Nat BY DEF TypeOK, Answer
  <2>4. Parsed(answer.retryAfter) = answer.retryAfter BY <2>3, ParsedExactly
  <2>5. answer.retryAfter <= BackoffMax BY <2>2, <2>3, <2>4 DEF ThrottleRetry, TooLong
  <2>6. w = Honoured(answer.retryAfter) BY <2>1, <2>4 DEF Backoffs
  <2> QED BY <2>3, <2>5, <2>6 DEF Honoured
<1>4. CASE DecideReturn \/ WaitOver \/ Classify \/ ReturnError \/ GiveUp \/ FallBack
  BY <1>4 DEF DecideReturn, WaitOver, Classify, ReturnError, GiveUp, FallBack, Conclude, Waits,
              HeaderOfThrottled, RetryAfterHonoured
<1>5. ASSUME NEW why \in {"signal", "deadline"}, Cancel(why) PROVE Waits'
  BY <1>5 DEF Cancel, Waits, HeaderOfThrottled, RetryAfterHonoured
<1>6. CASE UNCHANGED vars BY <1>6 DEF vars, Waits, HeaderOfThrottled, RetryAfterHonoured
<1> QED BY <1>1, <1>2, <1>3, <1>4, <1>5, <1>6 DEF Next, Step, Attempt

\* Nobody is asked again before the time he named, if a Duration can hold it.
THEOREM RetryAfterIsHonoured == Spec => []RetryAfterHonoured
<1>1. Init => Waits BY DEF Init, Failed, Waits, HeaderOfThrottled, RetryAfterHonoured
<1>2. Waits => RetryAfterHonoured BY DEF Waits
<1> QED BY <1>1, <1>2, WaitsStep, TypeCorrect, PTL DEF Spec
=============================================================================
