------------------------------ MODULE HostState ------------------------------
(***************************************************************************)
(* One host: ratelimit.HostState, the hostPacer that calls Acquire, and    *)
(* the executor workers that report 429s and successes to it.  Times are   *)
(* distances from now, so that the clock is the action Tick; rates are in  *)
(* thousandths of a request per second.  Cancellation is in Pipeline.      *)
(***************************************************************************)
EXTENDS Integers

CONSTANTS
  Workers,        \* executor workers
  Jobs,           \* number of URLs of the host
  ReadyCap,       \* capacity of readyCh
  ConfiguredRPS,  \* PerHostRPS, or the host's override
  Delays,         \* waits for a throttled attempt; an overflowed Retry-After is negative
  MaxCooldown,    \* maxCooldown, 5 minutes in the code
  SuccessesPerRecovery,   \* 5 in the code
  MaxRetries      \* throttled attempts a check may retry (see HTTPCheck)

AbsMinRPS == 10
PenaltyFloorRPS == 200
ConfigRate == IF ConfiguredRPS <= 0 THEN AbsMinRPS ELSE ConfiguredRPS
Step == ConfigRate \div 8
PenaltyFloor == IF Step > PenaltyFloorRPS THEN Step ELSE PenaltyFloorRPS

ASSUME ConstantsAssumption ==
  /\ Jobs \in Nat /\ ReadyCap \in Nat \ {0}
  /\ ConfiguredRPS \in Int
  /\ Delays \subseteq Int
  /\ MaxCooldown \in Nat \ {0}
  /\ SuccessesPerRecovery \in Nat \ {0}
  /\ MaxRetries \in Nat

VARIABLES
  rate,         \* limiter.Limit()
  consecutive,  \* successes since the last increase or 429
  cooldown,     \* time.Until(notBefore), or 0 when it is over
  pacer,        \* where the pacer goroutine is
  nap,          \* what is left of Acquire's timer
  queued,       \* jobs in the pacer's queue
  ready,        \* jobs in readyCh
  worker,       \* where each executor worker is
  window,       \* ArmCooldown's and Penalize429's nb, computed before the lock
  resume,       \* what is left of the worker's backoff
  retried,      \* rateLimitRetries of the worker's check
  saw429,       \* Saw429 of the worker's check
  announced,    \* history: the longest window that was ever armed, what is left of it
  earned        \* history: successes since the last penalty or increase

hostVars == <<rate, consecutive, cooldown, announced, earned>>
pacerVars == <<pacer, nap, queued>>
workerVars == <<worker, window, resume, retried, saw429>>
vars == <<hostVars, pacerVars, ready, workerVars>>

TypeOK ==
  /\ rate \in Nat /\ consecutive \in Nat /\ cooldown \in Nat
  /\ pacer \in {"idle", "token", "gate", "asleep", "send"}
  /\ nap \in Nat /\ queued \in Nat /\ ready \in Nat
  /\ worker \in [Workers -> {"idle", "request", "arm", "backoff", "penalize", "praise"}]
  /\ window \in [Workers -> Nat] /\ resume \in [Workers -> Nat]
  /\ retried \in [Workers -> Nat] /\ saw429 \in [Workers -> BOOLEAN]
  /\ announced \in Nat /\ earned \in Nat

Init ==
  /\ rate = ConfigRate /\ consecutive = 0 /\ cooldown = 0
  /\ pacer = "idle" /\ nap = 0 /\ queued = Jobs /\ ready = 0
  /\ worker = [w \in Workers |-> "idle"]
  /\ window = [w \in Workers |-> 0] /\ resume = [w \in Workers |-> 0]
  /\ retried = [w \in Workers |-> 0] /\ saw429 = [w \in Workers |-> FALSE]
  /\ announced = 0 /\ earned = 0

AtMost(x, bound) == IF x > bound THEN bound ELSE x
AtLeast(x, bound) == IF x < bound THEN bound ELSE x

-----------------------------------------------------------------------------
(* The pacer: take a job, Acquire, send.                                   *)

Take ==
  /\ pacer = "idle" /\ queued > 0
  /\ queued' = queued - 1
  /\ pacer' = "token"
  /\ UNCHANGED <<nap, ready, hostVars, workerVars>>

\* limiter.Wait: every rate is positive, so a token comes.
Token ==
  /\ pacer = "token"
  /\ pacer' = "gate"
  /\ UNCHANGED <<nap, queued, ready, hostVars, workerVars>>

GateShut ==
  /\ pacer = "gate" /\ cooldown > 0
  /\ nap' = cooldown
  /\ pacer' = "asleep"
  /\ UNCHANGED <<queued, ready, hostVars, workerVars>>

\* After the timer the gate is looked at again.  Its mutant goes on.
GoOn == "send"
LookAgain == "gate"

TimerFires ==
  /\ pacer = "asleep" /\ nap = 0
  /\ pacer' = LookAgain
  /\ UNCHANGED <<nap, queued, ready, hostVars, workerVars>>

GateOpen ==
  /\ pacer = "gate" /\ cooldown = 0
  /\ pacer' = "send"
  /\ UNCHANGED <<nap, queued, ready, hostVars, workerVars>>

Release ==
  /\ pacer = "send" /\ ready < ReadyCap
  /\ ready' = ready + 1
  /\ pacer' = "idle"
  /\ UNCHANGED <<nap, queued, hostVars, workerVars>>

-----------------------------------------------------------------------------
(* An executor worker: Check with its OnRetry callback, then what execute  *)
(* tells the host.  A window is computed from the clock before the lock is *)
(* taken, so two workers may arm theirs in the other order.                *)

Goto(w, place) == worker' = [worker EXCEPT ![w] = place]

Start(w) ==
  /\ worker[w] = "idle" /\ ready > 0
  /\ ready' = ready - 1
  /\ Goto(w, "request")
  /\ retried' = [retried EXCEPT ![w] = 0]
  /\ saw429' = [saw429 EXCEPT ![w] = FALSE]
  /\ UNCHANGED <<window, resume, hostVars, pacerVars>>

\* The clamp of a server's delay.  Its mutants believe the server.
AsSent(delay) == AtLeast(delay, 0)
NotFloored(delay) == AtMost(delay, MaxCooldown)
Clamped(delay) == AtMost(AtLeast(delay, 0), MaxCooldown)

\* The count of retryState.  Its mutant gives each attempt a fresh one.
NotCharged(w) == retried[w]
Charged(w) == retried[w] + 1

\* An attempt is answered 429 or 503 and will be retried after the delay.
Throttle(w, delay, is429) ==
  /\ worker[w] = "request" /\ retried[w] < MaxRetries /\ delay >= 0
  /\ retried' = [retried EXCEPT ![w] = Charged(w)]
  /\ saw429' = [saw429 EXCEPT ![w] = @ \/ is429]
  /\ window' = [window EXCEPT ![w] = Clamped(delay)]
  /\ resume' = [resume EXCEPT ![w] = delay]
  /\ Goto(w, "arm")
  /\ UNCHANGED <<ready, hostVars, pacerVars>>

\* notBefore only moves forward.
Extended(w) == AtLeast(cooldown, window[w])

\* ArmCooldown under the lock.
Arm(w) ==
  /\ worker[w] = "arm"
  /\ cooldown' = Extended(w)
  /\ announced' = AtLeast(announced, window[w])
  /\ Goto(w, "backoff")
  /\ UNCHANGED <<rate, consecutive, earned, window, resume, retried, saw429, ready, pacerVars>>

\* The check's own wait is over: the next attempt.  No gate is asked.
Retry(w) ==
  /\ worker[w] = "backoff" /\ resume[w] = 0
  /\ Goto(w, "request")
  /\ UNCHANGED <<window, resume, retried, saw429, ready, hostVars, pacerVars>>

\* The check ends.  Penalize429 if any attempt was a 429, with the delay that was
\* last recorded; OnSuccess if the link is alive; else nothing.
FinishThrottled(w, delay) ==
  /\ worker[w] = "request"
  /\ saw429' = [saw429 EXCEPT ![w] = TRUE]
  /\ window' = [window EXCEPT ![w] = Clamped(delay)]
  /\ Goto(w, "penalize")
  /\ UNCHANGED <<resume, retried, ready, hostVars, pacerVars>>

FinishAlive(w) ==
  /\ worker[w] = "request" /\ ~saw429[w]
  /\ Goto(w, "praise")
  /\ UNCHANGED <<window, resume, retried, saw429, ready, hostVars, pacerVars>>

FinishOther(w) ==
  /\ worker[w] = "request" /\ ~saw429[w]
  /\ Goto(w, "idle")
  /\ UNCHANGED <<window, resume, retried, saw429, ready, hostVars, pacerVars>>

\* Halve, down to the floor and never above the configured rate.  Its mutant has no floor.
CutNoFloor == AtMost(rate \div 2, ConfigRate)
Cut == AtMost(AtLeast(rate \div 2, PenaltyFloor), ConfigRate)

\* Its mutant does not start the count again.
CountOn == consecutive
CountAgain == 0

\* Penalize429 under the lock.
Penalize(w) ==
  /\ worker[w] = "penalize"
  /\ rate' = Cut
  /\ cooldown' = Extended(w)
  /\ announced' = AtLeast(announced, window[w])
  /\ consecutive' = CountAgain
  /\ earned' = 0
  /\ Goto(w, "idle")
  /\ UNCHANGED <<window, resume, retried, saw429, ready, pacerVars>>

\* OnSuccess: every SuccessesPerRecovery-th in a row earns a step back up.
Recovered == consecutive + 1 >= SuccessesPerRecovery

Praise(w) ==
  /\ worker[w] = "praise"
  /\ consecutive' = IF Recovered THEN 0 ELSE consecutive + 1
  /\ rate' = IF Recovered THEN AtMost(rate + Step, ConfigRate) ELSE rate
  /\ earned' = IF rate' > rate THEN 0 ELSE earned + 1
  /\ Goto(w, "idle")
  /\ UNCHANGED <<cooldown, announced, window, resume, retried, saw429, ready, pacerVars>>

-----------------------------------------------------------------------------
Less(x) == IF x > 0 THEN x - 1 ELSE 0

\* Time passes, for everything that is measured.
Tick ==
  /\ cooldown' = Less(cooldown) /\ announced' = Less(announced) /\ nap' = Less(nap)
  /\ window' = [w \in Workers |-> Less(window[w])]
  /\ resume' = [w \in Workers |-> IF worker[w] = "backoff" THEN Less(resume[w])
                                                          ELSE resume[w]]
  /\ UNCHANGED <<rate, consecutive, earned, pacer, queued, ready, worker, retried, saw429>>

Pacer == Take \/ Token \/ GateShut \/ TimerFires \/ GateOpen \/ Release

Worker(w) ==
  \/ Start(w) \/ Arm(w) \/ Retry(w) \/ Penalize(w) \/ Praise(w)
  \/ FinishAlive(w) \/ FinishOther(w)
  \/ \E delay \in Delays :
       \/ FinishThrottled(w, delay)
       \/ \E is429 \in BOOLEAN : Throttle(w, delay, is429)

Next == Pacer \/ (\E w \in Workers : Worker(w)) \/ Tick

\* Goroutines run, requests end, and the clock goes on.
Spec == Init /\ [][Next]_vars /\ WF_vars(Pacer) /\ WF_vars(Tick)
             /\ \A w \in Workers : WF_vars(Worker(w))
-----------------------------------------------------------------------------
(* Properties.                                                             *)

\* The adaptive layer never stalls the host and never exceeds the configured rate,
\* also where the floor is above that rate (Penalize429, OnSuccess).
RateBounds == AtMost(PenaltyFloor, ConfigRate) <= rate /\ rate <= ConfigRate

\* No server can keep the host waiting for longer than maxCooldown at a time, and
\* nobody measures a longer wait for it.
CooldownCapped == cooldown <= MaxCooldown /\ nap <= MaxCooldown

\* Acquire returns inside no window that was armed before it looked, whichever
\* worker armed it and however often it was extended during the sleep.
GrantsRespectCooldowns == [][pacer' = "send" /\ pacer # "send" => announced = 0]_vars

\* After a 429, and after each step up, the rate goes up only on
\* SuccessesPerRecovery further successes.
RecoveryIsEarned == [][rate' > rate => earned + 1 >= SuccessesPerRecovery]_vars

\* A throttled host is served in the end: every queued URL is released to the
\* pool and checked.
AllServed ==
  <>(queued = 0 /\ ready = 0 /\ pacer = "idle" /\ \A w \in Workers : worker[w] = "idle")
=============================================================================
