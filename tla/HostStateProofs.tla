--------------------------- MODULE HostStateProofs ---------------------------
(***************************************************************************)
(* Proofs about HostState for any number of workers and jobs, any delays,  *)
(* any configured rate and any cap on the cooldown.                        *)
(***************************************************************************)
EXTENDS HostState, TLAPS

USE ConstantsAssumption DEF AtMost, AtLeast

\* The rates that are computed from the configuration.
LEMMA ConfigTypes == ConfigRate \in Nat \ {0} /\ Step \in Nat /\ PenaltyFloor \in Nat \ {0}
<1>1. ConfigRate \in Nat \ {0} BY DEF ConfigRate, AbsMinRPS
<1> HIDE DEF ConfigRate
<1>2. Step \in Nat BY <1>1 DEF Step
<1> QED BY <1>1, <1>2 DEF PenaltyFloor, PenaltyFloorRPS

\* Every variable keeps its type in every step.
LEMMA TypeStep == TypeOK /\ [Next]_vars => TypeOK'
<1> SUFFICES ASSUME TypeOK, [Next]_vars PROVE TypeOK'
    OBVIOUS
<1> USE ConfigTypes DEF TypeOK, hostVars, pacerVars, workerVars
<1>1. CASE Pacer
  <2>1. CASE Take BY <2>1 DEF Take
  <2>2. CASE Token \/ TimerFires \/ GateOpen BY <2>2 DEF Token, TimerFires, GateOpen, LookAgain
  <2>3. CASE GateShut BY <2>3 DEF GateShut
  <2>4. CASE Release BY <2>4 DEF Release
  <2> QED BY <1>1, <2>1, <2>2, <2>3, <2>4 DEF Pacer
<1>2. ASSUME NEW w \in Workers, Worker(w) PROVE TypeOK'
  <2>1. CASE Start(w) BY <2>1 DEF Start, Goto
  <2>2. CASE Arm(w) BY <2>2 DEF Arm, Goto, Extended
  <2>3. CASE Retry(w) \/ FinishAlive(w) \/ FinishOther(w)
    BY <2>3 DEF Retry, FinishAlive, FinishOther, Goto
  <2>4. CASE Penalize(w)
    <3>1. rate \div 2 \in Nat OBVIOUS
    <3>2. Cut \in Nat BY <3>1 DEF Cut
    <3> QED BY <2>4, <3>2 DEF Penalize, Goto, Extended, CountAgain
  <2>5. CASE Praise(w) BY <2>5 DEF Praise, Goto, Recovered
  <2>6. ASSUME NEW delay \in Delays, FinishThrottled(w, delay) PROVE TypeOK'
    BY <2>6 DEF FinishThrottled, Goto, Clamped
  <2>7. ASSUME NEW delay \in Delays, NEW is429 \in BOOLEAN, Throttle(w, delay, is429)
        PROVE  TypeOK'
    BY <2>7 DEF Throttle, Goto, Clamped, Charged
  <2> QED BY <1>2, <2>1, <2>2, <2>3, <2>4, <2>5, <2>6, <2>7 DEF Worker
<1>3. CASE Tick BY <1>3 DEF Tick, Less
<1>4. CASE UNCHANGED vars BY <1>4 DEF vars
<1> QED BY <1>1, <1>2, <1>3, <1>4 DEF Next

\* TypeOK holds of every behaviour.
THEOREM TypeCorrect == Spec => []TypeOK
<1>1. Init => TypeOK
  BY ConfigTypes DEF Init, TypeOK
<1> QED BY <1>1, TypeStep, PTL DEF Spec

-----------------------------------------------------------------------------
\* The inductive invariant: no window under way is longer than the cap, the gate is
\* as far as the longest window armed, and the code's count is no more than what
\* was earned.
Throttling ==
  /\ RateBounds /\ CooldownCapped
  /\ \A w \in Workers : window[w] <= MaxCooldown
  /\ announced = cooldown
  /\ consecutive <= earned

\* A cut and a step up stay within the bounds of the rate.
LEMMA CutBounds ==
  ASSUME TypeOK
  PROVE  AtMost(PenaltyFloor, ConfigRate) <= Cut /\ Cut <= ConfigRate
<1>1. rate \div 2 \in Nat BY DEF TypeOK
<1> QED BY <1>1, ConfigTypes DEF Cut

\* Every step keeps the invariant.
LEMMA ThrottlingStep == TypeOK /\ Throttling /\ [Next]_vars => Throttling'
<1> SUFFICES ASSUME TypeOK, Throttling, [Next]_vars PROVE Throttling'
    OBVIOUS
<1> USE ConfigTypes DEF Throttling, RateBounds, CooldownCapped, TypeOK, hostVars, pacerVars,
      workerVars
<1>1. CASE Pacer
  BY <1>1 DEF Pacer, Take, Token, TimerFires, GateOpen, GateShut, Release
<1>2. ASSUME NEW w \in Workers, Worker(w) PROVE Throttling'
  <2>1. CASE Start(w) BY <2>1 DEF Start, Goto
  <2>2. CASE Arm(w) BY <2>2 DEF Arm, Goto, Extended
  <2>3. CASE Retry(w) \/ FinishAlive(w) \/ FinishOther(w)
    BY <2>3 DEF Retry, FinishAlive, FinishOther, Goto
  <2>4. CASE Penalize(w)
    BY <2>4, CutBounds DEF Penalize, Goto, Extended, CountAgain
  <2>5. CASE Praise(w) BY <2>5 DEF Praise, Goto, Recovered
  <2>6. ASSUME NEW delay \in Delays, FinishThrottled(w, delay) PROVE Throttling'
    BY <2>6 DEF FinishThrottled, Goto, Clamped
  <2>7. ASSUME NEW delay \in Delays, NEW is429 \in BOOLEAN, Throttle(w, delay, is429)
        PROVE  Throttling'
    BY <2>7 DEF Throttle, Goto, Clamped, Charged
  <2> QED BY <1>2, <2>1, <2>2, <2>3, <2>4, <2>5, <2>6, <2>7 DEF Worker
<1>3. CASE Tick BY <1>3 DEF Tick, Less
<1>4. CASE UNCHANGED vars BY <1>4 DEF vars
<1> QED BY <1>1, <1>2, <1>3, <1>4 DEF Next

THEOREM ThrottlingHolds == Spec => []Throttling
<1>1. Init => Throttling
  BY ConfigTypes DEF Init, Throttling, RateBounds, CooldownCapped
<1> QED BY <1>1, TypeCorrect, ThrottlingStep, PTL DEF Spec

\* The rate of a host never leaves its bounds, whatever the order of 429s and
\* successes.
THEOREM RateStaysInBounds == Spec => []RateBounds
BY ThrottlingHolds, PTL DEF Throttling

\* No Retry-After stops a host for longer than maxCooldown.
THEOREM CooldownsAreCapped == Spec => []CooldownCapped
BY ThrottlingHolds, PTL DEF Throttling

\* Acquire returns only when every window armed before it looked is over.
THEOREM GatesAreRespected == Spec => GrantsRespectCooldowns
<1>1. TypeOK /\ Throttling /\ [Next]_vars
        => [pacer' = "send" /\ pacer # "send" => announced = 0]_vars
  <2> SUFFICES ASSUME TypeOK, Throttling, Next, pacer' = "send", pacer # "send"
               PROVE  announced = 0
      OBVIOUS
  <2>1. CASE Pacer
    BY <2>1 DEF Pacer, Take, Token, TimerFires, GateOpen, GateShut, Release, LookAgain,
       Throttling
  <2>2. ASSUME NEW w \in Workers, Worker(w) PROVE announced = 0
    BY <2>2 DEF Worker, Start, Arm, Retry, FinishAlive, FinishOther, Penalize, Praise,
       FinishThrottled, Throttle, pacerVars
  <2>3. CASE Tick BY <2>3 DEF Tick
  <2> QED BY <2>1, <2>2, <2>3 DEF Next
<1> QED BY <1>1, TypeCorrect, ThrottlingHolds, PTL DEF Spec, GrantsRespectCooldowns

\* A host's rate goes up only after SuccessesPerRecovery successes without a 429.
THEOREM RecoveryTakesSuccesses == Spec => RecoveryIsEarned
<1>1. TypeOK /\ Throttling /\ [Next]_vars
        => [rate' > rate => earned + 1 >= SuccessesPerRecovery]_vars
  <2> SUFFICES ASSUME TypeOK, Throttling, Next, rate' > rate
               PROVE  earned + 1 >= SuccessesPerRecovery
      OBVIOUS
  <2> USE DEF TypeOK, Throttling
  <2>1. CASE Pacer
    BY <2>1 DEF Pacer, Take, Token, TimerFires, GateOpen, GateShut, Release, hostVars
  <2>2. ASSUME NEW w \in Workers, Worker(w) PROVE earned + 1 >= SuccessesPerRecovery
    <3>1. CASE Penalize(w)
      <4>1. rate' <= rate
        <5>1. rate \div 2 \in Nat /\ rate \div 2 <= rate OBVIOUS
        <5> QED BY <3>1, <5>1, ConfigTypes DEF Penalize, Cut, RateBounds
      <4>2. rate \in Int /\ rate' \in Int
        <5>1. rate \div 2 \in Nat OBVIOUS
        <5> QED BY <3>1, <5>1, ConfigTypes DEF Penalize, Cut
      <4> QED BY <4>1, <4>2
    <3>2. CASE Praise(w) BY <3>2 DEF Praise, Recovered
    <3>3. CASE ~Penalize(w) /\ ~Praise(w)
      BY <2>2, <3>3 DEF Worker, Start, Arm, Retry, FinishAlive, FinishOther,
         FinishThrottled, Throttle, hostVars
    <3> QED BY <3>1, <3>2, <3>3
  <2>3. CASE Tick BY <2>3 DEF Tick
  <2> QED BY <2>1, <2>2, <2>3 DEF Next
<1> QED BY <1>1, TypeCorrect, ThrottlingHolds, PTL DEF Spec, RecoveryIsEarned
=============================================================================
