--------------------------- MODULE ProgressProofs ---------------------------
(***************************************************************************)
(* Proofs about Progress for any number of checks, hosts and ticks, and    *)
(* with or without a live display.                                         *)
(***************************************************************************)
EXTENDS Progress, FiniteSetTheorems, TLAPS

USE ConstantsAssumption

\* The jobs that are counted and not completed.
Counted == {j \in Jobs : job[j] \notin {"none", "checked", "reported"}}

\* GaugesAgree, with the types that its sums rest on.
Gauges ==
  /\ job \in [Jobs -> Stage]
  /\ enqueued \in Nat /\ netDone \in Nat
  /\ hostInflight \in [Hosts -> Nat]
  /\ \A h \in Hosts : hostInflight[h] = Cardinality(InFlight(h))
  /\ enqueued - netDone = Cardinality(Counted)
  /\ active = {j \in Jobs : job[j] = "checking"}

-----------------------------------------------------------------------------
\* The backlogs of all hosts are the backlog.
LEMMA CountedByHost == Counted = UNION {InFlight(h) : h \in Hosts}
BY DEF Counted, InFlight

LEMMA Finite ==
  /\ IsFiniteSet(Counted) /\ Cardinality(Counted) \in Nat
  /\ \A h : IsFiniteSet(InFlight(h)) /\ Cardinality(InFlight(h)) \in Nat
<1>1. Counted \subseteq Jobs /\ \A h : InFlight(h) \subseteq Jobs BY DEF Counted, InFlight
<1> QED BY <1>1, FS_Subset, FS_CardinalityType

\* A new job in a set of jobs, and one that leaves it.
LEMMA OneMore ==
  ASSUME NEW S, IsFiniteSet(S), NEW x, x \notin S
  PROVE  Cardinality(S \cup {x}) = Cardinality(S) + 1
BY FS_AddElement

LEMMA OneFewer ==
  ASSUME NEW S, IsFiniteSet(S), NEW x \in S
  PROVE  Cardinality(S \ {x}) = Cardinality(S) - 1
BY FS_RemoveElement

-----------------------------------------------------------------------------
\* Steps that move a job between two stages in which it is counted.
LEMMA CountedSame ==
  ASSUME Gauges, NEW j \in Jobs, NEW s \in Stage,
         job[j] \notin {"none", "checked", "reported"}, s \notin {"none", "checked", "reported"},
         job' = [job EXCEPT ![j] = s]
  PROVE  Counted' = Counted /\ \A h : InFlight(h)' = InFlight(h)
BY DEF Gauges, Counted, InFlight

\* Every step keeps the gauges.
LEMMA GaugesStep == Gauges /\ [Next]_vars => Gauges'
<1> SUFFICES ASSUME Gauges, [Next]_vars PROVE Gauges'
    OBVIOUS
<1>a. IsFiniteSet(Counted) /\ \A h : IsFiniteSet(InFlight(h)) BY Finite
<1>1. ASSUME NEW j \in Jobs, NetEnqueue(j) PROVE Gauges'
  <2>1. Counted' = Counted \cup {j} /\ j \notin Counted
    BY <1>1 DEF NetEnqueue, Gauges, Counted
  <2>2. InFlight(HostOf[j])' = InFlight(HostOf[j]) \cup {j} /\ j \notin InFlight(HostOf[j])
    BY <1>1 DEF NetEnqueue, Gauges, InFlight
  <2>3. \A h : h # HostOf[j] => InFlight(h)' = InFlight(h)
    BY <1>1 DEF NetEnqueue, Gauges, InFlight
  <2>4. Cardinality(Counted') = Cardinality(Counted) + 1 BY <1>a, <2>1, OneMore
  <2>5. Cardinality(InFlight(HostOf[j])') = Cardinality(InFlight(HostOf[j])) + 1
    BY <1>a, <2>2, OneMore
  <2>6. \A h \in Hosts : hostInflight'[h] = Cardinality(InFlight(h)')
    BY <1>1, <2>3, <2>5 DEF NetEnqueue, Gauges
  <2>7. active' = {i \in Jobs : job'[i] = "checking"} BY <1>1 DEF NetEnqueue, Gauges
  <2>8. enqueued' - netDone' = Cardinality(Counted') BY <1>1, <2>4, Finite DEF NetEnqueue, Gauges
  <2>9. job' \in [Jobs -> Stage] /\ enqueued' \in Nat /\ netDone' \in Nat
        /\ hostInflight' \in [Hosts -> Nat]
    BY <1>1 DEF NetEnqueue, Gauges, Stage
  <2> QED BY <2>6, <2>7, <2>8, <2>9 DEF Gauges
<1>2. ASSUME NEW j \in Jobs, Send(j) \/ Drop(j) PROVE Gauges'
  <2>1. Counted' = Counted /\ \A h : InFlight(h)' = InFlight(h)
    BY <1>2, CountedSame DEF Send, Drop, Stage
  <2>2. active' = {i \in Jobs : job'[i] = "checking"} BY <1>2 DEF Send, Drop, Gauges, gauges
  <2> QED BY <1>2, <2>1, <2>2 DEF Send, Drop, Gauges, gauges, Stage
<1>3. ASSUME NEW j \in Jobs, NetStart(j) PROVE Gauges'
  <2>1. Counted' = Counted /\ \A h : InFlight(h)' = InFlight(h)
    BY <1>3, CountedSame DEF NetStart, Stage
  <2>2. active' = {i \in Jobs : job'[i] = "checking"} BY <1>3 DEF NetStart, Gauges
  <2> QED BY <1>3, <2>1, <2>2 DEF NetStart, Gauges, Stage
<1>4. ASSUME NEW j \in Jobs, NetComplete(j) PROVE Gauges'
  <2>1. Counted' = Counted \ {j} /\ j \in Counted
    BY <1>4 DEF NetComplete, Gauges, Counted
  <2>2. InFlight(HostOf[j])' = InFlight(HostOf[j]) \ {j} /\ j \in InFlight(HostOf[j])
    BY <1>4 DEF NetComplete, Gauges, InFlight
  <2>3. \A h : h # HostOf[j] => InFlight(h)' = InFlight(h)
    BY <1>4 DEF NetComplete, Gauges, InFlight
  <2>4. Cardinality(Counted') = Cardinality(Counted) - 1 BY <1>a, <2>1, OneFewer
  <2>5. Cardinality(InFlight(HostOf[j])') = Cardinality(InFlight(HostOf[j])) - 1
    BY <1>a, <2>2, OneFewer
  <2>6. Cardinality(InFlight(HostOf[j])') \in Nat
    <3>1. InFlight(HostOf[j])' \subseteq Jobs BY DEF InFlight
    <3> QED BY <3>1, FS_Subset, FS_CardinalityType
  <2>7. OneLess(HostOf[j]) = hostInflight[HostOf[j]] - 1
    BY <2>5, <2>6, Finite DEF OneLess, Gauges
  <2>8. \A h \in Hosts : hostInflight'[h] = Cardinality(InFlight(h)')
    BY <1>4, <2>3, <2>5, <2>7 DEF NetComplete, Gauges
  <2>9. active' = {i \in Jobs : job'[i] = "checking"} BY <1>4 DEF NetComplete, Gauges
  <2>10. enqueued' - netDone' = Cardinality(Counted')
    BY <1>4, <2>4, Finite DEF NetComplete, Gauges
  <2>11. hostInflight' \in [Hosts -> Nat]
    BY <1>4, <2>5, <2>6, <2>7 DEF NetComplete, Gauges
  <2>12. job' \in [Jobs -> Stage] /\ enqueued' \in Nat /\ netDone' \in Nat
    BY <1>4 DEF NetComplete, Gauges, Stage
  <2> QED BY <2>8, <2>9, <2>10, <2>11, <2>12 DEF Gauges
<1>5. ASSUME NEW j \in Jobs, Add(j) PROVE Gauges'
  <2>1. Counted' = Counted /\ \A h : InFlight(h)' = InFlight(h)
    BY <1>5 DEF Add, Gauges, Counted, InFlight
  <2>2. active' = {i \in Jobs : job'[i] = "checking"} BY <1>5 DEF Add, Gauges, gauges
  <2> QED BY <1>5, <2>1, <2>2 DEF Add, Gauges, gauges, Stage
<1>6. CASE UNCHANGED <<job, gauges>>
  BY <1>6 DEF Gauges, gauges, Counted, InFlight
<1> QED BY <1>1, <1>2, <1>3, <1>4, <1>5, <1>6 DEF Next, Work, Ticker, Finish, vars, TickFires, Tick,
      TickerStops, tickFrame, FinishCopies, StopProgress, Render, finishFrame

\* The strengthened gauges hold of every run.
THEOREM GaugesHold == Spec => []Gauges
<1>1. Init => Gauges
  <2> SUFFICES ASSUME Init PROVE Gauges
      OBVIOUS
  <2>1. Counted = {} /\ \A h : InFlight(h) = {} BY DEF Init, Counted, InFlight
  <2>2. Cardinality(Counted) = 0 /\ \A h : Cardinality(InFlight(h)) = 0 BY <2>1, FS_EmptySet
  <2> QED BY <2>2 DEF Init, Gauges, Stage
<1> QED BY <1>1, GaugesStep, PTL DEF Spec

\* No heartbeat ever sees a backlog that nothing waits for.
THEOREM GaugesAreTrue == Spec => []GaugesAgree
<1>1. Gauges => GaugesAgree BY CountedByHost DEF Gauges, GaugesAgree
<1> QED BY <1>1, GaugesHold, PTL

-----------------------------------------------------------------------------
\* The remaining variables keep their types; the display shows no negative backlog.
LEMMA TypeStep == TypeOK /\ Gauges /\ Gauges' /\ [Next]_vars => TypeOK'
<1> SUFFICES ASSUME TypeOK, Gauges, Gauges', [Next]_vars PROVE TypeOK'
    OBVIOUS
<1>a. enqueued - netDone \in Nat BY Finite DEF Gauges
<1>b. ASSUME NEW writer \in {"progress"}, Show(writer)
      PROVE  shown' \in [inflight : Nat, active : SUBSET Jobs, backlog : [Hosts -> Nat]]
             /\ written' \in {"nothing", "progress", "report"}
  BY <1>a, <1>b DEF Show, TypeOK
<1>c. active' \subseteq Jobs BY DEF Gauges
<1>1. ASSUME NEW j \in Jobs, Add(j) PROVE TypeOK'
  <2>1. CASE LiveOn BY <1>1, <1>b, <1>c, <2>1 DEF Add, TypeOK, Gauges, progressFrame
  <2>2. CASE ~LiveOn BY <1>1, <1>c, <2>2 DEF Add, TypeOK, Gauges, progressFrame
  <2> QED BY <2>1, <2>2
<1>2. ASSUME NEW j \in Jobs,
             NetEnqueue(j) \/ Send(j) \/ Drop(j) \/ NetStart(j) \/ NetComplete(j)
      PROVE  TypeOK'
  BY <1>2, <1>c DEF NetEnqueue, Send, Drop, NetStart, NetComplete, TypeOK, Gauges, progressFrame
<1>3. CASE Tick BY <1>3, <1>b, <1>c DEF Tick, TypeOK, Gauges, tickFrame
<1>4. CASE TickFires BY <1>4, <1>c DEF TickFires, TypeOK, Gauges, tickFrame
<1>5. CASE TickerStops BY <1>5, <1>c DEF TickerStops, TypeOK, Gauges, tickFrame
<1>6. CASE Finish
  BY <1>6, <1>c DEF Finish, FinishCopies, StopProgress, Closed, Render, TypeOK, Gauges, finishFrame
<1>7. CASE UNCHANGED vars BY <1>7, <1>c DEF vars, TypeOK, Gauges
<1> QED BY <1>1, <1>2, <1>3, <1>4, <1>5, <1>6, <1>7 DEF Next, Work, Ticker

\* Every variable of the collector keeps its type.
THEOREM TypeCorrect == Spec => []TypeOK
<1>1. Init => TypeOK
  <2> SUFFICES ASSUME Init PROVE TypeOK
      OBVIOUS
  <2>1. hostInflight \in [Hosts -> Nat] BY DEF Init
  <2>2. shown \in [inflight : Nat, active : SUBSET Jobs, backlog : [Hosts -> Nat]]
    BY <2>1 DEF Init
  <2>3. job \in [Jobs -> Stage] BY DEF Init, Stage
  <2>4. ticker \in {"select", "tick", "gone"} BY DEF Init
  <2>5. /\ enqueued \in Nat /\ netDone \in Nat /\ active \subseteq Jobs
        /\ results \subseteq Jobs /\ stopTick \in BOOLEAN
    BY DEF Init
  <2>6. ticks \in 0..MaxTicks BY DEF Init
  <2>7. /\ finish \in {"before", "copied", "stopping", "rendered"}
        /\ written \in {"nothing", "progress", "report"}
    BY DEF Init
  <2> QED BY <2>1, <2>2, <2>3, <2>4, <2>5, <2>6, <2>7 DEF TypeOK
<1> QED BY <1>1, TypeStep, GaugesHold, PTL DEF Spec

-----------------------------------------------------------------------------
\* The report is written by a Finish that has seen the ticker gone.
Quiet ==
  /\ written = "report" => finish = "rendered"
  /\ finish = "rendered" => ticker = "gone"

\* No heartbeat follows the report.
THEOREM ReportStaysLast == Spec => ReportIsLast
<1>1. Init => Quiet BY DEF Init, Quiet
<1>2. Quiet /\ [Next]_vars => Quiet'
  BY DEF Quiet, Next, Work, Ticker, Finish, vars, NetEnqueue, Send, Drop, NetStart, NetComplete, Add,
         Show, TickFires, Tick, TickerStops, FinishCopies, StopProgress, Render, TickDone,
         progressFrame, tickFrame, finishFrame
<1>3. Quiet /\ [Next]_vars => [written = "report" => written' = "report"]_vars
  BY DEF Quiet, Next, Work, Ticker, Finish, vars, NetEnqueue, Send, Drop, NetStart, NetComplete, Add,
         Show, TickFires, Tick, TickerStops, FinishCopies, StopProgress, Render, TickDone,
         progressFrame, tickFrame, finishFrame
<1> QED BY <1>1, <1>2, <1>3, PTL DEF Spec, ReportIsLast
=============================================================================
