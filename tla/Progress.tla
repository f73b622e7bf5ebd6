------------------------------ MODULE Progress ------------------------------
(***************************************************************************)
(* The report.Collector while a run is under way: the gauges of network    *)
(* checks that parse workers and executors update, the ticker goroutine of *)
(* StartProgress, and Finish, which has to stop that goroutine before it   *)
(* renders.  Each critical section of Collector.mu is one action.          *)
(***************************************************************************)
EXTENDS Integers, FiniteSets

CONSTANTS
  Jobs,      \* network checks: one per URL
  Hosts,
  HostOf,    \* the host of a job
  LiveOn,    \* is there a ProgressOut, no --quiet and no machine format?
  MaxTicks   \* bound: ticks of the 10s ticker in a run

ASSUME ConstantsAssumption ==
  /\ IsFiniteSet(Jobs) /\ IsFiniteSet(Hosts)
  /\ HostOf \in [Jobs -> Hosts]
  /\ LiveOn \in BOOLEAN
  /\ MaxTicks \in Nat

VARIABLES
  job,           \* where each check is
  enqueued, netDone, active, hostInflight,   \* the Collector's gauges
  shown,         \* liveProgress: what the last updateGauges took over
  results,       \* jobs whose result was added
  ticker,        \* the goroutine of StartProgress
  ticks,         \* ticks that fired
  stopTick,      \* is the stopTick channel closed?
  finish,        \* where Finish is
  written        \* history: what was written last

gauges == <<enqueued, netDone, active, hostInflight>>
vars == <<job, gauges, shown, results, ticker, ticks, stopTick, finish, written>>

Stage == {"none", "counted", "sent", "dropped", "checking", "checked", "reported"}

TypeOK ==
  /\ job \in [Jobs -> Stage]
  /\ enqueued \in Nat /\ netDone \in Nat
  /\ active \subseteq Jobs
  /\ hostInflight \in [Hosts -> Nat]
  /\ shown \in [inflight : Nat, active : SUBSET Jobs, backlog : [Hosts -> Nat]]
  /\ results \subseteq Jobs
  /\ ticker \in {"select", "tick", "gone"}
  /\ ticks \in 0..MaxTicks
  /\ stopTick \in BOOLEAN
  /\ finish \in {"before", "copied", "stopping", "rendered"}
  /\ written \in {"nothing", "progress", "report"}

\* engine.Run has called StartProgress.
Init ==
  /\ job = [j \in Jobs |-> "none"]
  /\ enqueued = 0 /\ netDone = 0 /\ active = {}
  /\ hostInflight = [h \in Hosts |-> 0]
  /\ shown = [inflight |-> 0, active |-> {}, backlog |-> hostInflight]
  /\ results = {}
  /\ ticker = IF LiveOn THEN "select" ELSE "gone"
  /\ ticks = 0 /\ stopTick = FALSE /\ finish = "before" /\ written = "nothing"

-----------------------------------------------------------------------------
(* Parse workers and executors.                                            *)

progressFrame == <<ticker, ticks, stopTick, finish>>

\* updateGauges, then a heartbeat or a streamed line.  Its mutant counts backwards.
ShowBackwards(writer) ==
  /\ shown' = [inflight |-> netDone - enqueued, active |-> active, backlog |-> hostInflight]
  /\ written' = writer
Show(writer) ==
  /\ shown' = [inflight |-> enqueued - netDone, active |-> active, backlog |-> hostInflight]
  /\ written' = writer

NetEnqueue(j) ==
  /\ job[j] = "none"
  /\ enqueued' = enqueued + 1
  /\ hostInflight' = [hostInflight EXCEPT ![HostOf[j]] = @ + 1]
  /\ job' = [job EXCEPT ![j] = "counted"]
  /\ UNCHANGED <<netDone, active, shown, results, written, progressFrame>>

Send(j) ==
  /\ job[j] = "counted"
  /\ job' = [job EXCEPT ![j] = "sent"]
  /\ UNCHANGED <<gauges, shown, results, written, progressFrame>>

\* The run is cancelled: the job gets no further, here or in a pacer.
Drop(j) ==
  /\ job[j] \in {"counted", "sent"}
  /\ job' = [job EXCEPT ![j] = "dropped"]
  /\ UNCHANGED <<gauges, shown, results, written, progressFrame>>

NetStart(j) ==
  /\ job[j] = "sent"
  /\ active' = active \cup {j}
  /\ job' = [job EXCEPT ![j] = "checking"]
  /\ UNCHANGED <<enqueued, netDone, hostInflight, shown, results, written, progressFrame>>

\* An entry that falls to zero is deleted from the map.  Its mutant deletes it
\* whatever is left.
Forgotten(h) == 0
OneLess(h) == IF hostInflight[h] - 1 <= 0 THEN 0 ELSE hostInflight[h] - 1

NetComplete(j) ==
  /\ job[j] = "checking"
  /\ netDone' = netDone + 1
  /\ active' = active \ {j}
  /\ hostInflight' = [hostInflight EXCEPT ![HostOf[j]] = OneLess(HostOf[j])]
  /\ job' = [job EXCEPT ![j] = "checked"]
  /\ UNCHANGED <<enqueued, shown, results, written, progressFrame>>

Add(j) ==
  /\ job[j] = "checked"
  /\ results' = results \cup {j}
  /\ IF LiveOn THEN Show("progress") ELSE UNCHANGED <<shown, written>>
  /\ job' = [job EXCEPT ![j] = "reported"]
  /\ UNCHANGED <<gauges, progressFrame>>

-----------------------------------------------------------------------------
(* The ticker goroutine: select, lock, update, write, unlock.              *)

tickFrame == <<job, gauges, results, stopTick, finish>>

TickFires ==
  /\ ticker = "select" /\ ticks < MaxTicks
  /\ ticks' = ticks + 1
  /\ ticker' = "tick"
  /\ UNCHANGED <<shown, written, tickFrame>>

Tick ==
  /\ ticker = "tick"
  /\ Show("progress")
  /\ ticker' = "select"
  /\ UNCHANGED <<ticks, tickFrame>>

\* If a tick is there as well, select takes either.
TickerStops ==
  /\ ticker = "select" /\ stopTick
  /\ ticker' = "gone"
  /\ UNCHANGED <<ticks, shown, written, tickFrame>>

-----------------------------------------------------------------------------
(* Finish, when the pipeline has returned.                                 *)

finishFrame == <<job, gauges, shown, results, ticker, ticks>>

Over == \A j \in Jobs : job[j] \in {"none", "dropped", "reported"}

FinishCopies ==
  /\ finish = "before" /\ Over
  /\ finish' = "copied"
  /\ UNCHANGED <<stopTick, written, finishFrame>>

\* close(c.stopTick).  Its mutant forgets it.
NotClosed == stopTick
Closed == LiveOn

StopProgress ==
  /\ finish = "copied"
  /\ stopTick' = Closed
  /\ finish' = "stopping"
  /\ UNCHANGED <<written, finishFrame>>

\* <-c.tickDone.  Its mutant does not wait.
Asked == stopTick \/ ~LiveOn
TickDone == ticker = "gone"

Render ==
  /\ finish = "stopping" /\ TickDone
  /\ written' = "report"
  /\ finish' = "rendered"
  /\ UNCHANGED <<stopTick, finishFrame>>

-----------------------------------------------------------------------------
Work ==
  \E j \in Jobs :
    /\ finish = "before"
    /\ \/ NetEnqueue(j) \/ Send(j) \/ Drop(j) \/ NetStart(j) \/ NetComplete(j) \/ Add(j)

Ticker == TickFires \/ Tick \/ TickerStops
Finish == FinishCopies \/ StopProgress \/ Render
Next == Work \/ Ticker \/ Finish

\* Goroutines run.  select may prefer the ticker, but its ticks are 10s apart.
Spec == Init /\ [][Next]_vars /\ WF_vars(Work) /\ WF_vars(Ticker) /\ WF_vars(Finish)
-----------------------------------------------------------------------------
(* Properties.                                                             *)

\* Checks counted and not completed; a dropped one stays counted.
InFlight(h) == {j \in Jobs : HostOf[j] = h /\ job[j] \notin {"none", "checked", "reported"}}

\* The backlog per host, its total and the active checks agree with where the checks
\* are, in every state a heartbeat may see (a phantom backlog would name a host
\* that nothing waits for).
GaugesAgree ==
  /\ \A h \in Hosts : hostInflight[h] = Cardinality(InFlight(h))
  /\ enqueued - netDone = Cardinality(UNION {InFlight(h) : h \in Hosts})
  /\ active = {j \in Jobs : job[j] = "checking"}

\* Once the report is rendered, no heartbeat is written into it.
ReportIsLast == [][written = "report" => written' = "report"]_vars

\* Finish returns: it is not left waiting for the ticker.
FinishReturns == <>(finish = "rendered")
=============================================================================
