---------------------------- MODULE PipelineProofs ----------------------------
(***************************************************************************)
(* Proofs about Pipeline for every value of its constants.                 *)
(***************************************************************************)
EXTENDS PipelineInv, TLAPS

USE ConstantsAssumption DEF Network

\* Every variable keeps its type in every step.
LEMMA TypeStep == TypeOK /\ [Next]_vars => TypeOK'
<1> SUFFICES ASSUME TypeOK, [Next]_vars PROVE TypeOK'
    OBVIOUS
<1> USE DEF TypeOK, Definitive, Verdict, Outcome
<1>1. CASE CrawlNext \/ Environment
  <2> USE <1>1 DEF crawlFrame, engineFrame, parseFrame, crawlVars, dedupVars, pacerVars,
        reportVars, ctxVars, engineVars, SrcStage
  <2>1. ASSUME NEW s \in Sources, CrawlSend(s) PROVE TypeOK'
    BY <2>1 DEF CrawlSend
  <2>2. CASE CrawlReturn BY <2>2 DEF CrawlReturn
  <2>3. CASE CrawlCancelled BY <2>3 DEF CrawlCancelled
  <2>4. CASE GroupFail BY <2>4 DEF GroupFail
  <2>5. CASE Cancel BY <2>5 DEF Cancel
  <2>6. CASE CrawlFail BY <2>6 DEF CrawlFail
  <2>7. ASSUME NEW s \in Sources, ReadFail(s) PROVE TypeOK'
    BY <2>7 DEF ReadFail
  <2> QED BY <2>1, <2>2, <2>3, <2>4, <2>5, <2>6, <2>7 DEF CrawlNext, Environment
<1>2. CASE ParseNext
  <2> USE <1>2 DEF parseFrame, crawlVars, dedupVars, pacerVars,
        reportVars, ctxVars, engineVars
  <2>1. ASSUME NEW s \in Sources, TakeSource(s) \/ StartParse(s) \/ ParseReturn(s)
        PROVE  TypeOK'
    BY <2>1 DEF TakeSource, StartParse, ParseReturn, SrcStage
  <2>2. ASSUME NEW o \in Links, NEW v \in Outcome, HandleOffline(o, v) PROVE TypeOK'
    BY <2>2 DEF HandleOffline, Add, LinkStage
  <2>3. ASSUME NEW o \in Network, AddCacheHit(o) PROVE TypeOK'
    BY <2>3 DEF AddCacheHit, Add, LinkStage
  <2>4. ASSUME NEW o \in Network, AddMiss(o) PROVE TypeOK'
    BY <2>4 DEF AddMiss, LinkStage
  <2>5. ASSUME NEW o \in Network, AddLookup(o) PROVE TypeOK'
    BY <2>5 DEF AddLookup, LinkStage
  <2>6. ASSUME NEW o \in Network, AddDone(o) PROVE TypeOK'
    BY <2>6 DEF AddDone, Add, LateVerdict, LinkStage
  <2>7. ASSUME NEW o \in Network, AddPending(o) PROVE TypeOK'
    BY <2>7 DEF AddPending, LinkStage
  <2>8. ASSUME NEW o \in Network, SendJob(o) PROVE TypeOK'
    BY <2>8 DEF SendJob, LinkStage, JobStage
  <2>9. ASSUME NEW o \in Network, DropJob(o) PROVE TypeOK'
    BY <2>9 DEF DropJob, LinkStage, JobStage
  <2>10. CASE CloseJobs BY <2>10 DEF CloseJobs
  <2> QED BY <2>1, <2>2, <2>3, <2>4, <2>5, <2>6, <2>7, <2>8, <2>9, <2>10 DEF ParseNext
<1>3. CASE DispatchNext \/ PacerNext
  <2> USE <1>3 DEF pacerFrame, crawlVars, dedupVars, pacerVars,
        reportVars, ctxVars, engineVars, JobStage, PacerStage, Woken
  <2>1. ASSUME NEW j \in Network, Dispatch(j) PROVE TypeOK'
    BY <2>1 DEF Dispatch
  <2>2. CASE DispatcherDrained \/ CloseReady BY <2>2 DEF DispatcherDrained, CloseReady
  <2>3. ASSUME NEW h \in Hosts PROVE /\ ClosePacer(h) => TypeOK'
                                     /\ PacerPark(h) => TypeOK'
                                     /\ PacerWait(h) => TypeOK'
                                     /\ CancelWakes(h) => TypeOK'
                                     /\ PacerExit(h) => TypeOK'
                                     /\ AcquireOK(h) => TypeOK'
    <3>1. ASSUME ClosePacer(h) PROVE TypeOK' BY <3>1 DEF ClosePacer
    <3>2. ASSUME PacerPark(h) PROVE TypeOK' BY <3>2 DEF PacerPark
    <3>3. ASSUME PacerWait(h) PROVE TypeOK' BY <3>3 DEF PacerWait
    <3>4. ASSUME CancelWakes(h) PROVE TypeOK' BY <3>4 DEF CancelWakes
    <3>5. ASSUME PacerExit(h) PROVE TypeOK' BY <3>5 DEF PacerExit
    <3>6. ASSUME AcquireOK(h) PROVE TypeOK' BY <3>6 DEF AcquireOK
    <3> QED BY <3>1, <3>2, <3>3, <3>4, <3>5, <3>6
  <2>4. ASSUME NEW h \in Hosts, NEW j \in Network
        PROVE  (PacerTake(h, j) => TypeOK') /\ (PacerSend(h, j) => TypeOK')
    <3>1. ASSUME PacerTake(h, j) PROVE TypeOK' BY <3>1 DEF PacerTake
    <3>2. ASSUME PacerSend(h, j) PROVE TypeOK' BY <3>2 DEF PacerSend
    <3> QED BY <3>1, <3>2
  <2>5. ASSUME NEW h \in Hosts, NEW j \in Network, PacerAbandon(h, j) PROVE TypeOK'
    BY <2>5 DEF PacerAbandon
  <2> QED BY <2>1, <2>2, <2>3, <2>4, <2>5 DEF DispatchNext, PacerNext,
        AcquireCancelled, AcquireWouldExceedDeadline, PacerSendCancelled
<1>4. CASE ExecuteNext
  <2> USE <1>4 DEF executeFrame, crawlVars, dedupVars, pacerVars,
        reportVars, ctxVars, engineVars, JobStage
  <2>1. ASSUME NEW j \in Network, Receive(j) \/ StartExecute(j) \/ ExecuteReturn(j)
        PROVE  TypeOK'
    BY <2>1 DEF Receive, StartExecute, ExecuteReturn
  <2>2. ASSUME NEW j \in Network, NEW v \in Answers, Execute(j, v) PROVE TypeOK'
    BY <2>2, SMTT(30) DEF Execute, Cacheable
  <2>3. ASSUME NEW j \in Network, NEW o \in Links, FanOut(j, o) PROVE TypeOK'
    BY <2>3 DEF FanOut, Add
  <2> QED BY <2>1, <2>2, <2>3 DEF ExecuteNext
<1>5. CASE EngineNext
  <2> USE <1>5 DEF engineFrame, crawlVars, dedupVars, pacerVars, reportVars, ctxVars,
        engineVars
  <2>1. CASE RunReturn BY <2>1 DEF RunReturn
  <2>2. ASSUME NEW ok \in BOOLEAN, Save(ok) PROVE TypeOK'
    BY <2>2 DEF Save
  <2>3. CASE Finish BY <2>3 DEF Finish, ExitCode
  <2>4. CASE Judge BY <2>4 DEF Judge
  <2> QED BY <2>1, <2>2, <2>3, <2>4 DEF EngineNext
<1>6. CASE UNCHANGED vars
  BY <1>6 DEF vars, crawlVars, dedupVars, pacerVars, reportVars, ctxVars, engineVars
<1> QED BY <1>1, <1>2, <1>3, <1>4, <1>5, <1>6 DEF Next, System

LEMMA TypeInit == Init => TypeOK
<1> SUFFICES ASSUME Init PROVE TypeOK
    OBVIOUS
<1> USE DEF Init, Definitive, Verdict, Outcome
<1>1. /\ srcAt \in [Sources -> SrcStage] /\ linkAt \in [Links -> LinkStage]
      /\ jobAt \in [Network -> JobStage] /\ pacer \in [Hosts -> PacerStage]
  BY DEF SrcStage, LinkStage, JobStage, PacerStage
<1>2. /\ urlState \in [Keys -> {"absent", "pending", "done"}]
      /\ occs \in [Keys -> SUBSET Network] /\ result \in [Keys -> Verdict \cup {None}]
      /\ fanout \in [Network -> SUBSET Network]
  OBVIOUS
<1> QED BY <1>1, <1>2 DEF TypeOK

\* The variables of Pipeline have their types.
THEOREM TypeCorrect == Spec => []TypeOK
  BY TypeInit, TypeStep, PTL DEF Spec

-----------------------------------------------------------------------------
(* The ledger of links, URLs and jobs.                                     *)

ledgerVars == <<linkAt, urlState, occs, result, jobAt, fanout, emitted, outcome>>

LEMMA LedgerQuiet == Ledger /\ UNCHANGED ledgerVars => Ledger'
  BY DEF Ledger, ledgerVars, HasJob, Completed, ResultIffDone, JobOfURL, OccsUnreported,
     FanoutUnreported, UnregisteredUnreported, ReportIsResult, AtMostOnce

\* A job's way from jobsCh to its check, or to being dropped, is no concern of the ledger.
Waiting == JobStage \ {"none", "fanout", "finished"}

LEMMA LedgerJobMoves ==
  ASSUME TypeOK, Ledger, NEW j \in Network, NEW to \in Waiting,
         jobAt[j] \in Waiting, jobAt' = [jobAt EXCEPT ![j] = to],
         UNCHANGED <<linkAt, urlState, occs, result, fanout, emitted, outcome>>
  PROVE  Ledger'
<1> USE DEF Waiting, HasJob, Completed, TypeOK
<1>1. \A i \in Network : (HasJob(i)' <=> HasJob(i)) /\ (Completed(i)' <=> Completed(i))
                         /\ (jobAt'[i] # "none" <=> jobAt[i] # "none")
                         /\ (jobAt[i] = "fanout" => jobAt'[i] = "fanout")
  OBVIOUS
<1>2. JobOfURL'
  BY <1>1 DEF Ledger, JobOfURL
<1>3. FanoutUnreported'
  BY <1>1 DEF Ledger, FanoutUnreported
<1> QED
  BY <1>2, <1>3 DEF Ledger, ResultIffDone, OccsUnreported, UnregisteredUnreported,
     ReportIsResult, AtMostOnce

\* The parts of Ledger, for steps that prove them one by one.
LEMMA LedgerParts ==
  ASSUME ResultIffDone', JobOfURL', OccsUnreported', FanoutUnreported',
         UnregisteredUnreported', ReportIsResult', AtMostOnce'
  PROVE  Ledger'
  BY DEF Ledger

LEMMA LedgerHandleOffline ==
  ASSUME TypeOK, Ledger, NEW o \in Links, NEW v \in Outcome, HandleOffline(o, v)
  PROVE  Ledger'
<1> USE DEF TypeOK, HandleOffline, Add, AtNextLink, parseFrame, dedupVars
<1>1. o \notin Network /\ emitted[o] = 0
  BY DEF Ledger, UnregisteredUnreported
<1>2. ResultIffDone' /\ JobOfURL'
  BY <1>1 DEF Ledger, ResultIffDone, JobOfURL, HasJob, Completed
<1>3. OccsUnreported' /\ FanoutUnreported'
  BY <1>1 DEF Ledger, OccsUnreported, FanoutUnreported
<1>4. UnregisteredUnreported' /\ ReportIsResult' /\ AtMostOnce'
  BY <1>1 DEF Ledger, UnregisteredUnreported, ReportIsResult, AtMostOnce
<1> QED BY <1>2, <1>3, <1>4, LedgerParts

LEMMA LedgerAddCacheHit ==
  ASSUME TypeOK, Ledger, NEW o \in Network, AddCacheHit(o)
  PROVE  Ledger'
<1> USE DEF TypeOK, AddCacheHit, Add, AtNextLink, parseFrame, Verdict
<1> DEFINE k == KeyOf[o]
<1>1. /\ emitted[o] = 0 /\ k \in Keys /\ entries[k] \in Verdict /\ entries[k] # None
      /\ occs[k] = {} /\ \A j \in Network : KeyOf[j] = k => ~HasJob(j) /\ fanout[j] = {}
  BY DEF Ledger, UnregisteredUnreported, OccsUnreported, FanoutUnreported, JobOfURL,
     HasJob, Definitive, Verdict
<1>2. \A p \in Network : KeyOf[p] = k => emitted[p] = 0
  BY DEF Ledger, ReportIsResult
<1>3. ResultIffDone'
  BY <1>1 DEF Ledger, ResultIffDone
<1>4. JobOfURL'
  BY <1>1 DEF Ledger, JobOfURL, HasJob, Completed
<1>5. OccsUnreported' /\ FanoutUnreported'
  BY <1>1 DEF Ledger, OccsUnreported, FanoutUnreported
<1>6. UnregisteredUnreported' /\ ReportIsResult' /\ AtMostOnce'
  BY <1>1, <1>2 DEF Ledger, UnregisteredUnreported, ReportIsResult, AtMostOnce
<1> QED BY <1>3, <1>4, <1>5, <1>6, LedgerParts

LEMMA LedgerAddMiss ==
  ASSUME TypeOK, Ledger, NEW o \in Network, AddMiss(o)
  PROVE  Ledger'
<1> USE DEF TypeOK, AddMiss, Miss, AtNextLink, parseFrame, reportVars
<1> DEFINE k == KeyOf[o]
<1>1. /\ emitted[o] = 0 /\ k \in Keys /\ jobAt[o] = "none"
      /\ \A j \in Network : KeyOf[j] = k => ~HasJob(j) /\ fanout[j] = {}
  BY DEF Ledger, UnregisteredUnreported, FanoutUnreported, JobOfURL, HasJob
<1>2. \A p \in Network : KeyOf[p] = k => emitted[p] = 0
  BY DEF Ledger, ReportIsResult
<1>3. ResultIffDone'
  BY <1>1 DEF Ledger, ResultIffDone
<1>4. JobOfURL'
  BY <1>1 DEF Ledger, JobOfURL, HasJob, Completed
<1>5. OccsUnreported' /\ FanoutUnreported'
  BY <1>1 DEF Ledger, OccsUnreported, FanoutUnreported
<1>6. UnregisteredUnreported' /\ ReportIsResult' /\ AtMostOnce'
  BY <1>1, <1>2 DEF Ledger, UnregisteredUnreported, ReportIsResult, AtMostOnce
<1> QED BY <1>3, <1>4, <1>5, <1>6, LedgerParts

LEMMA LedgerAddLookup ==
  ASSUME TypeOK, Ledger, NEW o \in Network, AddLookup(o)
  PROVE  Ledger'
<1> USE DEF TypeOK, AddLookup, AtNextLink, parseFrame, dedupVars, reportVars
<1>1. emitted[o] = 0 /\ jobAt[o] = "none"
  BY DEF Ledger, UnregisteredUnreported, JobOfURL
<1>2. ResultIffDone' /\ JobOfURL'
  BY <1>1 DEF Ledger, ResultIffDone, JobOfURL, HasJob, Completed
<1>3. OccsUnreported' /\ FanoutUnreported'
  BY <1>1 DEF Ledger, OccsUnreported, FanoutUnreported
<1>4. UnregisteredUnreported' /\ ReportIsResult' /\ AtMostOnce'
  BY <1>1 DEF Ledger, UnregisteredUnreported, ReportIsResult, AtMostOnce
<1> QED BY <1>2, <1>3, <1>4, LedgerParts

LEMMA LedgerAddDone ==
  ASSUME TypeOK, Ledger, NEW o \in Network, AddDone(o)
  PROVE  Ledger'
<1> USE DEF TypeOK, AddDone, Add, LateVerdict, parseFrame, dedupVars
<1>1. /\ emitted[o] = 0 /\ jobAt[o] = "none"
      /\ \A k \in Keys : o \notin occs[k]
      /\ \A j \in Network : o \notin fanout[j]
  BY DEF Ledger, UnregisteredUnreported, JobOfURL, OccsUnreported, FanoutUnreported
<1>2. ResultIffDone' /\ JobOfURL'
  BY <1>1 DEF Ledger, ResultIffDone, JobOfURL, HasJob, Completed
<1>3. OccsUnreported' /\ FanoutUnreported'
  BY <1>1 DEF Ledger, OccsUnreported, FanoutUnreported
<1>4. UnregisteredUnreported' /\ ReportIsResult' /\ AtMostOnce'
  BY <1>1 DEF Ledger, UnregisteredUnreported, ReportIsResult, AtMostOnce
<1> QED BY <1>2, <1>3, <1>4, LedgerParts

LEMMA LedgerAddPending ==
  ASSUME TypeOK, Ledger, NEW o \in Network, AddPending(o)
  PROVE  Ledger'
<1> USE DEF TypeOK, AddPending, Pending, parseFrame, reportVars
<1>1. emitted[o] = 0 /\ jobAt[o] = "none"
  BY DEF Ledger, UnregisteredUnreported, JobOfURL
<1>2. ResultIffDone' /\ JobOfURL'
  BY <1>1 DEF Ledger, ResultIffDone, JobOfURL, HasJob, Completed
<1>3. OccsUnreported' /\ FanoutUnreported'
  BY <1>1 DEF Ledger, OccsUnreported, FanoutUnreported
<1>4. UnregisteredUnreported' /\ ReportIsResult' /\ AtMostOnce'
  BY <1>1 DEF Ledger, UnregisteredUnreported, ReportIsResult, AtMostOnce
<1> QED BY <1>2, <1>3, <1>4, LedgerParts

\* SendJob and DropJob: the job leaves its parse goroutine.
LEMMA LedgerJobLeaves ==
  ASSUME TypeOK, Ledger, NEW o \in Network, linkAt[o] = "send", NEW to \in Waiting,
         jobAt' = [jobAt EXCEPT ![o] = to], linkAt' = [linkAt EXCEPT ![o] = "handled"],
         UNCHANGED <<dedupVars, fanout, reportVars>>
  PROVE  Ledger'
<1> USE DEF TypeOK, dedupVars, reportVars
<1>1. jobAt[o] = "none" /\ fanout[o] = {}
  BY DEF Ledger, JobOfURL, FanoutUnreported
<1>2. \A i \in Network : (HasJob(i)' <=> HasJob(i)) /\ (Completed(i)' <=> Completed(i))
  BY <1>1 DEF HasJob, Completed, Waiting
<1>3. ResultIffDone' /\ JobOfURL'
  BY <1>1, <1>2 DEF Ledger, ResultIffDone, JobOfURL
<1>4. OccsUnreported' /\ FanoutUnreported'
  BY <1>1 DEF Ledger, OccsUnreported, FanoutUnreported
<1>5. UnregisteredUnreported' /\ ReportIsResult' /\ AtMostOnce'
  BY <1>1 DEF Ledger, UnregisteredUnreported, ReportIsResult, AtMostOnce
<1> QED BY <1>3, <1>4, <1>5, LedgerParts

LEMMA LedgerExecute ==
  ASSUME TypeOK, Ledger, NEW j \in Network, NEW v \in Answers, Execute(j, v)
  PROVE  Ledger'
<1> USE DEF TypeOK, Execute, executeFrame, reportVars
<1> DEFINE k == KeyOf[j]
<1>1. /\ k \in Keys /\ HasJob(j) /\ v # None /\ urlState[k] = "pending"
      /\ \A i \in Network : KeyOf[i] = k /\ i # j => ~HasJob(i)
  BY DEF Ledger, JobOfURL, HasJob, Completed, Verdict, Outcome
<1>2. \A p \in Network : KeyOf[p] = k => emitted[p] = 0
  BY <1>1 DEF Ledger, ReportIsResult
<1>3. ResultIffDone'
  BY <1>1 DEF Ledger, ResultIffDone
<1>4. JobOfURL'
  BY <1>1 DEF Ledger, JobOfURL, HasJob, Completed
<1>5. OccsUnreported'
  BY <1>1 DEF Ledger, OccsUnreported
<1>6. FanoutUnreported'
  BY <1>1 DEF Ledger, OccsUnreported, FanoutUnreported
<1>7. UnregisteredUnreported' /\ ReportIsResult' /\ AtMostOnce'
  BY <1>1, <1>2 DEF Ledger, UnregisteredUnreported, ReportIsResult, AtMostOnce
<1> QED BY <1>3, <1>4, <1>5, <1>6, <1>7, LedgerParts

LEMMA LedgerFanOut ==
  ASSUME TypeOK, Ledger, NEW j \in Network, NEW o \in Links, FanOut(j, o)
  PROVE  Ledger'
<1> USE DEF TypeOK, FanOut, Add, executeFrame, dedupVars
<1>1. /\ o \in Network /\ KeyOf[o] = KeyOf[j] /\ emitted[o] = 0
      /\ linkAt[o] \in {"send", "handled"} /\ urlState[KeyOf[j]] = "done"
  BY DEF Ledger, FanoutUnreported, JobOfURL, HasJob, Completed
<1>2. \A i \in Network : i # j => o \notin fanout[i]
  BY <1>1 DEF Ledger, FanoutUnreported, JobOfURL, HasJob
<1>3. \A k \in Keys : o \notin occs[k]
  BY <1>1 DEF Ledger, OccsUnreported
<1>4. ResultIffDone' /\ JobOfURL'
  BY DEF Ledger, ResultIffDone, JobOfURL, HasJob, Completed
<1>5. OccsUnreported' /\ FanoutUnreported'
  BY <1>2, <1>3 DEF Ledger, OccsUnreported, FanoutUnreported
<1>6. UnregisteredUnreported' /\ ReportIsResult' /\ AtMostOnce'
  BY <1>1 DEF Ledger, UnregisteredUnreported, ReportIsResult, AtMostOnce
<1> QED BY <1>4, <1>5, <1>6, LedgerParts

LEMMA LedgerExecuteReturn ==
  ASSUME TypeOK, Ledger, NEW j \in Network, ExecuteReturn(j)
  PROVE  Ledger'
<1> USE DEF TypeOK, ExecuteReturn, executeFrame, dedupVars, reportVars
<1>1. ResultIffDone' /\ JobOfURL'
  BY DEF Ledger, ResultIffDone, JobOfURL, HasJob, Completed
<1>2. OccsUnreported' /\ FanoutUnreported'
  BY DEF Ledger, OccsUnreported, FanoutUnreported
<1>3. UnregisteredUnreported' /\ ReportIsResult' /\ AtMostOnce'
  BY DEF Ledger, UnregisteredUnreported, ReportIsResult, AtMostOnce
<1> QED BY <1>1, <1>2, <1>3, LedgerParts

LEMMA LedgerStep == TypeOK /\ Ledger /\ [Next]_vars => Ledger'
<1> SUFFICES ASSUME TypeOK, Ledger, [Next]_vars PROVE Ledger'
    OBVIOUS
<1> USE DEF ledgerVars, crawlVars, dedupVars, pacerVars, reportVars, ctxVars, engineVars
<1>1. CASE CrawlNext \/ Environment
  BY <1>1, LedgerQuiet DEF CrawlNext, Environment, CrawlSend, CrawlReturn, CrawlCancelled,
     GroupFail, Cancel, CrawlFail, ReadFail, crawlFrame, parseFrame, engineFrame
<1>2. CASE ParseNext
  <2>1. ASSUME NEW s \in Sources, TakeSource(s) \/ StartParse(s) \/ ParseReturn(s)
        PROVE  Ledger'
    BY <2>1, LedgerQuiet DEF TakeSource, StartParse, ParseReturn, parseFrame
  <2>2. ASSUME NEW o \in Network, SendJob(o) PROVE Ledger'
    BY <2>2, LedgerJobLeaves DEF SendJob, Waiting, JobStage, parseFrame
  <2>3. ASSUME NEW o \in Network, DropJob(o) PROVE Ledger'
    BY <2>3, LedgerJobLeaves DEF DropJob, Waiting, JobStage, parseFrame
  <2>4. CASE CloseJobs
    BY <2>4, LedgerQuiet DEF CloseJobs, parseFrame
  <2> QED
    BY <1>2, <2>1, <2>2, <2>3, <2>4, LedgerHandleOffline, LedgerAddCacheHit, LedgerAddMiss,
       LedgerAddLookup, LedgerAddDone, LedgerAddPending DEF ParseNext
<1>3. CASE DispatchNext
  <2>1. ASSUME NEW j \in Network, Dispatch(j) PROVE Ledger'
    BY <2>1, LedgerJobMoves DEF Dispatch, Waiting, JobStage, pacerFrame
  <2> QED
    BY <1>3, <2>1, LedgerQuiet DEF DispatchNext, DispatcherDrained, ClosePacer, CloseReady,
       pacerFrame
<1>4. CASE PacerNext
  <2>1. ASSUME NEW h \in Hosts, NEW j \in Network, PacerTake(h, j) PROVE Ledger'
    BY <2>1, LedgerJobMoves DEF PacerTake, Queue, JobsIn, Waiting, JobStage, pacerFrame
  <2>2. ASSUME NEW h \in Hosts, NEW j \in Network, PacerSend(h, j) PROVE Ledger'
    BY <2>2, LedgerJobMoves DEF PacerSend, Waiting, JobStage, pacerFrame
  <2>3. ASSUME NEW h \in Hosts, NEW j \in Network, PacerAbandon(h, j) PROVE Ledger'
    BY <2>3, LedgerJobMoves DEF PacerAbandon, Waiting, JobStage, pacerFrame
  <2> QED
    BY <1>4, <2>1, <2>2, <2>3, LedgerQuiet DEF PacerNext, PacerPark, PacerWait, CancelWakes,
       PacerExit, AcquireOK, AcquireCancelled, AcquireWouldExceedDeadline,
       PacerSendCancelled, pacerFrame
<1>5. CASE ExecuteNext
  <2>1. ASSUME NEW j \in Network, Receive(j) PROVE Ledger'
    BY <2>1, LedgerJobMoves DEF Receive, Waiting, JobStage, executeFrame
  <2>2. ASSUME NEW j \in Network, StartExecute(j) PROVE Ledger'
    BY <2>2, LedgerJobMoves DEF StartExecute, Waiting, JobStage, executeFrame
  <2> QED
    BY <1>5, <2>1, <2>2, LedgerExecute, LedgerFanOut, LedgerExecuteReturn DEF ExecuteNext
<1>6. CASE EngineNext
  BY <1>6, LedgerQuiet DEF EngineNext, RunReturn, Save, Finish, Judge, engineFrame
<1>7. CASE UNCHANGED vars
  BY <1>7, LedgerQuiet DEF vars
<1> QED BY <1>1, <1>2, <1>3, <1>4, <1>5, <1>6, <1>7 DEF Next, System

LEMMA LedgerInit == Init => Ledger
  BY DEF Init, Ledger, ResultIffDone, JobOfURL, HasJob, Completed, OccsUnreported,
     FanoutUnreported, UnregisteredUnreported, ReportIsResult, AtMostOnce

THEOREM LedgerHolds == Spec => []Ledger
<1>1. Init => TypeOK /\ Ledger
  BY TypeInit, LedgerInit
<1>2. TypeOK /\ Ledger /\ [Next]_vars => (TypeOK /\ Ledger)'
  BY TypeStep, LedgerStep
<1> QED BY <1>1, <1>2, PTL DEF Spec

\* No link is reported twice, whatever the schedule.
THEOREM ReportedAtMostOnce == Spec => []AtMostOnce
<1>1. Ledger => AtMostOnce
  BY DEF Ledger
<1> QED BY <1>1, LedgerHolds, PTL

\* All reported occurrences of a URL agree.
THEOREM VerdictsAgree == Spec => []VerdictAgreement
<1>1. Ledger => VerdictAgreement
  BY DEF Ledger, ReportIsResult, VerdictAgreement
<1> QED BY <1>1, LedgerHolds, PTL
=============================================================================
