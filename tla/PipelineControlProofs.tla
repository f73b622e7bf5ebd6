------------------------ MODULE PipelineControlProofs ------------------------
(***************************************************************************)
(* Control is inductive relative to TypeOK and Ledger, and with them       *)
(* implies that channels are closed safely, that no link gets lost, that a *)
(* URL is checked once and the file holds what was reported.  From all of  *)
(* these, a run that is not hurried implements RunContract.                *)
(***************************************************************************)
EXTENDS PipelineProofs, FiniteSetTheorems

USE ConstantsAssumption DEF Network, crawlVars, dedupVars, pacerVars, reportVars,
  ctxVars, engineVars

LEMMA LinkProgressStep == TypeOK /\ Control /\ [Next]_vars => LinkProgress'
<1> SUFFICES ASSUME TypeOK, Control, [Next]_vars PROVE LinkProgress'
    OBVIOUS
<1>0. LinkProgress /\ \A o \in Links : SourceOf[o] \in Sources
  BY DEF Control
<1> USE <1>0 DEF TypeOK, LinkProgress
<1>1. CASE CrawlNext \/ Environment
  <2>1. ASSUME NEW s \in Sources, CrawlSend(s) PROVE LinkProgress'
    BY <2>1 DEF CrawlSend, crawlFrame
  <2>2. ASSUME NEW s \in Sources, ReadFail(s) PROVE LinkProgress'
    BY <2>2 DEF ReadFail, parseFrame
  <2> QED BY <1>1, <2>1, <2>2 DEF CrawlNext, CrawlReturn, CrawlCancelled, GroupFail,
        Environment, Cancel, CrawlFail, crawlFrame, engineFrame
<1>2. CASE ParseNext
  <2> USE <1>2 DEF parseFrame
  <2>1. ASSUME NEW s \in Sources, TakeSource(s) PROVE LinkProgress'
    BY <2>1 DEF TakeSource
  <2>2. ASSUME NEW s \in Sources, StartParse(s) PROVE LinkProgress'
    BY <2>2 DEF StartParse
  <2>3. ASSUME NEW s \in Sources, ParseReturn(s) PROVE LinkProgress'
    BY <2>3 DEF ParseReturn, LinksOf
  <2>4. ASSUME NEW o \in Links, NEW v \in Outcome, HandleOffline(o, v) PROVE LinkProgress'
    BY <2>4 DEF HandleOffline, AtNextLink
  <2>5. ASSUME NEW o \in Network, AtNextLink(o), UNCHANGED srcAt,
               NEW at \in LinkStage, linkAt' = [linkAt EXCEPT ![o] = at]
        PROVE  LinkProgress'
    BY <2>5 DEF AtNextLink
  <2>6. ASSUME NEW o \in Network, linkAt[o] # "todo", UNCHANGED srcAt,
               linkAt' = [linkAt EXCEPT ![o] = "handled"]
        PROVE  LinkProgress'
    BY <2>6
  <2>7. CASE CloseJobs BY <2>7 DEF CloseJobs
  <2>8. ASSUME NEW o \in Network, AddCacheHit(o) \/ AddMiss(o) \/ AddLookup(o)
        PROVE  LinkProgress'
    BY <2>5, <2>8 DEF AddCacheHit, AddMiss, AddLookup, LinkStage
  <2>9. ASSUME NEW o \in Network, AddDone(o) \/ AddPending(o) \/ SendJob(o) \/ DropJob(o)
        PROVE  LinkProgress'
    BY <2>6, <2>9 DEF AddDone, AddPending, SendJob, DropJob
  <2> QED BY <2>1, <2>2, <2>3, <2>4, <2>7, <2>8, <2>9 DEF ParseNext
<1>3. CASE DispatchNext \/ PacerNext
  BY <1>3 DEF DispatchNext, Dispatch, DispatcherDrained, ClosePacer, CloseReady,
     PacerNext, PacerPark, PacerWait, CancelWakes, PacerExit, AcquireOK, PacerTake,
     AcquireCancelled, AcquireWouldExceedDeadline, PacerSend, PacerSendCancelled,
     PacerAbandon, pacerFrame
<1>4. CASE ExecuteNext
  BY <1>4 DEF ExecuteNext, Receive, StartExecute, Execute, FanOut, ExecuteReturn, executeFrame
<1>5. CASE EngineNext \/ UNCHANGED vars
  BY <1>5 DEF EngineNext, RunReturn, Save, Finish, Judge, engineFrame, vars
<1> QED BY <1>1, <1>2, <1>3, <1>4, <1>5 DEF Next, System

LEMMA PacersOwnJobsStep == TypeOK /\ Ledger /\ Control /\ [Next]_vars => PacersOwnJobs'
<1> SUFFICES ASSUME TypeOK, Ledger, Control, [Next]_vars PROVE PacersOwnJobs'
    OBVIOUS
<1> USE DEF TypeOK, PacersOwnJobs
<1>0. PacersOwnJobs BY DEF Control
<1>1. CASE CrawlNext \/ Environment
  BY <1>0, <1>1 DEF CrawlNext, CrawlSend, CrawlReturn, CrawlCancelled, GroupFail,
     Environment, Cancel, CrawlFail, ReadFail, crawlFrame, parseFrame, engineFrame
<1>2. CASE ParseNext
  <2> USE <1>0, <1>2 DEF parseFrame
  <2>1. ASSUME NEW o \in Network, SendJob(o) PROVE PacersOwnJobs'
    BY <2>1 DEF SendJob
  <2>2. ASSUME NEW o \in Network, DropJob(o) PROVE PacersOwnJobs'
    BY <2>2 DEF DropJob
  <2> QED BY <2>1, <2>2 DEF ParseNext, TakeSource, StartParse, ParseReturn, HandleOffline,
        AddCacheHit, AddMiss, AddLookup, AddDone, AddPending, CloseJobs
<1>3. CASE DispatchNext
  <2> USE <1>0, <1>3 DEF pacerFrame, Woken
  <2>1. ASSUME NEW j \in Network, Dispatch(j) PROVE PacersOwnJobs'
    BY <2>1 DEF Dispatch
  <2>2. ASSUME NEW h \in Hosts, ClosePacer(h) PROVE PacersOwnJobs'
    BY <2>2 DEF ClosePacer
  <2> QED BY <2>1, <2>2 DEF DispatchNext, DispatcherDrained, CloseReady
<1>4. CASE PacerNext
  <2> USE <1>0, <1>4 DEF pacerFrame, Woken
  <2>1. ASSUME NEW h \in Hosts PROVE /\ PacerPark(h) => PacersOwnJobs'
                                     /\ PacerWait(h) => PacersOwnJobs'
                                     /\ CancelWakes(h) => PacersOwnJobs'
                                     /\ PacerExit(h) => PacersOwnJobs'
                                     /\ AcquireOK(h) => PacersOwnJobs'
    <3>1. ASSUME PacerPark(h) PROVE PacersOwnJobs' BY <3>1 DEF PacerPark
    <3>2. ASSUME PacerWait(h) PROVE PacersOwnJobs' BY <3>2 DEF PacerWait
    <3>3. ASSUME CancelWakes(h) PROVE PacersOwnJobs' BY <3>3 DEF CancelWakes
    <3>4. ASSUME PacerExit(h) PROVE PacersOwnJobs' BY <3>4 DEF PacerExit
    <3>5. ASSUME AcquireOK(h) PROVE PacersOwnJobs' BY <3>5 DEF AcquireOK
    <3> QED BY <3>1, <3>2, <3>3, <3>4, <3>5
  <2>2. ASSUME NEW h \in Hosts, NEW j \in Network, PacerTake(h, j) PROVE PacersOwnJobs'
    BY <2>2 DEF PacerTake, Queue, JobsIn
  <2>3. ASSUME NEW h \in Hosts, NEW j \in Network, PacerSend(h, j) PROVE PacersOwnJobs'
    BY <2>3 DEF PacerSend
  <2>4. ASSUME NEW h \in Hosts, NEW j \in Network, PacerAbandon(h, j) PROVE PacersOwnJobs'
    BY <2>4 DEF PacerAbandon
  <2> QED BY <2>1, <2>2, <2>3, <2>4 DEF PacerNext, AcquireCancelled,
        AcquireWouldExceedDeadline, PacerSendCancelled
<1>5. CASE ExecuteNext
  BY <1>0, <1>5 DEF ExecuteNext, Receive, StartExecute, Execute, FanOut, ExecuteReturn,
     executeFrame
<1>6. CASE EngineNext \/ UNCHANGED vars
  BY <1>0, <1>6 DEF EngineNext, RunReturn, Save, Finish, Judge, engineFrame, vars
<1> QED BY <1>1, <1>2, <1>3, <1>4, <1>5, <1>6 DEF Next, System

LEMMA StagesEndStep == TypeOK /\ Ledger /\ Control /\ [Next]_vars => StagesEnd'
<1> SUFFICES ASSUME TypeOK, Ledger, Control, [Next]_vars PROVE StagesEnd'
    OBVIOUS
<1>0. StagesEnd /\ LinkProgress
  BY DEF Control
<1> USE <1>0 DEF TypeOK, StagesEnd, ParseStageDone, filesClosed, JobsIn
<1>1. CASE CrawlNext \/ Environment
  <2> USE <1>1 DEF crawlFrame, parseFrame, engineFrame, PacersReturned
  <2>1. ASSUME NEW s \in Sources, CrawlSend(s) PROVE StagesEnd'
    BY <2>1 DEF CrawlSend
  <2>2. ASSUME NEW s \in Sources, ReadFail(s) PROVE StagesEnd'
    BY <2>2 DEF ReadFail
  <2> QED BY <2>1, <2>2 DEF CrawlNext, CrawlReturn, CrawlCancelled, GroupFail,
        Environment, Cancel, CrawlFail
<1>2. CASE ParseNext
  <2> USE <1>2 DEF parseFrame, PacersReturned
  <2>1. ASSUME NEW s \in Sources PROVE /\ TakeSource(s) => StagesEnd'
                                       /\ StartParse(s) => StagesEnd'
                                       /\ ParseReturn(s) => StagesEnd'
    <3>1. ASSUME TakeSource(s) PROVE StagesEnd' BY <3>1 DEF TakeSource
    <3>2. ASSUME StartParse(s) PROVE StagesEnd' BY <3>2 DEF StartParse
    <3>3. ASSUME ParseReturn(s) PROVE StagesEnd' BY <3>3 DEF ParseReturn
    <3> QED BY <3>1, <3>2, <3>3
  <2>2. ASSUME NEW o \in Network, SendJob(o) \/ DropJob(o) PROVE StagesEnd'
    <3>1. ~jobsClosed
      BY <2>2 DEF SendJob, DropJob, LinkProgress
    <3>2. CASE SendJob(o) BY <3>1, <3>2 DEF SendJob
    <3>3. CASE DropJob(o) BY <3>1, <3>3 DEF DropJob
    <3> QED BY <2>2, <3>2, <3>3
  <2>3. CASE CloseJobs BY <2>3 DEF CloseJobs
  <2>4. ASSUME UNCHANGED <<srcAt, jobsClosed, jobAt>>, UNCHANGED parseFrame
        PROVE  StagesEnd'
    BY <2>4
  <2>5. ASSUME NEW o \in Links, NEW v \in Outcome, HandleOffline(o, v) PROVE StagesEnd'
    BY <2>4, <2>5 DEF HandleOffline
  <2>6. ASSUME NEW o \in Network, \/ AddCacheHit(o) \/ AddMiss(o) \/ AddLookup(o)
                                  \/ AddDone(o) \/ AddPending(o)
        PROVE  StagesEnd'
    BY <2>4, <2>6 DEF AddCacheHit, AddMiss, AddLookup, AddDone, AddPending
  <2> QED BY <2>1, <2>2, <2>3, <2>5, <2>6 DEF ParseNext
<1>3. CASE DispatchNext
  <2> USE <1>3 DEF pacerFrame, PacersReturned, Woken
  <2>1. ASSUME NEW j \in Network, Dispatch(j) PROVE StagesEnd'
    BY <2>1 DEF Dispatch
  <2>2. ASSUME NEW h \in Hosts, ClosePacer(h) PROVE StagesEnd'
    BY <2>2 DEF ClosePacer
  <2>3. CASE DispatcherDrained BY <2>3 DEF DispatcherDrained
  <2>4. CASE CloseReady BY <2>4 DEF CloseReady
  <2> QED BY <2>1, <2>2, <2>3, <2>4 DEF DispatchNext
<1>4. CASE PacerNext
  <2> USE <1>4 DEF pacerFrame, PacersReturned, Woken, Executing
  <2>1. ASSUME NEW h \in Hosts PROVE /\ PacerPark(h) => StagesEnd'
                                     /\ PacerWait(h) => StagesEnd'
                                     /\ CancelWakes(h) => StagesEnd'
                                     /\ PacerExit(h) => StagesEnd'
                                     /\ AcquireOK(h) => StagesEnd'
    <3>1. ASSUME PacerPark(h) PROVE StagesEnd' BY <3>1 DEF PacerPark
    <3>2. ASSUME PacerWait(h) PROVE StagesEnd' BY <3>2 DEF PacerWait
    <3>3. ASSUME CancelWakes(h) PROVE StagesEnd' BY <3>3 DEF CancelWakes
    <3>4. ASSUME PacerExit(h) PROVE StagesEnd' BY <3>4 DEF PacerExit
    <3>5. ASSUME AcquireOK(h) PROVE StagesEnd' BY <3>5 DEF AcquireOK
    <3> QED BY <3>1, <3>2, <3>3, <3>4, <3>5
  <2>2. ASSUME NEW h \in Hosts, NEW j \in Network, PacerTake(h, j) PROVE StagesEnd'
    BY <2>2 DEF PacerTake, Queue
  <2>3. ASSUME NEW h \in Hosts, NEW j \in Network, PacerSend(h, j) PROVE StagesEnd'
    BY <2>3 DEF PacerSend
  <2>4. ASSUME NEW h \in Hosts, NEW j \in Network, pacer[h] \in {"acquire", "send"},
               PacerAbandon(h, j)
        PROVE  StagesEnd'
    BY <2>4 DEF PacerAbandon
  <2> QED BY <2>1, <2>2, <2>3, <2>4 DEF PacerNext, AcquireCancelled,
        AcquireWouldExceedDeadline, PacerSendCancelled
<1>5. CASE ExecuteNext
  <2> USE <1>5 DEF executeFrame, PacersReturned, Executing
  <2>1. ASSUME NEW j \in Network PROVE /\ Receive(j) => StagesEnd'
                                       /\ StartExecute(j) => StagesEnd'
                                       /\ ExecuteReturn(j) => StagesEnd'
    <3>1. ASSUME Receive(j) PROVE StagesEnd' BY <3>1 DEF Receive
    <3>2. ASSUME StartExecute(j) PROVE StagesEnd' BY <3>2 DEF StartExecute
    <3>3. ASSUME ExecuteReturn(j) PROVE StagesEnd' BY <3>3 DEF ExecuteReturn
    <3> QED BY <3>1, <3>2, <3>3
  <2>2. ASSUME NEW j \in Network, NEW v \in Answers, Execute(j, v) PROVE StagesEnd'
    BY <2>2 DEF Execute
  <2>3. ASSUME NEW j \in Network, NEW o \in Links, FanOut(j, o) PROVE StagesEnd'
    BY <2>3 DEF FanOut
  <2> QED BY <2>1, <2>2, <2>3 DEF ExecuteNext
<1>6. CASE EngineNext \/ UNCHANGED vars
  BY <1>6 DEF EngineNext, RunReturn, Save, Finish, Judge, engineFrame, vars, PacersReturned,
     readyClosed
<1> QED BY <1>1, <1>2, <1>3, <1>4, <1>5, <1>6 DEF Next, System

\* HasJob is stable, so a pending record keeps its job.
LEMMA PendingHasJobStep == TypeOK /\ Control /\ [Next]_vars => PendingHasJob'
<1> SUFFICES ASSUME TypeOK, Control, [Next]_vars PROVE PendingHasJob'
    OBVIOUS
<1>0. PendingHasJob
  BY DEF Control
<1> USE <1>0 DEF TypeOK, PendingHasJob, HasJob
<1>1. CASE CrawlNext \/ Environment
  BY <1>1 DEF CrawlNext, CrawlSend, CrawlReturn, CrawlCancelled, GroupFail,
     Environment, Cancel, CrawlFail, ReadFail, crawlFrame, parseFrame, engineFrame
<1>2. CASE ParseNext
  <2> USE <1>2 DEF parseFrame
  <2>1. ASSUME NEW o \in Links, NEW v \in Outcome, HandleOffline(o, v) PROVE PendingHasJob'
    BY <2>1 DEF HandleOffline, AtNextLink
  <2>2. ASSUME NEW o \in Network PROVE /\ AddCacheHit(o) => PendingHasJob'
                                       /\ AddMiss(o) => PendingHasJob'
                                       /\ AddLookup(o) => PendingHasJob'
                                       /\ AddDone(o) => PendingHasJob'
                                       /\ AddPending(o) => PendingHasJob'
                                       /\ SendJob(o) => PendingHasJob'
                                       /\ DropJob(o) => PendingHasJob'
    <3>1. ASSUME AddCacheHit(o) PROVE PendingHasJob' BY <3>1 DEF AddCacheHit, AtNextLink
    <3>2. ASSUME AddMiss(o) PROVE PendingHasJob' BY <3>2 DEF AddMiss, AtNextLink
    <3>3. ASSUME AddLookup(o) PROVE PendingHasJob' BY <3>3 DEF AddLookup, AtNextLink
    <3>4. ASSUME AddDone(o) PROVE PendingHasJob' BY <3>4 DEF AddDone
    <3>5. ASSUME AddPending(o) PROVE PendingHasJob' BY <3>5 DEF AddPending
    <3>6. ASSUME SendJob(o) PROVE PendingHasJob' BY <3>6 DEF SendJob
    <3>7. ASSUME DropJob(o) PROVE PendingHasJob' BY <3>7 DEF DropJob
    <3> QED BY <3>1, <3>2, <3>3, <3>4, <3>5, <3>6, <3>7
  <2> QED BY <2>1, <2>2 DEF ParseNext, TakeSource, StartParse, ParseReturn, CloseJobs
<1>3. CASE DispatchNext
  BY <1>3 DEF DispatchNext, Dispatch, DispatcherDrained, ClosePacer, CloseReady, pacerFrame
<1>4. CASE PacerNext
  BY <1>4 DEF PacerNext, PacerPark, PacerWait, CancelWakes, PacerExit, AcquireOK, PacerTake,
     AcquireCancelled, AcquireWouldExceedDeadline, PacerSend, PacerSendCancelled,
     PacerAbandon, pacerFrame
<1>5. CASE ExecuteNext
  BY <1>5 DEF ExecuteNext, Receive, StartExecute, Execute, FanOut, ExecuteReturn, executeFrame
<1>6. CASE EngineNext \/ UNCHANGED vars
  BY <1>6 DEF EngineNext, RunReturn, Save, Finish, Judge, engineFrame, vars
<1> QED BY <1>1, <1>2, <1>3, <1>4, <1>5, <1>6 DEF Next, System

LEMMA AccountedStep == TypeOK /\ Ledger /\ Control /\ [Next]_vars => Accounted'
<1> SUFFICES ASSUME TypeOK, Ledger, Control, [Next]_vars PROVE Accounted'
    OBVIOUS
<1>0. Accounted /\ LinkProgress
  BY DEF Control
<1> USE <1>0 DEF TypeOK, Accounted, ExactlyReported
<1>1. ASSUME UNCHANGED <<linkAt, occs, fanout, emitted>> PROVE Accounted'
  BY <1>1
<1>2. CASE CrawlNext \/ Environment
  BY <1>1, <1>2 DEF CrawlNext, CrawlSend, CrawlReturn, CrawlCancelled, GroupFail,
     Environment, Cancel, CrawlFail, ReadFail, crawlFrame, parseFrame, engineFrame
<1>3. CASE ParseNext
  <2> USE DEF parseFrame
  <2>1. ASSUME NEW o \in Links, NEW v \in Outcome, HandleOffline(o, v) PROVE Accounted'
    BY <2>1 DEF HandleOffline, Add, AtNextLink, Ledger, UnregisteredUnreported
  <2>2. ASSUME NEW o \in Network, AddCacheHit(o) PROVE Accounted'
    BY <2>2 DEF AddCacheHit, Add, AtNextLink, Ledger, UnregisteredUnreported
  <2>3. ASSUME NEW o \in Network, AddMiss(o) PROVE Accounted'
    <3>1. occs[KeyOf[o]] = {}
      BY <2>3 DEF AddMiss, Miss, Ledger, OccsUnreported
    <3> QED BY <2>3, <3>1 DEF AddMiss, AtNextLink
  <2>4. ASSUME NEW o \in Network, AddLookup(o) PROVE Accounted'
    BY <2>4 DEF AddLookup, AtNextLink
  <2>5. ASSUME NEW o \in Network, AddDone(o) PROVE Accounted'
    BY <2>5 DEF AddDone, Add, Ledger, UnregisteredUnreported
  <2>6. ASSUME NEW o \in Network, AddPending(o) PROVE Accounted'
    BY <2>6 DEF AddPending
  <2>7. ASSUME NEW o \in Network, linkAt[o] = "send",
               linkAt' = [linkAt EXCEPT ![o] = "handled"], UNCHANGED <<occs, fanout, emitted>>
        PROVE  Accounted'
    BY <2>7
  <2> QED BY <1>1, <1>3, <2>1, <2>2, <2>3, <2>4, <2>5, <2>6, <2>7 DEF ParseNext, TakeSource,
        StartParse, ParseReturn, CloseJobs, SendJob, DropJob
<1>4. CASE DispatchNext \/ PacerNext
  BY <1>1, <1>4 DEF DispatchNext, Dispatch, DispatcherDrained, ClosePacer, CloseReady,
     PacerNext, PacerPark, PacerWait, CancelWakes, PacerExit, AcquireOK, PacerTake,
     AcquireCancelled, AcquireWouldExceedDeadline, PacerSend, PacerSendCancelled,
     PacerAbandon, pacerFrame
<1>5. CASE ExecuteNext
  <2>1. ASSUME NEW j \in Network, NEW v \in Answers, Execute(j, v) PROVE Accounted'
    <3>1. fanout[j] = {} /\ \A o \in Network : KeyOf[o] = KeyOf[j] => linkAt[o] # "send"
      BY <2>1 DEF Execute, Ledger, FanoutUnreported, JobOfURL, HasJob
    <3>2. ASSUME NEW o \in Network, o \in occs[KeyOf[o]]
          PROVE  o \in occs'[KeyOf[o]] \/ o \in fanout'[j]
      BY <2>1, <3>2 DEF Execute, Ledger, OccsUnreported
    <3>3. ASSUME NEW o \in Network, NEW i \in Network, o \in fanout[i]
          PROVE  o \in fanout'[i]
      BY <2>1, <3>1, <3>3 DEF Execute
    <3>4. linkAt' = linkAt /\ emitted' = emitted
      BY <2>1 DEF Execute, executeFrame
    <3>5. \A o \in Network : linkAt[o] = "send" => o \in occs'[KeyOf[o]]
      BY <2>1, <3>1 DEF Execute
    <3> QED BY <3>2, <3>3, <3>4, <3>5
  <2>2. ASSUME NEW j \in Network, NEW o \in Links, FanOut(j, o) PROVE Accounted'
    <3>1. emitted[o] = 0 /\ linkAt' = linkAt /\ occs' = occs
      BY <2>2 DEF FanOut, executeFrame, Ledger, FanoutUnreported
    <3>2. /\ emitted' = [emitted EXCEPT ![o] = 1]
          /\ \A p \in Network, i \in Network : p # o /\ p \in fanout[i] => p \in fanout'[i]
      BY <2>2, <3>1 DEF FanOut, Add
    <3> QED BY <3>1, <3>2
  <2> QED BY <1>1, <1>5, <2>1, <2>2 DEF ExecuteNext, Receive, StartExecute, ExecuteReturn,
        executeFrame
<1>6. CASE EngineNext \/ UNCHANGED vars
  BY <1>1, <1>6 DEF EngineNext, RunReturn, Save, Finish, Judge, engineFrame, vars
<1> QED BY <1>2, <1>3, <1>4, <1>5, <1>6 DEF Next, System

\* A pacer is only refused a token when its host had more links than tokens.
LEMMA RefusedIsHurried ==
  ASSUME TypeOK, NEW h \in Hosts, NEW j \in Network, AcquireWouldExceedDeadline(h, j)
  PROVE  Hurried
<1>1. /\ MaxTime /\ Cardinality(Granted(h)) >= Burst[h]
      /\ jobAt[j] = "pacing" /\ HostOf[j] = h
  BY DEF AcquireWouldExceedDeadline, PacerAbandon
<1>2. Granted(h) \subseteq OfHost(h) /\ j \in OfHost(h) \ Granted(h)
  BY <1>1 DEF Granted, OfHost, JobsIn, Executing
<1>3. IsFiniteSet(OfHost(h)) BY TokensAssumption, FS_Subset DEF OfHost, Network
<1>4. Cardinality(Granted(h)) < Cardinality(OfHost(h))
      /\ Cardinality(Granted(h)) \in Nat /\ Cardinality(OfHost(h)) \in Nat
  BY <1>2, <1>3, FS_Subset, FS_CardinalityType
<1>5. Burst[h] \in Nat BY TokensAssumption
<1> QED BY <1>1, <1>4, <1>5 DEF Hurried

LEMMA GivenUpOnlyIfAbortedStep ==
  TypeOK /\ Ledger /\ Control /\ [Next]_vars => GivenUpOnlyIfAborted'
<1> SUFFICES ASSUME TypeOK, Ledger, Control, [Next]_vars PROVE GivenUpOnlyIfAborted'
    OBVIOUS
<1>0. /\ GivenUpOnlyIfAborted /\ StagesEnd
      /\ ResultIffDone /\ FanoutUnreported /\ JobOfURL
  BY DEF Control, Ledger
<1> USE <1>0 DEF TypeOK, GivenUpOnlyIfAborted, Aborted, Done, Drained, Queue, JobsIn
<1>1. CASE CrawlNext \/ Environment
  BY <1>1 DEF CrawlNext, CrawlSend, CrawlReturn, CrawlCancelled, GroupFail,
     Environment, Cancel, CrawlFail, ReadFail, crawlFrame, parseFrame, engineFrame
<1>2. CASE ParseNext
  <2> USE DEF parseFrame
  <2>1. ASSUME NEW o \in Links, NEW v \in Outcome \ {"flaky", "error"}, HandleOffline(o, v)
        PROVE  GivenUpOnlyIfAborted'
    BY <2>1 DEF HandleOffline, Add
  <2>2. ASSUME NEW o \in Network, AddCacheHit(o) PROVE GivenUpOnlyIfAborted'
    BY <2>2 DEF AddCacheHit, Add, Definitive
  <2>3. ASSUME NEW o \in Network, AddDone(o) PROVE GivenUpOnlyIfAborted'
    BY <2>3 DEF AddDone, Add, LateVerdict, ResultIffDone
  <2>4. ASSUME NEW o \in Network, SendJob(o) PROVE GivenUpOnlyIfAborted'
    BY <2>4 DEF SendJob
  <2>5. ASSUME NEW o \in Network, DropJob(o) PROVE GivenUpOnlyIfAborted'
    BY <2>5 DEF DropJob
  <2>6. ASSUME UNCHANGED <<result, jobAt, reportVars, parseFrame>>
        PROVE  GivenUpOnlyIfAborted'
    BY <2>6
  <2>7. ASSUME NEW o \in Network, AddMiss(o) \/ AddLookup(o) \/ AddPending(o)
        PROVE  GivenUpOnlyIfAborted'
    BY <2>6, <2>7 DEF AddMiss, AddLookup, AddPending
  <2>8. ASSUME NEW s \in Sources, TakeSource(s) \/ StartParse(s) \/ ParseReturn(s)
        PROVE  GivenUpOnlyIfAborted'
    BY <2>6, <2>8 DEF TakeSource, StartParse, ParseReturn
  <2>9. CASE CloseJobs
    BY <2>6, <2>9 DEF CloseJobs
  <2> QED BY <1>2, <2>1, <2>2, <2>3, <2>4, <2>5, <2>7, <2>8, <2>9 DEF ParseNext
<1>3. CASE DispatchNext
  <2> USE <1>3 DEF pacerFrame, Woken
  <2>1. ASSUME NEW j \in Network, Dispatch(j) PROVE GivenUpOnlyIfAborted'
    <3>1. /\ \A h \in Hosts : ~closed[h]
          /\ \A h \in Hosts : pacer'[h] = "exited" => pacer[h] = "exited"
          /\ \A i \in Network : jobAt'[i] = "dropped" => jobAt[i] = "dropped"
      BY <2>1 DEF Dispatch, StagesEnd
    <3> QED BY <2>1, <3>1 DEF Dispatch
  <2>2. ASSUME NEW h \in Hosts, ClosePacer(h) PROVE GivenUpOnlyIfAborted'
    BY <2>2 DEF ClosePacer
  <2> QED BY <2>1, <2>2 DEF DispatchNext, DispatcherDrained, CloseReady
<1>4. CASE PacerNext
  <2> USE <1>4 DEF pacerFrame, Woken
  <2>1. ASSUME NEW h \in Hosts PROVE /\ PacerPark(h) => GivenUpOnlyIfAborted'
                                     /\ PacerWait(h) => GivenUpOnlyIfAborted'
                                     /\ CancelWakes(h) => GivenUpOnlyIfAborted'
                                     /\ PacerExit(h) => GivenUpOnlyIfAborted'
                                     /\ AcquireOK(h) => GivenUpOnlyIfAborted'
    <3>1. ASSUME PacerPark(h) PROVE GivenUpOnlyIfAborted' BY <3>1 DEF PacerPark
    <3>2. ASSUME PacerWait(h) PROVE GivenUpOnlyIfAborted' BY <3>2 DEF PacerWait
    <3>3. ASSUME CancelWakes(h) PROVE GivenUpOnlyIfAborted' BY <3>3 DEF CancelWakes
    <3>4. ASSUME PacerExit(h) PROVE GivenUpOnlyIfAborted' BY <3>4 DEF PacerExit
    <3>5. ASSUME AcquireOK(h) PROVE GivenUpOnlyIfAborted' BY <3>5 DEF AcquireOK
    <3> QED BY <3>1, <3>2, <3>3, <3>4, <3>5
  <2>2. ASSUME NEW h \in Hosts, NEW j \in Network, PacerTake(h, j)
        PROVE  GivenUpOnlyIfAborted'
    BY <2>2 DEF PacerTake
  <2>3. ASSUME NEW h \in Hosts, NEW j \in Network, PacerSend(h, j)
        PROVE  GivenUpOnlyIfAborted'
    BY <2>3 DEF PacerSend
  <2>4. ASSUME NEW h \in Hosts, NEW j \in Network, Aborted, PacerAbandon(h, j)
        PROVE  GivenUpOnlyIfAborted'
    BY <2>4 DEF PacerAbandon
  <2>5. ASSUME NEW h \in Hosts, NEW j \in Network, AcquireWouldExceedDeadline(h, j)
        PROVE  GivenUpOnlyIfAborted'
    <3>1. Hurried BY <2>5, RefusedIsHurried
    <3> QED BY <2>4, <2>5, <3>1 DEF AcquireWouldExceedDeadline
  <2> QED BY <1>4, <2>1, <2>2, <2>3, <2>4, <2>5 DEF PacerNext, AcquireCancelled,
        PacerSendCancelled
<1>5. CASE ExecuteNext
  <2> USE DEF executeFrame
  <2>1. ASSUME NEW j \in Network PROVE /\ Receive(j) => GivenUpOnlyIfAborted'
                                       /\ StartExecute(j) => GivenUpOnlyIfAborted'
                                       /\ ExecuteReturn(j) => GivenUpOnlyIfAborted'
    <3>1. ASSUME Receive(j) PROVE GivenUpOnlyIfAborted' BY <3>1 DEF Receive
    <3>2. ASSUME StartExecute(j) PROVE GivenUpOnlyIfAborted' BY <3>2 DEF StartExecute
    <3>3. ASSUME ExecuteReturn(j) PROVE GivenUpOnlyIfAborted' BY <3>3 DEF ExecuteReturn
    <3> QED BY <3>1, <3>2, <3>3
  <2>2. ASSUME NEW j \in Network, NEW v \in Answers, Execute(j, v)
        PROVE  GivenUpOnlyIfAborted'
    BY <2>2 DEF Execute
  <2>3. ASSUME NEW j \in Network, NEW o \in Links, FanOut(j, o) PROVE GivenUpOnlyIfAborted'
    <3>1. result[KeyOf[j]] # None
      BY <2>3 DEF FanOut, ResultIffDone, JobOfURL, HasJob, Completed
    <3> QED BY <2>3, <3>1 DEF FanOut, Add
  <2> QED BY <1>5, <2>1, <2>2, <2>3 DEF ExecuteNext
<1>6. CASE EngineNext \/ UNCHANGED vars
  BY <1>6 DEF EngineNext, RunReturn, Save, Finish, Judge, engineFrame, vars
<1> QED BY <1>1, <1>2, <1>3, <1>4, <1>5, <1>6 DEF Next, System

LEMMA EndOfRunStep == TypeOK /\ Ledger /\ Control /\ [Next]_vars => EndOfRun'
<1> SUFFICES ASSUME TypeOK, Ledger, Control, [Next]_vars PROVE EndOfRun'
    OBVIOUS
<1>0. EndOfRun /\ StagesEnd /\ LinkProgress
  BY DEF Control
<1> USE <1>0 DEF TypeOK, EndOfRun, SrcIn, RunFailed, sourceErrors, ExitCode, DeadLinks
<1>1. ASSUME engine = "run", engine' = "run", UNCHANGED exit,
             crawler' = "done" => groupErr' \/ SrcIn("uncrawled")' = {}
      PROVE  EndOfRun'
  BY <1>1
<1>2. CASE CrawlNext \/ Environment
  <2> USE <1>2 DEF crawlFrame, parseFrame, engineFrame, StagesEnd, ParseStageDone
  <2>1. ASSUME NEW s \in Sources, CrawlSend(s) PROVE EndOfRun'
    BY <2>1 DEF CrawlSend
  <2>2. ASSUME NEW s \in Sources, ReadFail(s) PROVE EndOfRun'
    BY <2>2 DEF ReadFail
  <2>3. CASE CrawlReturn BY <2>3 DEF CrawlReturn
  <2>4. CASE CrawlCancelled \/ CrawlFail BY <2>4 DEF CrawlCancelled, CrawlFail
  <2>5. CASE GroupFail BY <2>5 DEF GroupFail
  <2>6. CASE Cancel BY <2>6 DEF Cancel
  <2> QED BY <2>1, <2>2, <2>3, <2>4, <2>5, <2>6 DEF CrawlNext, Environment
<1>3. CASE ParseNext
  <2> USE DEF parseFrame
  <2>1. engine # "run" => /\ jobsClosed
                          /\ \A o \in Links : linkAt[o] \notin {"lookup", "send"}
                          /\ \A s \in Sources : srcAt[s] \notin {"filesCh", "taken", "parsing"}
    BY DEF StagesEnd, ParseStageDone, LinkProgress
  <2>2. engine = "run"
    BY <1>3, <2>1 DEF ParseNext, TakeSource, StartParse, ParseReturn, CloseJobs, HandleOffline,
       AddCacheHit, AddMiss, AddLookup, AddDone, AddPending, SendJob, DropJob, AtNextLink
  <2>3. UNCHANGED <<engine, exit, crawler, groupErr>>
    BY <1>3 DEF ParseNext, TakeSource, StartParse, ParseReturn, CloseJobs, HandleOffline,
       AddCacheHit, AddMiss, AddLookup, AddDone, AddPending, SendJob, DropJob
  <2>4. \A s \in Sources : srcAt'[s] = "uncrawled" => srcAt[s] = "uncrawled"
    <3>1. ASSUME NEW s \in Sources, TakeSource(s) \/ StartParse(s) \/ ParseReturn(s)
          PROVE  \A r \in Sources : srcAt'[r] = "uncrawled" => srcAt[r] = "uncrawled"
      BY <3>1 DEF TakeSource, StartParse, ParseReturn
    <3> QED BY <1>3, <3>1 DEF ParseNext, CloseJobs, HandleOffline,
          AddCacheHit, AddMiss, AddLookup, AddDone, AddPending, SendJob, DropJob
  <2> QED BY <1>1, <2>2, <2>3, <2>4
<1>4. CASE DispatchNext \/ PacerNext
  BY <1>4 DEF DispatchNext, Dispatch, DispatcherDrained, ClosePacer, CloseReady,
     PacerNext, PacerPark, PacerWait, CancelWakes, PacerExit, AcquireOK, PacerTake,
     AcquireCancelled, AcquireWouldExceedDeadline, PacerSend, PacerSendCancelled,
     PacerAbandon, pacerFrame
<1>5. CASE ExecuteNext
  <2>1. engine = "run" /\ UNCHANGED <<engine, exit, crawler, groupErr, srcAt>>
    BY <1>5 DEF ExecuteNext, Receive, StartExecute, Execute, FanOut, ExecuteReturn,
       executeFrame, StagesEnd, Executing
  <2> QED BY <1>1, <2>1
<1>6. CASE EngineNext
  <2> USE DEF engineFrame
  <2>1. CASE RunReturn BY <2>1 DEF RunReturn
  <2>2. ASSUME NEW ok \in BOOLEAN, Save(ok) PROVE EndOfRun' BY <2>2 DEF Save
  <2>3. CASE Finish BY <2>3 DEF Finish
  <2>4. CASE Judge BY <2>4 DEF Judge
  <2> QED BY <1>6, <2>1, <2>2, <2>3, <2>4 DEF EngineNext
<1>7. CASE UNCHANGED vars
  BY <1>7 DEF vars
<1> QED BY <1>2, <1>3, <1>4, <1>5, <1>6, <1>7 DEF Next, System

-----------------------------------------------------------------------------
(* Where verdicts come from, and where they end up.                        *)

storeVars == <<linkAt, urlState, result, jobAt, emitted, outcome, reused, entries,
               disk, engine, saveErr>>

LEMMA StoreQuiet == Store /\ UNCHANGED storeVars => Store'
  BY DEF storeVars, Store, EntriesAreVerdicts, JudgedByCacheOrJob, RealIsFirst, DiskIsCache,
     HasJob

\* A job that moves stays a job.
LEMMA StoreJobMoves ==
  ASSUME TypeOK, Store, NEW j \in Network, NEW to \in JobStage \ {"none"}, HasJob(j),
         jobAt' = [jobAt EXCEPT ![j] = to],
         linkAt' = linkAt \/ linkAt' = [linkAt EXCEPT ![j] = "handled"],
         UNCHANGED <<urlState, result, emitted, outcome, reused, entries,
                     disk, engine, saveErr>>
  PROVE  Store'
<1>1. \A i \in Network : HasJob(i)' <=> HasJob(i)
  BY DEF TypeOK, HasJob
<1> QED
  BY <1>1 DEF Store, EntriesAreVerdicts, JudgedByCacheOrJob, RealIsFirst, DiskIsCache

\* Goroutines of the pipeline run while engine.Run waits for them.
LEMMA ParsingIsRunning ==
  ASSUME TypeOK, Control, NEW o \in Links, linkAt[o] \in {"lookup", "send"} \/ AtNextLink(o)
  PROVE  engine = "run"
<1>1. SourceOf[o] \in Sources /\ srcAt[SourceOf[o]] = "parsing"
  BY DEF Control, LinkProgress, AtNextLink
<1> QED BY <1>1 DEF TypeOK, Control, StagesEnd, ParseStageDone

LEMMA StoreReports ==
  ASSUME TypeOK, Ledger, Control, NEW o \in Network, emitted[o] = 0,
         NEW v \in Outcome, Add(o, v, TRUE),
         \A i \in Network : HasJob(i)' <=> HasJob(i),
         UNCHANGED <<urlState, result, entries, disk, engine, saveErr>>
  PROVE  Store'
<1> USE DEF TypeOK, Add
<1>1. EntriesAreVerdicts' /\ JudgedByCacheOrJob' /\ DiskIsCache'
  BY DEF Control, Store, EntriesAreVerdicts, JudgedByCacheOrJob, DiskIsCache
<1>2. RealIsFirst'
  BY DEF Control, Store, RealIsFirst
<1>3. \A p \in Links : emitted'[p] = 0 => outcome'[p] = None
  BY DEF Control, Store
<1> QED BY <1>1, <1>2, <1>3 DEF Store

LEMMA StoreAddCacheHit ==
  ASSUME TypeOK, Ledger, Control, NEW o \in Network, AddCacheHit(o)
  PROVE  Store'
<1> USE DEF TypeOK, AddCacheHit, Add, parseFrame
<1> DEFINE k == KeyOf[o]
<1>1. /\ k \in Keys /\ result[k] = None /\ entries[k] = Warm[k] /\ Warm[k] \in Definitive
      /\ None \notin Definitive
  BY DEF Ledger, ResultIffDone, Control, Store, EntriesAreVerdicts, Definitive, Verdict, Outcome
<1>2. \A p \in Network : KeyOf[p] = k => emitted[p] = 0
  BY DEF Ledger, ReportIsResult
<1>3. \A i \in Network : HasJob(i)' <=> HasJob(i)
  BY DEF HasJob, AtNextLink
<1>4. EntriesAreVerdicts'
  BY <1>1 DEF Control, Store, EntriesAreVerdicts
<1>5. JudgedByCacheOrJob'
  BY <1>1, <1>3 DEF Control, Store, JudgedByCacheOrJob
<1>6. RealIsFirst'
  BY <1>1, <1>2, <1>3 DEF Control, Store, RealIsFirst
<1>7. DiskIsCache'
  BY DEF Control, Store, DiskIsCache
<1>8. \A p \in Links : emitted'[p] = 0 => outcome'[p] = None
  BY DEF Control, Store
<1> QED BY <1>4, <1>5, <1>6, <1>7, <1>8 DEF Store

LEMMA StoreAddMiss ==
  ASSUME TypeOK, Ledger, Control, NEW o \in Network, AddMiss(o)
  PROVE  Store'
<1> USE DEF TypeOK, AddMiss, Miss, parseFrame
<1> DEFINE k == KeyOf[o]
<1>1. k \in Keys /\ Warm[k] = None
  BY DEF Ledger, ResultIffDone, Control, Store, EntriesAreVerdicts, Definitive, Verdict, Outcome
<1>2. \A i \in Network : i # o => (HasJob(i)' <=> HasJob(i))
  BY DEF HasJob
<1>3. \A i \in Network : HasJob(i) => HasJob(i)'
  BY DEF HasJob
<1>4. JudgedByCacheOrJob'
  BY <1>1, <1>2, <1>3 DEF Control, Store, JudgedByCacheOrJob
<1>5. RealIsFirst'
  BY <1>3 DEF Control, Store, RealIsFirst
<1> QED BY <1>4, <1>5 DEF Control, Store, EntriesAreVerdicts, DiskIsCache

LEMMA StoreExecute ==
  ASSUME TypeOK, Ledger, Control, NEW j \in Network, NEW v \in Answers, Execute(j, v)
  PROVE  Store'
<1> USE DEF TypeOK, Execute, executeFrame
<1> DEFINE k == KeyOf[j]
<1>1. /\ k \in Keys /\ HasJob(j) /\ Warm[k] = None /\ result[k] = None
      /\ None \notin Definitive /\ v \in Verdict /\ engine = "run"
  BY DEF HasJob, Ledger, JobOfURL, Completed, ResultIffDone, Control, Store, JudgedByCacheOrJob,
     StagesEnd, Executing, Definitive, Verdict, Outcome
<1>2. \A i \in Network : HasJob(i)' <=> HasJob(i)
  BY DEF HasJob
<1>3. EntriesAreVerdicts'
  BY <1>1 DEF Control, Store, EntriesAreVerdicts, Cacheable
<1>4. JudgedByCacheOrJob'
  BY <1>1, <1>2 DEF Control, Store, JudgedByCacheOrJob
<1>5. RealIsFirst'
  BY <1>2 DEF Control, Store, RealIsFirst
<1>6. DiskIsCache'
  BY <1>1 DEF Control, Store, DiskIsCache
<1> QED BY <1>3, <1>4, <1>5, <1>6 DEF Control, Store

\* The occurrence that the fan-out does not mark Reused is the sample.
LEMMA StoreFanOut ==
  ASSUME TypeOK, Ledger, Control, NEW j \in Network, NEW o \in Links, FanOut(j, o)
  PROVE  Store'
<1> USE DEF TypeOK, FanOut, Add, executeFrame
<1>1. /\ o \in Network /\ KeyOf[o] = KeyOf[j] /\ HasJob(j) /\ Warm[KeyOf[o]] = None
  BY DEF HasJob, Ledger, FanoutUnreported, Control, Store, JudgedByCacheOrJob
<1>2. \A i \in Network : HasJob(i)' <=> HasJob(i)
  BY DEF HasJob
<1>3. EntriesAreVerdicts' /\ DiskIsCache'
  BY DEF Control, Store, EntriesAreVerdicts, DiskIsCache
<1>4. JudgedByCacheOrJob'
  BY <1>2 DEF Control, Store, JudgedByCacheOrJob
<1>5. RealIsFirst'
  BY <1>1, <1>2 DEF Control, Store, RealIsFirst
<1>6. \A p \in Links : emitted'[p] = 0 => outcome'[p] = None
  BY DEF Control, Store
<1> QED BY <1>3, <1>4, <1>5, <1>6 DEF Store

LEMMA StoreStep == TypeOK /\ Ledger /\ Control /\ [Next]_vars => Store'
<1> SUFFICES ASSUME TypeOK, Ledger, Control, [Next]_vars PROVE Store'
    OBVIOUS
<1>0. Store
  BY DEF Control
<1> USE <1>0 DEF storeVars
<1>1. CASE CrawlNext \/ Environment
  BY <1>1, StoreQuiet DEF CrawlNext, Environment, CrawlSend, CrawlReturn, CrawlCancelled,
     GroupFail, Cancel, CrawlFail, ReadFail, crawlFrame, parseFrame, engineFrame
<1>2. CASE ParseNext
  <2>1. ASSUME NEW s \in Sources, TakeSource(s) \/ StartParse(s) \/ ParseReturn(s)
        PROVE  Store'
    BY <2>1, StoreQuiet DEF TakeSource, StartParse, ParseReturn, parseFrame
  <2>2. ASSUME NEW o \in Links, NEW v \in Outcome, HandleOffline(o, v) PROVE Store'
    <3> USE <2>2 DEF TypeOK, HandleOffline, Add, parseFrame
    <3>1. o \notin Network
      OBVIOUS
    <3>2. EntriesAreVerdicts' /\ JudgedByCacheOrJob' /\ RealIsFirst' /\ DiskIsCache'
      BY <3>1 DEF Store, EntriesAreVerdicts, JudgedByCacheOrJob, RealIsFirst, DiskIsCache,
         HasJob
    <3>3. \A p \in Links : emitted'[p] = 0 => outcome'[p] = None
      BY DEF Store
    <3> QED BY <3>2, <3>3 DEF Store
  <2>3. ASSUME NEW o \in Network, AddLookup(o) PROVE Store'
    <3>1. \A i \in Network : HasJob(i)' <=> HasJob(i)
      BY <2>3 DEF TypeOK, AddLookup, AtNextLink, HasJob, parseFrame
    <3> QED BY <2>3, <3>1 DEF AddLookup, parseFrame, Store, EntriesAreVerdicts,
          JudgedByCacheOrJob, RealIsFirst, DiskIsCache
  <2>4. ASSUME NEW o \in Network, AddDone(o) PROVE Store'
    <3>1. emitted[o] = 0 /\ LateVerdict(KeyOf[o]) \in Outcome
      BY <2>4 DEF AddDone, LateVerdict, TypeOK, Ledger, UnregisteredUnreported, ResultIffDone,
         Outcome
    <3>2. \A i \in Network : HasJob(i)' <=> HasJob(i)
      BY <2>4 DEF TypeOK, AddDone, HasJob, parseFrame
    <3> QED BY <2>4, <3>1, <3>2, StoreReports DEF AddDone, parseFrame
  <2>5. ASSUME NEW o \in Network, AddPending(o) PROVE Store'
    <3>1. \A i \in Network : HasJob(i)' <=> HasJob(i)
      BY <2>5 DEF TypeOK, AddPending, HasJob, parseFrame
    <3> QED BY <2>5, <3>1 DEF AddPending, parseFrame, Store, EntriesAreVerdicts,
          JudgedByCacheOrJob, RealIsFirst, DiskIsCache
  <2>6. ASSUME NEW o \in Network, SendJob(o) \/ DropJob(o) PROVE Store'
    BY <2>6, StoreJobMoves DEF SendJob, DropJob, HasJob, JobStage, parseFrame
  <2>7. CASE CloseJobs
    BY <2>7, StoreQuiet DEF CloseJobs, parseFrame
  <2> QED
    BY <1>2, <2>1, <2>2, <2>3, <2>4, <2>5, <2>6, <2>7, StoreAddCacheHit, StoreAddMiss
       DEF ParseNext
<1>3. CASE DispatchNext
  <2>1. ASSUME NEW j \in Network, Dispatch(j) PROVE Store'
    BY <2>1, StoreJobMoves DEF Dispatch, HasJob, JobStage, pacerFrame
  <2> QED
    BY <1>3, <2>1, StoreQuiet DEF DispatchNext, DispatcherDrained, ClosePacer, CloseReady,
       pacerFrame
<1>4. CASE PacerNext
  <2>1. ASSUME NEW h \in Hosts, NEW j \in Network, PacerTake(h, j) PROVE Store'
    BY <2>1, StoreJobMoves DEF PacerTake, Queue, JobsIn, HasJob, JobStage, pacerFrame
  <2>2. ASSUME NEW h \in Hosts, NEW j \in Network, PacerSend(h, j) PROVE Store'
    BY <2>2, StoreJobMoves DEF PacerSend, HasJob, JobStage, pacerFrame
  <2>3. ASSUME NEW h \in Hosts, NEW j \in Network, PacerAbandon(h, j) PROVE Store'
    BY <2>3, StoreJobMoves DEF PacerAbandon, HasJob, JobStage, pacerFrame
  <2> QED
    BY <1>4, <2>1, <2>2, <2>3, StoreQuiet DEF PacerNext, PacerPark, PacerWait, CancelWakes,
       PacerExit, AcquireOK, AcquireCancelled, AcquireWouldExceedDeadline,
       PacerSendCancelled, pacerFrame
<1>5. CASE ExecuteNext
  <2>1. ASSUME NEW j \in Network, Receive(j) \/ StartExecute(j) \/ ExecuteReturn(j)
        PROVE  Store'
    BY <2>1, StoreJobMoves DEF Receive, StartExecute, ExecuteReturn, HasJob, JobStage,
       executeFrame
  <2> QED BY <1>5, <2>1, StoreExecute, StoreFanOut DEF ExecuteNext
<1>6. CASE EngineNext
  <2> USE DEF engineFrame, Store, EntriesAreVerdicts, JudgedByCacheOrJob, RealIsFirst,
        DiskIsCache, HasJob
  <2>1. CASE RunReturn BY <2>1 DEF RunReturn
  <2>2. ASSUME NEW ok \in BOOLEAN, Save(ok) PROVE Store' BY <2>2 DEF Save
  <2>3. CASE Finish BY <2>3 DEF Finish
  <2>4. CASE Judge BY <2>4 DEF Judge
  <2> QED BY <1>6, <2>1, <2>2, <2>3, <2>4 DEF EngineNext
<1>7. CASE UNCHANGED vars
  BY <1>7, StoreQuiet DEF vars
<1> QED BY <1>1, <1>2, <1>3, <1>4, <1>5, <1>6, <1>7 DEF Next, System

LEMMA ControlInit == Init => Control
<1> SUFFICES ASSUME Init PROVE Control
    OBVIOUS
<1> USE DEF Init
<1>1. LinkProgress /\ Accounted /\ PendingHasJob
  BY DEF LinkProgress, Accounted, PendingHasJob
<1>2. StagesEnd /\ PacersOwnJobs
  BY DEF StagesEnd, PacersOwnJobs
<1>3. GivenUpOnlyIfAborted /\ EndOfRun
  BY DEF GivenUpOnlyIfAborted, EndOfRun, Outcome, Verdict, Definitive
<1>4. Store
  BY DEF Store, EntriesAreVerdicts, JudgedByCacheOrJob, RealIsFirst, DiskIsCache, HasJob,
     Outcome, Verdict, Definitive
<1> QED BY <1>1, <1>2, <1>3, <1>4 DEF Control

THEOREM ControlHolds == Spec => [](TypeOK /\ Ledger /\ Control)
<1>1. Init => TypeOK /\ Ledger /\ Control
  BY TypeInit, LedgerInit, ControlInit
<1>2. TypeOK /\ Ledger /\ Control /\ [Next]_vars => (TypeOK /\ Ledger /\ Control)'
  BY TypeStep, LedgerStep, LinkProgressStep, AccountedStep, PendingHasJobStep, StagesEndStep,
     PacersOwnJobsStep, GivenUpOnlyIfAbortedStep, EndOfRunStep, StoreStep DEF Control
<1> QED BY <1>1, <1>2, PTL DEF Spec

\* No goroutine sends on a closed channel, and none outlives Pipeline.Run.
THEOREM ChannelsClosedSafely == Spec => []NoSendOnClosed
<1>1. TypeOK /\ Ledger /\ Control => NoSendOnClosed
  BY DEF TypeOK, Ledger, Control, NoSendOnClosed, LinkProgress, StagesEnd, ParseStageDone,
     PacersReturned, readyClosed, FanoutUnreported, Executing
<1> QED BY <1>1, ControlHolds, PTL

\* What is true of a link of a parsed source when the pipeline has returned.
LEMMA ReportedOrGivenUp ==
  ASSUME TypeOK, Ledger, Control, engine # "run",
         NEW o \in Links, srcAt[SourceOf[o]] = "parsed"
  PROVE  \/ ExactlyReported(o)
         \/ /\ o \in Network
            /\ \E j \in JobsOf(KeyOf[o]) : \/ jobAt[j] = "dropped"
                                           \/ jobAt[j] = "queue" /\ pacer[HostOf[j]] = "exited"
<1>1. linkAt[o] = "handled"
  BY DEF Control, LinkProgress
<1>2. SUFFICES ASSUME ~ExactlyReported(o)
               PROVE  /\ o \in Network
                      /\ \E j \in JobsOf(KeyOf[o]) :
                           \/ jobAt[j] = "dropped"
                           \/ jobAt[j] = "queue" /\ pacer[HostOf[j]] = "exited"
  OBVIOUS
<1>3. /\ jobsClosed /\ ParseStageDone /\ JobsIn("jobsCh") = {} /\ PacersReturned
      /\ \A j \in Network : jobAt[j] \notin Executing
  BY DEF Control, StagesEnd
<1>4. o \in Network /\ o \in occs[KeyOf[o]]
  BY <1>1, <1>2, <1>3 DEF Control, Accounted, Ledger, FanoutUnreported, Executing
<1>5. KeyOf[o] \in Keys /\ urlState[KeyOf[o]] = "pending"
  BY <1>4 DEF Ledger, OccsUnreported
<1>6. PICK j \in Network : KeyOf[j] = KeyOf[o] /\ HasJob(j)
  BY <1>5 DEF Control, PendingHasJob
<1>7. linkAt[j] # "send" /\ jobAt[j] # "none" /\ ~Completed(j)
  <2>1. SourceOf[j] \in Sources /\ srcAt[SourceOf[j]] # "parsing"
    BY <1>3 DEF ParseStageDone
  <2>2. linkAt[j] # "send"
    BY <2>1 DEF Control, LinkProgress
  <2> QED BY <1>5, <1>6, <2>2 DEF HasJob, Ledger, JobOfURL
<1>8. jobAt[j] \in {"queue", "pacing", "dropped"}
  BY <1>3, <1>7 DEF TypeOK, JobStage, JobsIn, Executing, Completed
<1>9. HostOf[j] \in Hosts /\ pacer[HostOf[j]] \in {"none", "exited"}
  BY <1>3 DEF PacersReturned
<1>10. jobAt[j] # "pacing" /\ (jobAt[j] = "queue" => pacer[HostOf[j]] = "exited")
  BY <1>9 DEF Control, PacersOwnJobs
<1> QED BY <1>4, <1>6, <1>7, <1>8, <1>10 DEF JobsOf

\* A link whose source was read is reported, or its URL's job was given up.
THEOREM LinksAccountedFor == Spec => []NoLinkLost
<1>1. TypeOK /\ Ledger /\ Control => NoLinkLost
  BY ReportedOrGivenUp DEF NoLinkLost
<1> QED BY <1>1, ControlHolds, PTL

\* Without --max-time, or if no host has more links than its burst, a run that exits 0
\* or 1 has reported every link of every
\* source exactly once and none as an error, and 1 means that one is dead.
THEOREM GreenRunsAreComplete ==
  ASSUME ~Hurried
  PROVE  Spec => []GreenMeansComplete
<1>1. ASSUME TypeOK, Ledger, Control, exit \in {0, 1} PROVE GreenMeansComplete
  <2>1. /\ engine = "exit" /\ ~RunFailed /\ exit = summary /\ summary = ExitCode
        /\ SrcIn("uncrawled") = {}
        /\ crawler = "done" /\ ParseStageDone /\ PacersReturned
    BY <1>1 DEF Control, EndOfRun, StagesEnd, RunFailed
  <2>2. ~Aborted
    BY <2>1, ~Hurried DEF RunFailed, Aborted, Done
  <2>3. \A s \in Sources : srcAt[s] = "parsed"
    BY <1>1, <2>1 DEF TypeOK, SrcStage, ParseStageDone, SrcIn, RunFailed, sourceErrors
  <2>4. ASSUME NEW o \in Links PROVE ExactlyReported(o)
    <3>1. SourceOf[o] \in Sources /\ engine # "run"
      BY <2>1
    <3>2. ASSUME NEW j \in Network, jobAt[j] = "queue" PROVE pacer[HostOf[j]] # "exited"
      BY <1>1, <2>2, <3>2 DEF Control, GivenUpOnlyIfAborted, Drained, Queue, JobsIn
    <3>3. \A j \in Network : jobAt[j] # "dropped"
      BY <1>1, <2>2 DEF Control, GivenUpOnlyIfAborted
    <3> QED BY <1>1, <2>3, <3>1, <3>2, <3>3, ReportedOrGivenUp DEF JobsOf
  <2>5. ASSUME NEW o \in Links PROVE outcome[o] \in Outcome \ {"error"}
    BY <1>1, <2>2, <2>4 DEF Control, GivenUpOnlyIfAborted, Aborted, ExactlyReported, TypeOK
  <2>6. exit = 1 <=> \E o \in Links : outcome[o] \in {"dead", "flaky"}
    BY <2>1 DEF ExitCode, DeadLinks
  <2> QED BY <2>3, <2>4, <2>5, <2>6 DEF GreenMeansComplete
<1>2. TypeOK /\ Ledger /\ Control => GreenMeansComplete
  BY <1>1 DEF GreenMeansComplete
<1> QED BY <1>2, ControlHolds, PTL

\* A URL costs at most one job, and none when the cache has it fresh; and at most
\* one of its reports claims to be the real check.
THEOREM URLsAreCheckedOnce == Spec => []OneCheckPerURL
<1>1. TypeOK /\ Ledger /\ Control => OneCheckPerURL
  BY DEF OneCheckPerURL, JobsOf, HasJob, Ledger, JobOfURL, Control, Store, JudgedByCacheOrJob,
     RealIsFirst
<1> QED BY <1>1, ControlHolds, PTL

\* When the pipeline has returned, a completed job has reported its own sample.
LEMMA CompletedIsReported ==
  ASSUME TypeOK, Ledger, Control, engine # "run",
         NEW j \in Network, HasJob(j), urlState[KeyOf[j]] = "done"
  PROVE  emitted[j] > 0
<1>1. jobAt[j] = "finished" /\ linkAt[j] = "handled"
  BY DEF Ledger, JobOfURL, Completed, Control, StagesEnd, Executing
<1>2. j \notin occs[KeyOf[j]] /\ \A i \in Network : j \notin fanout[i]
  BY DEF Ledger, OccsUnreported, FanoutUnreported, Control, StagesEnd, Executing
<1> QED BY <1>1, <1>2 DEF Control, Accounted, ExactlyReported

\* What a completed save leaves on disk is what was reported of each URL, and
\* else what was there.
THEOREM DiskHoldsTheReport == Spec => []DiskMatchesReport
<1> DEFINE Stable(k) == {o \in Network : /\ KeyOf[o] = k
                                        /\ emitted[o] > 0 /\ outcome[o] \in Definitive}
<1>1. ASSUME TypeOK, Ledger, Control, exit # None, ~saveErr, NEW k \in Keys
      PROVE  IF Stable(k) = {} THEN disk[k] = Warm[k]
                               ELSE \A o \in Stable(k) : disk[k] = outcome[o]
  <2>1. /\ engine = "exit"
        /\ disk[k] = IF result[k] \in Definitive THEN result[k] ELSE Warm[k]
    BY <1>1 DEF Control, EndOfRun, Store, DiskIsCache, EntriesAreVerdicts
  <2>2. \A o \in Stable(k) : outcome[o] = result[k]
    BY <1>1 DEF Ledger, ReportIsResult
  <2>3. ASSUME result[k] \in Definitive, Warm[k] = None PROVE Stable(k) # {}
    <3>1. urlState[k] = "done"
      BY <1>1, <2>3 DEF Ledger, ResultIffDone, Definitive, Verdict, Outcome
    <3>2. PICK j \in Network : KeyOf[j] = k /\ HasJob(j)
      BY <1>1, <2>3, <3>1 DEF Control, Store, JudgedByCacheOrJob
    <3>3. emitted[j] > 0
      BY <1>1, <2>1, <3>1, <3>2, CompletedIsReported
    <3> QED BY <1>1, <2>3, <3>2, <3>3 DEF Ledger, ReportIsResult
  <2>4. Warm[k] # None => result[k] \in {None, Warm[k]}
    BY <1>1 DEF Control, Store, JudgedByCacheOrJob
  <2>5. CASE Stable(k) = {}
    BY <2>1, <2>3, <2>4, <2>5 DEF Definitive, Verdict, Outcome
  <2>6. CASE Stable(k) # {}
    BY <1>1, <2>1, <2>2, <2>6
  <2> QED BY <2>5, <2>6
<1>2. TypeOK /\ Ledger /\ Control => DiskMatchesReport
  <2>1. DiskMatchesReport <=> (exit # None /\ ~saveErr =>
          \A k \in Keys : IF Stable(k) = {} THEN disk[k] = Warm[k]
                                           ELSE \A o \in Stable(k) : disk[k] = outcome[o])
    BY DEF DiskMatchesReport
  <2> QED BY <1>1, <2>1
<1> QED BY <1>2, ControlHolds, PTL

-----------------------------------------------------------------------------
(* The pipeline implements RunContract.                                    *)

\* Without a change of verdicts, reports, file and exit status, a step is a stutter.
LEMMA ContractStutter ==
  ASSUME UNCHANGED <<result, outcome, disk, exit>>
  PROVE  [Contract!Next]_Contract!vars
  BY DEF Contract!vars

LEMMA ContractReport ==
  ASSUME TypeOK, Ledger, Control, engine = "run", NEW o \in Network, emitted[o] = 0,
         urlState[KeyOf[o]] = "done", outcome' = [outcome EXCEPT ![o] = result[KeyOf[o]]],
         UNCHANGED <<result, disk, exit>>
  PROVE  Contract!Next
<1>1. exit = None /\ outcome[o] = None /\ result[KeyOf[o]] # None
  BY DEF Control, EndOfRun, Store, Ledger, ResultIffDone
<1> QED BY <1>1 DEF Contract!Next, Contract!Report

LEMMA ContractParse ==
  ASSUME TypeOK, Ledger, Control, ParseNext
  PROVE  [Contract!Next]_Contract!vars
<1> USE DEF parseFrame
<1>1. ASSUME NEW o \in Links, NEW v \in Outcome, HandleOffline(o, v)
      PROVE  [Contract!Next]_Contract!vars
  <2>1. exit = None /\ outcome[o] = None
    BY <1>1, ParsingIsRunning DEF HandleOffline, AtNextLink, Ledger, UnregisteredUnreported,
       Control, EndOfRun, Store
  <2>2. o \in Links \ Network /\ outcome' = [outcome EXCEPT ![o] = v]
        /\ UNCHANGED <<result, disk, exit>>
    BY <1>1 DEF HandleOffline, Add
  <2> QED BY <2>1, <2>2 DEF Contract!Next, Contract!ReportLocal
<1>2. ASSUME NEW o \in Network, AddCacheHit(o) PROVE [Contract!Next]_Contract!vars
  <2> DEFINE k == KeyOf[o]
  <2>1. exit = None /\ outcome[o] = None
    BY <1>2, ParsingIsRunning DEF AddCacheHit, AtNextLink, Ledger, UnregisteredUnreported,
       Control, EndOfRun, Store
  <2>2. result[k] = None /\ entries[k] = Warm[k] /\ Warm[k] # None
    BY <1>2 DEF AddCacheHit, TypeOK, Ledger, ResultIffDone, Control, Store,
       EntriesAreVerdicts, Definitive, Verdict, Outcome
  <2>3. /\ result' = [result EXCEPT ![k] = entries[k]]
        /\ outcome' = [outcome EXCEPT ![o] = entries[k]]
        /\ UNCHANGED <<disk, exit>>
    BY <1>2 DEF AddCacheHit, Add
  <2> QED BY <2>1, <2>2, <2>3 DEF Contract!Next, Contract!JudgeAndReport
<1>3. ASSUME NEW o \in Network, AddDone(o) PROVE [Contract!Next]_Contract!vars
  <2>1. /\ engine = "run" /\ emitted[o] = 0 /\ urlState[KeyOf[o]] = "done"
        /\ UNCHANGED <<result, disk, exit>>
    BY <1>3, ParsingIsRunning DEF AddDone, Ledger, UnregisteredUnreported
  <2>2. outcome' = [outcome EXCEPT ![o] = result[KeyOf[o]]]
    BY <1>3 DEF AddDone, Add, LateVerdict
  <2> QED BY <2>1, <2>2, ContractReport
<1>4. ASSUME NEW o \in Network,
             AddMiss(o) \/ AddLookup(o) \/ AddPending(o) \/ SendJob(o) \/ DropJob(o)
      PROVE  [Contract!Next]_Contract!vars
  BY <1>4, ContractStutter DEF AddMiss, AddLookup, AddPending, SendJob, DropJob
<1>5. ASSUME NEW s \in Sources, TakeSource(s) \/ StartParse(s) \/ ParseReturn(s)
      PROVE  [Contract!Next]_Contract!vars
  BY <1>5, ContractStutter DEF TakeSource, StartParse, ParseReturn
<1>6. CASE CloseJobs
  BY <1>6, ContractStutter DEF CloseJobs
<1> QED BY <1>1, <1>2, <1>3, <1>4, <1>5, <1>6 DEF ParseNext

LEMMA ContractExecute ==
  ASSUME TypeOK, Ledger, Control, ExecuteNext
  PROVE  [Contract!Next]_Contract!vars
<1> USE DEF executeFrame
<1>1. ASSUME NEW j \in Network, NEW v \in Answers, Execute(j, v)
      PROVE  Contract!Next
  <2> DEFINE k == KeyOf[j]
  <2>1. jobAt[j] = "checking" /\ HasJob(j) /\ k \in Keys /\ v \in Verdict
    BY <1>1, SMTT(30) DEF Execute, HasJob
  <2>2. result[k] = None /\ Warm[k] = None
    <3>1. urlState[k] # "done" BY <2>1 DEF Ledger, JobOfURL, Completed
    <3> QED BY <2>1, <3>1 DEF Ledger, ResultIffDone, Control, Store, JudgedByCacheOrJob
  <2>3. exit = None
    BY <2>1 DEF Control, EndOfRun, StagesEnd, Executing
  <2>4. result' = [result EXCEPT ![k] = v] /\ UNCHANGED <<outcome, disk, exit>>
    BY <1>1 DEF Execute
  <2> QED BY <2>1, <2>2, <2>3, <2>4 DEF Contract!Next, Contract!Judge
<1>2. ASSUME NEW j \in Network, NEW o \in Links, FanOut(j, o) PROVE Contract!Next
  <2>1. /\ jobAt[j] = "fanout" /\ o \in fanout[j] /\ HasJob(j)
        /\ UNCHANGED <<result, disk, exit>>
    BY <1>2 DEF FanOut, HasJob
  <2>2. o \in Network /\ KeyOf[o] = KeyOf[j] /\ emitted[o] = 0
    BY <2>1 DEF TypeOK, Ledger, FanoutUnreported
  <2>3. engine = "run" /\ urlState[KeyOf[o]] = "done"
    BY <2>1, <2>2 DEF Ledger, JobOfURL, Completed, Control, StagesEnd, Executing
  <2>4. outcome' = [outcome EXCEPT ![o] = result[KeyOf[o]]]
    BY <1>2, <2>2 DEF FanOut, Add
  <2> QED BY <2>1, <2>2, <2>3, <2>4, ContractReport
<1>3. ASSUME NEW j \in Network, Receive(j) \/ StartExecute(j) \/ ExecuteReturn(j)
      PROVE  [Contract!Next]_Contract!vars
  BY <1>3, ContractStutter DEF Receive, StartExecute, ExecuteReturn
<1> QED BY <1>1, <1>2, <1>3 DEF ExecuteNext

\* GreenMeansComplete in the next state is what allows the exit status.
LEMMA ContractEngine ==
  ASSUME TypeOK, Ledger, Control, EngineNext, GreenMeansComplete', TypeOK'
  PROVE  [Contract!Next]_Contract!vars
<1> USE DEF engineFrame
<1>1. ASSUME Save(TRUE) PROVE Contract!Next
  <2>1. exit = None /\ engine = "save" /\ UNCHANGED <<result, outcome, exit>>
    BY <1>1 DEF Save, Control, EndOfRun
  <2>2. disk' = [k \in Keys |-> IF result[k] \in Definitive THEN result[k] ELSE Warm[k]]
    BY <1>1 DEF Save, TypeOK, Control, Store, EntriesAreVerdicts
  <2> QED BY <2>1, <2>2 DEF Contract!Next, Contract!Persist
<1>2. ASSUME Judge PROVE Contract!Next
  <2>1. exit = None /\ exit' \in {0, 1, 2} /\ UNCHANGED <<result, outcome, disk>>
    BY <1>2 DEF Judge, TypeOK, Control, EndOfRun
  <2>2. exit' # 2 => \A o \in Links : outcome[o] \notin {None, "error"}
    BY <2>1 DEF GreenMeansComplete, Outcome
  <2>3. exit' # 2 => (exit' = 1 <=> Contract!Dead)
    BY <2>1 DEF GreenMeansComplete, Contract!Dead
  <2>4. Contract!Quit(exit')
    BY <2>1, <2>2, <2>3 DEF Contract!Quit
  <2> QED BY <2>1, <2>4 DEF Contract!Next
<1>3. CASE RunReturn \/ Save(FALSE) \/ Finish
  BY <1>3, ContractStutter DEF RunReturn, Save, Finish
<1> QED BY <1>1, <1>2, <1>3 DEF EngineNext

\* Without --max-time, or if no host has more links than its burst, what the user sees
\* of a run is a run of RunContract: one
\* verdict per URL, one report per link, a file that gains the stable verdicts,
\* and an exit status of 0 or 1 only over a complete report.
THEOREM RunKeepsItsContract ==
  ASSUME ~Hurried
  PROVE  Spec => ImplementsContract
<1>1. Init => Contract!Init
  BY DEF Init, Contract!Init
<1>2. ASSUME TypeOK, Ledger, Control, [Next]_vars, GreenMeansComplete', TypeOK'
      PROVE  [Contract!Next]_Contract!vars
  <2>1. CASE CrawlNext \/ Environment
    BY <2>1, ContractStutter DEF CrawlNext, Environment, CrawlSend, CrawlReturn,
       CrawlCancelled, GroupFail, Cancel, CrawlFail, ReadFail, crawlFrame, parseFrame,
       engineFrame
  <2>2. CASE DispatchNext
    BY <2>2, ContractStutter DEF DispatchNext, Dispatch, DispatcherDrained, ClosePacer,
       CloseReady, pacerFrame
  <2>3. CASE PacerNext
    BY <2>3, ContractStutter DEF PacerNext, PacerPark, PacerWait, CancelWakes, PacerExit,
       AcquireOK, PacerTake, AcquireCancelled, AcquireWouldExceedDeadline, PacerSend,
       PacerSendCancelled, PacerAbandon, pacerFrame
  <2>4. CASE UNCHANGED vars
    BY <2>4, ContractStutter DEF vars
  <2> QED BY <1>2, <2>1, <2>2, <2>3, <2>4, ContractParse, ContractExecute, ContractEngine
        DEF Next, System
<1>3. Spec => [](GreenMeansComplete /\ TypeOK /\ Ledger /\ Control)
  BY GreenRunsAreComplete, ControlHolds, ~Hurried, PTL
<1>4. (TypeOK /\ Ledger /\ Control) /\ [Next]_vars /\ (GreenMeansComplete /\ TypeOK)'
      => [Contract!Next]_Contract!vars
  BY <1>2
<1> QED BY <1>1, <1>3, <1>4, PTL DEF Spec, ImplementsContract, Contract!Spec
=============================================================================
