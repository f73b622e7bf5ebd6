------------------------------ MODULE Pipeline ------------------------------
(***************************************************************************)
(* The streaming pipeline of internal/pipeline and the engine around it:   *)
(*                                                                         *)
(*   crawl -> filesCh -> parse workers -> jobsCh -> dispatcher             *)
(*         -> one pacer per host -> readyCh -> executor pool -> collector  *)
(*                                                                         *)
(* A source item, a link and a job each have a stage.  A channel is the    *)
(* set of items in its stage, so it keeps its capacity and forgets its     *)
(* order: no property here depends on the order, and every FIFO order is   *)
(* among the behaviours.  A job is identified with its Sample, the link    *)
(* whose first sight created it.                                           *)
(***************************************************************************)
EXTENDS Naturals, FiniteSets

CONSTANTS
  Sources,       \* source items the crawl finds: files, stdin, bare URLs
  BareURLs,      \* the source items that are a URL argument: nothing to read
  Links,         \* link occurrences: the Targets of those sources
  Offline,       \* links decided without the network: file, hash, mailto, ignored
  Keys,          \* normalized URLs
  Hosts,         \* host names as written in the links
  SourceOf,      \* the source item of a link
  KeyOf,         \* model.NormalizeKey of a network link
  HostOf,        \* hostOf of a network link
  Warm,          \* the fresh cache entry of a key when the run starts, or None
  ParseWorkers, URLWorkers,   \* errgroup limits
  FilesCap, JobsCap, ReadyCap,  \* channel capacities: 64, 256 and 2*URLWorkers
  Burst,         \* the burst of a host's limiter, which newHostState makes at least 1
  Answers,       \* the verdicts a network check may come to
  MaxTime,       \* is the run's context given a deadline (--max-time)?
  None

Network == Links \ Offline

\* A verdict of a check: StateAlive; StateDead for a stable reason; StateDead
\* for a transient reason (which the cache refuses); StateError.
Definitive == {"alive", "dead"}
Verdict == Definitive \cup {"flaky", "error"}
\* A local link can also be StateIgnored.
Outcome == Verdict \cup {"ignored"}

ASSUME ConstantsAssumption ==
  /\ BareURLs \subseteq Sources
  /\ Offline \subseteq Links
  /\ SourceOf \in [Links -> Sources]
  /\ KeyOf \in [Network -> Keys]
  /\ HostOf \in [Network -> Hosts]
  /\ None \notin Outcome /\ None \notin {0, 1, 2}
  /\ Warm \in [Keys -> Definitive \cup {None}]
  /\ ParseWorkers \in Nat \ {0} /\ URLWorkers \in Nat \ {0}
  /\ FilesCap \in Nat \ {0} /\ JobsCap \in Nat \ {0} /\ ReadyCap \in Nat \ {0}
  /\ Answers \subseteq Verdict
  /\ MaxTime \in BOOLEAN

ASSUME TokensAssumption == IsFiniteSet(Links) /\ Burst \in [Hosts -> Nat \ {0}]

VARIABLES
  crawler,    \* stage 1 goroutine
  srcAt,      \* where each source item is
  jobsClosed, \* has the parse stage closed jobsCh?
  linkAt,     \* where handleTarget is with each link
  urlState,   \* dedup.seen[k]: absent, pending or done
  occs,       \* dedup.seen[k].occs
  result,     \* dedup.seen[k].result
  jobAt,      \* where each job is
  dispatcher, \* stage 3 goroutine
  pacer,      \* each hostPacer's goroutine
  closed,     \* each hostPacer's done flag
  afterFunc,  \* is the cancellation callback of the pacer still to fire?
  fanout,     \* occurrences a completed job has still to emit
  emitted,    \* how many results the collector got for each link
  outcome,    \* the last of them
  reused,     \* links whose result is marked Reused
  entries,    \* the in-memory cache
  disk,       \* the cache file
  cancelled,  \* the caller's context is done (signal, or --max-time expired)
  groupErr,   \* the errgroup has an error (and so cancelled its context)
  engine,     \* where engine.Run is
  saveErr, summary, exit

crawlVars == <<crawler, srcAt>>
dedupVars == <<urlState, occs, result>>
pacerVars == <<pacer, closed, afterFunc>>
reportVars == <<emitted, outcome, reused>>
ctxVars == <<cancelled, groupErr>>
engineVars == <<disk, engine, saveErr, summary, exit>>
vars == <<crawlVars, jobsClosed, linkAt, dedupVars, jobAt, dispatcher, pacerVars,
          fanout, reportVars, entries, ctxVars, engineVars>>

SrcStage == {"uncrawled", "filesCh", "taken", "parsing", "parsed", "unreadable"}
LinkStage == {"todo", "lookup", "send", "handled"}
JobStage == {"none", "jobsCh", "queue", "pacing", "readyCh", "hand", "checking",
             "fanout", "finished", "dropped"}
PacerStage == {"none", "check", "parking", "waiting", "acquire", "send", "exited"}

TypeOK ==
  /\ crawler \in {"run", "failing", "done"}
  /\ srcAt \in [Sources -> SrcStage]
  /\ jobsClosed \in BOOLEAN
  /\ linkAt \in [Links -> LinkStage]
  /\ urlState \in [Keys -> {"absent", "pending", "done"}]
  /\ occs \in [Keys -> SUBSET Network]
  /\ result \in [Keys -> Verdict \cup {None}]
  /\ jobAt \in [Network -> JobStage]
  /\ dispatcher \in {"range", "close", "done"}
  /\ pacer \in [Hosts -> PacerStage]
  /\ closed \in [Hosts -> BOOLEAN]
  /\ afterFunc \in [Hosts -> BOOLEAN]
  /\ fanout \in [Network -> SUBSET Network]
  /\ emitted \in [Links -> Nat]
  /\ outcome \in [Links -> Outcome \cup {None}]
  /\ reused \subseteq Links
  /\ entries \in [Keys -> Definitive \cup {None}]
  /\ disk \in [Keys -> Definitive \cup {None}]
  /\ cancelled \in BOOLEAN
  /\ groupErr \in BOOLEAN
  /\ engine \in {"run", "save", "finish", "judge", "exit"}
  /\ saveErr \in BOOLEAN
  /\ summary \in {0, 1}
  /\ exit \in {0, 1, 2, None}

Init ==
  /\ crawler = "run"
  /\ srcAt = [s \in Sources |-> "uncrawled"]
  /\ jobsClosed = FALSE
  /\ linkAt = [o \in Links |-> "todo"]
  /\ urlState = [k \in Keys |-> "absent"]
  /\ occs = [k \in Keys |-> {}]
  /\ result = [k \in Keys |-> None]
  /\ jobAt = [j \in Network |-> "none"]
  /\ dispatcher = "range"
  /\ pacer = [h \in Hosts |-> "none"]
  /\ closed = [h \in Hosts |-> FALSE]
  /\ afterFunc = [h \in Hosts |-> FALSE]
  /\ fanout = [j \in Network |-> {}]
  /\ emitted = [o \in Links |-> 0]
  /\ outcome = [o \in Links |-> None]
  /\ reused = {}
  /\ entries = Warm /\ disk = Warm
  /\ cancelled = FALSE /\ groupErr = FALSE
  /\ engine = "run" /\ saveErr = FALSE /\ summary = 0 /\ exit = None

\* ctx.Err() # nil for the pipeline's goroutines: errgroup.WithContext derives
\* their context from the caller's and cancels it on the first error.
Done == cancelled \/ groupErr

SrcIn(stage) == {s \in Sources : srcAt[s] = stage}
JobsIn(stage) == {j \in Network : jobAt[j] = stage}
Executing == {"readyCh", "hand", "checking", "fanout"}
Queue(h) == {j \in JobsIn("queue") : HostOf[j] = h}
filesClosed == crawler # "run"

\* Collector.Add of one result for link o.
Add(o, v, isReused) ==
  /\ emitted' = [emitted EXCEPT ![o] = @ + 1]
  /\ outcome' = [outcome EXCEPT ![o] = v]
  /\ reused' = IF isReused THEN reused \cup {o} ELSE reused

-----------------------------------------------------------------------------
(* Stage 1: crawl.  `send` is a select between the channel and ctx.Done(). *)

crawlFrame == <<jobsClosed, linkAt, dedupVars, jobAt, dispatcher, pacerVars,
                fanout, reportVars, entries, cancelled, engineVars>>

CrawlSend(s) ==
  /\ crawler = "run" /\ srcAt[s] = "uncrawled"
  /\ Cardinality(SrcIn("filesCh")) < FilesCap
  /\ srcAt' = [srcAt EXCEPT ![s] = "filesCh"]
  /\ UNCHANGED <<crawler, groupErr, crawlFrame>>

CrawlReturn ==
  /\ crawler = "run" /\ SrcIn("uncrawled") = {}
  /\ crawler' = "done"
  /\ UNCHANGED <<srcAt, groupErr, crawlFrame>>

\* An input that does not exist, a bad glob or a directory that cannot be walked.
CrawlFail ==
  /\ crawler = "run"
  /\ crawler' = "failing"
  /\ UNCHANGED <<srcAt, groupErr, crawlFrame>>

\* send returns ctx.Err() instead of delivering the next item.
CrawlCancelled ==
  /\ crawler = "run" /\ SrcIn("uncrawled") # {} /\ Done
  /\ crawler' = "failing"
  /\ UNCHANGED <<srcAt, groupErr, crawlFrame>>

\* errgroup: filesCh was closed by the defer, then the error cancels the group.
GroupFail ==
  /\ crawler = "failing"
  /\ crawler' = "done"
  /\ groupErr' = TRUE
  /\ UNCHANGED <<srcAt, crawlFrame>>

-----------------------------------------------------------------------------
(* Stage 2: the parse stage ranges over filesCh and starts at most         *)
(* ParseWorkers goroutines; pg.Go blocks with the item in hand.            *)

parseFrame == <<crawler, dispatcher, pacerVars, fanout,
                entries, ctxVars, engineVars>>

TakeSource(s) ==
  /\ srcAt[s] = "filesCh" /\ SrcIn("taken") = {}
  /\ srcAt' = [srcAt EXCEPT ![s] = "taken"]
  /\ UNCHANGED <<jobsClosed, linkAt, dedupVars, jobAt, reportVars, parseFrame>>

ParseSlot == Cardinality(SrcIn("parsing")) < ParseWorkers

StartParse(s) ==
  /\ srcAt[s] = "taken" /\ ParseSlot
  /\ srcAt' = [srcAt EXCEPT ![s] = "parsing"]
  /\ UNCHANGED <<jobsClosed, linkAt, dedupVars, jobAt, reportVars, parseFrame>>

\* The file cannot be read: srcErrors is incremented and a StateError result
\* for the file itself (not for a link) goes to the collector.
ReadFail(s) ==
  /\ srcAt[s] = "taken" /\ ParseSlot /\ s \notin BareURLs
  /\ srcAt' = [srcAt EXCEPT ![s] = "unreadable"]
  /\ UNCHANGED <<jobsClosed, linkAt, dedupVars, jobAt, reportVars, parseFrame>>

\* A parse goroutine handles its links one at a time.
LinksOf(s) == {o \in Links : SourceOf[o] = s}
AtNextLink(o) ==
  /\ linkAt[o] = "todo" /\ srcAt[SourceOf[o]] = "parsing"
  /\ \A p \in LinksOf(SourceOf[o]) : linkAt[p] \in {"todo", "handled"}

\* Ignored links, file, hash and mailto links, and all links when external
\* checks are off: decided on the spot.
HandleOffline(o, v) ==
  /\ o \in Offline /\ AtNextLink(o)
  /\ Add(o, v, FALSE)
  /\ linkAt' = [linkAt EXCEPT ![o] = "handled"]
  /\ UNCHANGED <<srcAt, jobsClosed, dedupVars, jobAt, parseFrame>>

\* dedup.add, in one critical section of the map: the first sight of the key, and
\* no fresh cache entry.  Its mutants: a second worker misses too because lookup
\* and insertion are two critical sections; the cache is not consulted.
MissUnlocked(k) == urlState[k] \in {"absent", "pending"} /\ entries[k] = None
MissUncached(k) == urlState[k] = "absent"
Miss(k) == urlState[k] = "absent" /\ entries[k] = None

\* dedup.add under the record's lock: still pending?  Its mutant does not look.
PendingUnchecked(k) == urlState[k] # "absent"
Pending(k) == urlState[k] = "pending"

\* dedup.add, the verdict of a done record.  Its mutant asks the cache.
CachedVerdict(k) == entries[k]
LateVerdict(k) == result[k]

\* dedup.add, first sight of the key, fresh cache entry.
AddCacheHit(o) ==
  LET k == KeyOf[o] IN
  /\ o \in Network /\ AtNextLink(o)
  /\ urlState[k] = "absent" /\ entries[k] # None
  /\ urlState' = [urlState EXCEPT ![k] = "done"]
  /\ result' = [result EXCEPT ![k] = entries[k]]
  /\ Add(o, entries[k], FALSE)
  /\ linkAt' = [linkAt EXCEPT ![o] = "handled"]
  /\ UNCHANGED <<srcAt, jobsClosed, occs, jobAt, parseFrame>>

\* dedup.add, first sight of the key, cache miss: the goroutine holds a job.
AddMiss(o) ==
  LET k == KeyOf[o] IN
  /\ o \in Network /\ AtNextLink(o)
  /\ Miss(k)
  /\ urlState' = [urlState EXCEPT ![k] = "pending"]
  /\ occs' = [occs EXCEPT ![k] = {o}]
  /\ linkAt' = [linkAt EXCEPT ![o] = "send"]
  /\ UNCHANGED <<srcAt, jobsClosed, result, jobAt, reportVars, parseFrame>>

\* dedup.add, later sight: the map's lock is released before the record's is taken.
AddLookup(o) ==
  /\ o \in Network /\ AtNextLink(o)
  /\ urlState[KeyOf[o]] # "absent"
  /\ linkAt' = [linkAt EXCEPT ![o] = "lookup"]
  /\ UNCHANGED <<srcAt, jobsClosed, dedupVars, jobAt, reportVars, parseFrame>>

AddDone(o) ==
  /\ linkAt[o] = "lookup" /\ urlState[KeyOf[o]] = "done"
  /\ Add(o, LateVerdict(KeyOf[o]), TRUE)
  /\ linkAt' = [linkAt EXCEPT ![o] = "handled"]
  /\ UNCHANGED <<srcAt, jobsClosed, dedupVars, jobAt, parseFrame>>

AddPending(o) ==
  /\ linkAt[o] = "lookup" /\ Pending(KeyOf[o])
  /\ occs' = [occs EXCEPT ![KeyOf[o]] = @ \cup {o}]
  /\ linkAt' = [linkAt EXCEPT ![o] = "handled"]
  /\ UNCHANGED <<srcAt, jobsClosed, urlState, result, jobAt, reportVars, parseFrame>>

SendJob(o) ==
  /\ linkAt[o] = "send" /\ Cardinality(JobsIn("jobsCh")) < JobsCap
  /\ jobAt' = [jobAt EXCEPT ![o] = "jobsCh"]
  /\ linkAt' = [linkAt EXCEPT ![o] = "handled"]
  /\ UNCHANGED <<srcAt, jobsClosed, dedupVars, reportVars, parseFrame>>

\* `_ = send(ctx, jobsCh, job)`: a cancelled send drops the job.
DropJob(o) ==
  /\ linkAt[o] = "send" /\ Done
  /\ jobAt' = [jobAt EXCEPT ![o] = "dropped"]
  /\ linkAt' = [linkAt EXCEPT ![o] = "handled"]
  /\ UNCHANGED <<srcAt, jobsClosed, dedupVars, reportVars, parseFrame>>

ParseReturn(s) ==
  /\ srcAt[s] = "parsing"
  /\ \A o \in LinksOf(s) : linkAt[o] = "handled"
  /\ srcAt' = [srcAt EXCEPT ![s] = "parsed"]
  /\ UNCHANGED <<jobsClosed, linkAt, dedupVars, jobAt, reportVars, parseFrame>>

\* filesCh is closed and drained and pg.Wait() has returned.  Its mutant does not
\* wait for the parse goroutines.
FilesDrained ==
  filesClosed /\ \A s \in Sources : srcAt[s] \notin {"filesCh", "taken"}
ParseStageDone ==
  filesClosed /\ \A s \in Sources : srcAt[s] \notin {"filesCh", "taken", "parsing"}

CloseJobs ==
  /\ ~jobsClosed /\ ParseStageDone
  /\ jobsClosed' = TRUE
  /\ UNCHANGED <<srcAt, linkAt, dedupVars, jobAt, reportVars, parseFrame>>

-----------------------------------------------------------------------------
(* Stage 3: the dispatcher and the host pacers.  A pacer that decides to   *)
(* wait holds its mutex until it is in the condition's wait list           *)
(* ("parking"); enqueue and close need that mutex, the cancellation        *)
(* callback does not, so its Broadcast can come too early.                 *)

pacerFrame == <<crawlVars, jobsClosed, linkAt, dedupVars, fanout,
                reportVars, entries, ctxVars, engineVars>>

MutexFree(h) == pacer[h] # "parking"

\* enqueue's Signal and close's Broadcast: at most one goroutine waits.  Its
\* mutant wakes nobody.
StillWaiting(h) == pacer[h]
Woken(h) == IF pacer[h] = "waiting" THEN "check" ELSE pacer[h]

\* pacerSet.dispatch: the first job of a host creates and starts its pacer.
Dispatch(j) ==
  LET h == HostOf[j] IN
  /\ dispatcher = "range" /\ jobAt[j] = "jobsCh" /\ MutexFree(h)
  /\ jobAt' = [jobAt EXCEPT ![j] = "queue"]
  /\ pacer' = [pacer EXCEPT ![h] = IF @ = "none" THEN "check" ELSE Woken(h)]
  /\ afterFunc' = [afterFunc EXCEPT ![h] = @ \/ pacer[h] = "none"]
  /\ UNCHANGED <<dispatcher, closed, pacerFrame>>

DispatcherDrained ==
  /\ dispatcher = "range" /\ jobsClosed /\ JobsIn("jobsCh") = {}
  /\ dispatcher' = "close"
  /\ UNCHANGED <<jobAt, pacerVars, pacerFrame>>

ClosePacer(h) ==
  /\ dispatcher = "close" /\ pacer[h] # "none" /\ ~closed[h] /\ MutexFree(h)
  /\ closed' = [closed EXCEPT ![h] = TRUE]
  /\ pacer' = [pacer EXCEPT ![h] = Woken(h)]
  /\ UNCHANGED <<jobAt, dispatcher, afterFunc, pacerFrame>>

\* closeAndWait has closed every pacer and seen it exit.  Its mutant does not wait
\* for the exits.
PacersClosed == \A h \in Hosts : pacer[h] = "none" \/ closed[h]
PacersReturned == \A h \in Hosts : pacer[h] = "none" \/ (closed[h] /\ pacer[h] = "exited")

CloseReady ==
  /\ dispatcher = "close" /\ PacersReturned
  /\ dispatcher' = "done"
  /\ UNCHANGED <<jobAt, pacerVars, pacerFrame>>

readyClosed == dispatcher = "done"

PacerPark(h) ==
  /\ pacer[h] = "check" /\ Queue(h) = {} /\ ~closed[h] /\ ~Done
  /\ pacer' = [pacer EXCEPT ![h] = "parking"]
  /\ UNCHANGED <<jobAt, dispatcher, closed, afterFunc, pacerFrame>>

PacerWait(h) ==
  /\ pacer[h] = "parking"
  /\ pacer' = [pacer EXCEPT ![h] = "waiting"]
  /\ UNCHANGED <<jobAt, dispatcher, closed, afterFunc, pacerFrame>>

\* context.AfterFunc(ctx, p.cond.Broadcast): once, and without the mutex.
CancelWakes(h) ==
  /\ Done /\ afterFunc[h] /\ pacer[h] # "exited"
  /\ afterFunc' = [afterFunc EXCEPT ![h] = FALSE]
  /\ pacer' = [pacer EXCEPT ![h] = Woken(h)]
  /\ UNCHANGED <<jobAt, dispatcher, closed, pacerFrame>>

\* No job, and none to come.
Drained(h) == Queue(h) = {} /\ closed[h]

PacerExit(h) ==
  /\ pacer[h] = "check" /\ (Done \/ Drained(h))
  /\ pacer' = [pacer EXCEPT ![h] = "exited"]
  /\ UNCHANGED <<jobAt, dispatcher, closed, afterFunc, pacerFrame>>

PacerTake(h, j) ==
  /\ pacer[h] = "check" /\ j \in Queue(h) /\ ~Done
  /\ jobAt' = [jobAt EXCEPT ![j] = "pacing"]
  /\ pacer' = [pacer EXCEPT ![h] = "acquire"]
  /\ UNCHANGED <<dispatcher, closed, afterFunc, pacerFrame>>

\* HostState.Acquire returns nil: a token, and no cooldown.
AcquireOK(h) ==
  /\ pacer[h] = "acquire"
  /\ pacer' = [pacer EXCEPT ![h] = "send"]
  /\ UNCHANGED <<jobAt, dispatcher, closed, afterFunc, pacerFrame>>

\* The pacer returns with a job in hand; what is still queued stays queued.
PacerAbandon(h, j) ==
  /\ jobAt[j] = "pacing" /\ HostOf[j] = h
  /\ jobAt' = [jobAt EXCEPT ![j] = "dropped"]
  /\ pacer' = [pacer EXCEPT ![h] = "exited"]
  /\ UNCHANGED <<dispatcher, closed, afterFunc, pacerFrame>>

AcquireCancelled(h, j) == pacer[h] = "acquire" /\ Done /\ PacerAbandon(h, j)

\* The jobs that got a token of their host.  The bucket is full at first, and so it
\* is not empty before there are Burst of them.
OfHost(h) == {j \in Network : HostOf[j] = h}
Granted(h) == OfHost(h) \cap UNION {JobsIn(stage) : stage \in Executing \cup {"finished"}}

\* rate.Limiter.Wait fails at once, before the context is done, when the next
\* token would come after the context's deadline.
AcquireWouldExceedDeadline(h, j) ==
  /\ pacer[h] = "acquire" /\ MaxTime
  /\ Cardinality(Granted(h)) >= Burst[h]
  /\ PacerAbandon(h, j)

PacerSend(h, j) ==
  /\ pacer[h] = "send" /\ jobAt[j] = "pacing" /\ HostOf[j] = h
  /\ Cardinality(JobsIn("readyCh")) < ReadyCap
  /\ jobAt' = [jobAt EXCEPT ![j] = "readyCh"]
  /\ pacer' = [pacer EXCEPT ![h] = "check"]
  /\ UNCHANGED <<dispatcher, closed, afterFunc, pacerFrame>>

PacerSendCancelled(h, j) == pacer[h] = "send" /\ Done /\ PacerAbandon(h, j)

-----------------------------------------------------------------------------
(* Stage 4: the executor pool.                                             *)

executeFrame == <<crawlVars, jobsClosed, linkAt, dispatcher,
                  pacerVars, ctxVars, engineVars>>

Receive(j) ==
  /\ jobAt[j] = "readyCh" /\ JobsIn("hand") = {}
  /\ jobAt' = [jobAt EXCEPT ![j] = "hand"]
  /\ UNCHANGED <<dedupVars, fanout, reportVars, entries, executeFrame>>

\* A free slot of the pool.  Its mutant keeps one spare.
ExecuteSlotSpare == Cardinality(JobsIn("checking") \cup JobsIn("fanout")) + 1 < URLWorkers
ExecuteSlot == Cardinality(JobsIn("checking") \cup JobsIn("fanout")) < URLWorkers

StartExecute(j) ==
  /\ jobAt[j] = "hand" /\ ExecuteSlot
  /\ jobAt' = [jobAt EXCEPT ![j] = "checking"]
  /\ UNCHANGED <<dedupVars, fanout, reportVars, entries, executeFrame>>

\* cache.Definitive.  Its mutant keeps transient failures too.
NotAnError(v) == v # "error"
Cacheable(v) == v \in Definitive

\* Mutant of Execute: the sample is reported here, and is among the occurrences.
ExecuteReportsSample(j, v) ==
  LET k == KeyOf[j] IN
  /\ jobAt[j] = "checking"
  /\ v = "error" => Done
  /\ entries' = IF Cacheable(v) THEN [entries EXCEPT ![k] = v] ELSE entries
  /\ urlState' = [urlState EXCEPT ![k] = "done"]
  /\ result' = [result EXCEPT ![k] = v]
  /\ fanout' = [fanout EXCEPT ![j] = occs[k]]
  /\ occs' = [occs EXCEPT ![k] = {}]
  /\ jobAt' = [jobAt EXCEPT ![j] = "fanout"]
  /\ Add(j, v, FALSE)
  /\ UNCHANGED executeFrame

\* HTTPChecker.Check returns v (StateError only under cancellation), the cache
\* takes it if definitive, and dedup.complete marks the record done and takes
\* its occurrences, all under the record's lock.
Execute(j, v) ==
  LET k == KeyOf[j] IN
  /\ jobAt[j] = "checking"
  /\ v = "error" => Done
  /\ entries' = IF Cacheable(v) THEN [entries EXCEPT ![k] = v] ELSE entries
  /\ urlState' = [urlState EXCEPT ![k] = "done"]
  /\ result' = [result EXCEPT ![k] = v]
  /\ fanout' = [fanout EXCEPT ![j] = occs[k]]
  /\ occs' = [occs EXCEPT ![k] = {}]
  /\ jobAt' = [jobAt EXCEPT ![j] = "fanout"]
  /\ UNCHANGED <<reportVars, executeFrame>>

\* One iteration of the loop that emits one result per occurrence.
FanOut(j, o) ==
  /\ jobAt[j] = "fanout" /\ o \in fanout[j]
  /\ fanout' = [fanout EXCEPT ![j] = @ \ {o}]
  /\ Add(o, result[KeyOf[j]], o # j)
  /\ UNCHANGED <<dedupVars, jobAt, entries, executeFrame>>

ExecuteReturn(j) ==
  /\ jobAt[j] = "fanout" /\ fanout[j] = {}
  /\ jobAt' = [jobAt EXCEPT ![j] = "finished"]
  /\ UNCHANGED <<dedupVars, fanout, reportVars, entries, executeFrame>>

-----------------------------------------------------------------------------
(* engine.Run around the pipeline, and the process's exit code.            *)

engineFrame == <<crawlVars, jobsClosed, linkAt, dedupVars, jobAt, dispatcher,
                 pacerVars, fanout, reportVars, entries, groupErr>>

\* g.Wait(): the four stages have returned.
RunReturn ==
  /\ engine = "run"
  /\ crawler = "done" /\ jobsClosed /\ readyClosed
  /\ \A j \in Network : jobAt[j] \notin Executing
  /\ engine' = "save"
  /\ UNCHANGED <<cancelled, disk, saveErr, summary, exit, engineFrame>>

Save(ok) ==
  /\ engine = "save"
  /\ disk' = IF ok THEN entries ELSE disk
  /\ saveErr' = ~ok
  /\ engine' = "finish"
  /\ UNCHANGED <<cancelled, summary, exit, engineFrame>>

\* summarize's ExitCode (ErrorFailsRun off).  Its mutant counts.
DeadLinks == {o \in Links : outcome[o] \in {"dead", "flaky"}}
DeadCount == Cardinality(DeadLinks)
ExitCode == IF DeadLinks # {} THEN 1 ELSE 0

\* Collector.Finish.
Finish ==
  /\ engine = "finish"
  /\ summary' = ExitCode
  /\ engine' = "judge"
  /\ UNCHANGED <<cancelled, disk, saveErr, exit, engineFrame>>

\* engine.Run returns an error: of the pipeline, of the context, for unread
\* sources, or of the save.  Its mutant forgets the context.
sourceErrors == \E s \in Sources : srcAt[s] = "unreadable"
PipelineFailed == groupErr \/ sourceErrors \/ saveErr
RunFailed == groupErr \/ cancelled \/ sourceErrors \/ saveErr

\* An error of engine.Run makes the process exit 2.
Judge ==
  /\ engine = "judge"
  /\ exit' = IF RunFailed THEN 2 ELSE summary
  /\ engine' = "exit"
  /\ UNCHANGED <<cancelled, disk, saveErr, summary, engineFrame>>

\* SIGINT, SIGTERM or the --max-time deadline, at any moment of the run.
Cancel ==
  /\ ~cancelled /\ engine # "exit"
  /\ cancelled' = TRUE
  /\ UNCHANGED <<engineVars, engineFrame>>

-----------------------------------------------------------------------------
CrawlNext ==
  \/ \E s \in Sources : CrawlSend(s)
  \/ CrawlReturn \/ CrawlCancelled \/ GroupFail

ParseNext ==
  \/ \E s \in Sources : TakeSource(s) \/ StartParse(s) \/ ParseReturn(s)
  \/ \E o \in Links : \E v \in Outcome \ {"flaky", "error"} : HandleOffline(o, v)
  \/ \E o \in Network :
       \/ AddCacheHit(o) \/ AddMiss(o) \/ AddLookup(o) \/ AddDone(o) \/ AddPending(o)
       \/ SendJob(o) \/ DropJob(o)
  \/ CloseJobs

DispatchNext ==
  \/ \E j \in Network : Dispatch(j)
  \/ DispatcherDrained
  \/ \E h \in Hosts : ClosePacer(h)
  \/ CloseReady

PacerNext ==
  \E h \in Hosts :
    \/ PacerPark(h) \/ PacerWait(h) \/ CancelWakes(h) \/ PacerExit(h) \/ AcquireOK(h)
    \/ \E j \in Network :
         \/ PacerTake(h, j) \/ AcquireCancelled(h, j) \/ AcquireWouldExceedDeadline(h, j)
         \/ PacerSend(h, j) \/ PacerSendCancelled(h, j)

ExecuteNext ==
  \E j \in Network :
    \/ Receive(j) \/ StartExecute(j) \/ ExecuteReturn(j)
    \/ \E v \in Answers : Execute(j, v)
    \/ \E o \in Links : FanOut(j, o)

EngineNext == RunReturn \/ (\E ok \in BOOLEAN : Save(ok)) \/ Finish \/ Judge

System == CrawlNext \/ ParseNext \/ DispatchNext \/ PacerNext \/ ExecuteNext \/ EngineNext

Environment == Cancel \/ CrawlFail \/ (\E s \in Sources : ReadFail(s))

Next == System \/ Environment

\* Some runnable goroutine runs; timers fire and requests end (every attempt
\* has a timeout, retries are bounded, every rate is positive).
Spec == Init /\ [][Next]_vars /\ WF_vars(System)
-----------------------------------------------------------------------------
(* Properties.                                                             *)

ExactlyReported(o) == emitted[o] = 1

\* A link occurrence gets at most one result, however the appends of
\* dedup.add interleave with the snapshot of dedup.complete.
AtMostOnce == \A o \in Links : emitted[o] <= 1

\* A process that exits 0 or 1 has read every source item, has reported every
\* link exactly once and none of them as an error, and exits 1 exactly when
\* one of them is dead (engine.Run's "must not report success", Collector
\* summarize).
GreenMeansComplete ==
  exit \in {0, 1} =>
    /\ \A s \in Sources : srcAt[s] = "parsed"
    /\ \A o \in Links : ExactlyReported(o) /\ outcome[o] \in Outcome \ {"error"}
    /\ exit = 1 <=> \E o \in Links : outcome[o] \in {"dead", "flaky"}

\* All the occurrences of a URL that are reported get the same verdict, whether
\* from the cache, from the fan-out of complete, or late from the record.
VerdictAgreement ==
  \A o, p \in Network :
    KeyOf[o] = KeyOf[p] /\ emitted[o] > 0 /\ emitted[p] > 0 => outcome[o] = outcome[p]

JobsOf(k) == {j \in Network : KeyOf[j] = k /\ jobAt[j] # "none"}

\* A URL costs at most one job and none when the cache has it fresh, and of its
\* reported occurrences at most one claims to be the real check (not Reused).
OneCheckPerURL ==
  \A k \in Keys :
    /\ \A i, j \in JobsOf(k) : i = j
    /\ Warm[k] # None => JobsOf(k) = {}
    /\ \A o, p \in Network :
         /\ KeyOf[o] = k /\ emitted[o] > 0 /\ o \notin reused
         /\ KeyOf[p] = k /\ emitted[p] > 0 /\ p \notin reused
         => o = p

\* Nobody is at, or on the way to, a send on a closed channel (Go would panic):
\* no parse worker on jobsCh, no pacer on readyCh; and engine.Run saves and
\* reports only when no goroutine can still touch the cache or the collector.
NoSendOnClosed ==
  /\ jobsClosed => \A o \in Links : linkAt[o] # "send"
  /\ readyClosed => \A h \in Hosts : pacer[h] \notin {"acquire", "send"}
  /\ engine # "run" => \A j \in Network : fanout[j] = {} /\ jobAt[j] \notin Executing

\* What a completed save leaves on disk is exactly what was reported: a stable
\* verdict of this run, and otherwise the entry the run started with.
DiskMatchesReport ==
  exit # None /\ ~saveErr =>
    \A k \in Keys :
      LET stable == {o \in Network : /\ KeyOf[o] = k
                                     /\ emitted[o] > 0 /\ outcome[o] \in Definitive}
      IN  IF stable = {} THEN disk[k] = Warm[k]
                         ELSE \A o \in stable : disk[k] = outcome[o]

\* No link of a source that was read gets lost: when the pipeline has returned,
\* it is reported, or the job of its URL was given up by a cancelled send or by
\* a pacer that returned early (handleTarget, hostPacer.run).
NoLinkLost ==
  engine # "run" =>
    \A o \in Links : srcAt[SourceOf[o]] = "parsed" =>
      \/ ExactlyReported(o)
      \/ o \in Network /\ \E j \in JobsOf(KeyOf[o]) : jobAt[j] \in {"dropped", "queue"}

\* The run ends, whatever is cancelled or fails and whenever: no goroutine waits
\* for ever on a bounded channel, a full pool or a condition nobody signals.
Termination == <>(engine = "exit")

Contract == INSTANCE RunContract WITH verdict <- result, report <- outcome, store <- disk

\* The pipeline, its engine and its cache keep the promise of RunContract.
ImplementsContract == Contract!Spec
=============================================================================
