----------------------------- MODULE PipelineInv -----------------------------
(***************************************************************************)
(* The inductive invariant of Pipeline, in two parts: Ledger, about links, *)
(* URLs and jobs as data, and Control, about stages, channels, the cache   *)
(* and the end of the run.  PipelineProofs and PipelineControlProofs prove *)
(* that each step preserves them; TLC checks them first, on the instances  *)
(* of MCPipeline.                                                          *)
(***************************************************************************)
EXTENDS Pipeline

\* A job exists from the moment its parse goroutine holds it.
HasJob(j) == linkAt[j] = "send" \/ jobAt[j] # "none"
Completed(j) == jobAt[j] \in {"fanout", "finished"}

\* A result is there exactly when the record is done.
ResultIffDone == \A k \in Keys : urlState[k] = "done" <=> result[k] # None

\* At most one job per URL, only for a registered URL, and its record is done
\* exactly when the job is completed.
JobOfURL ==
  /\ \A j \in Network : HasJob(j) => /\ urlState[KeyOf[j]] # "absent"
                                     /\ Completed(j) <=> urlState[KeyOf[j]] = "done"
  /\ \A i, j \in Network : HasJob(i) /\ HasJob(j) /\ KeyOf[i] = KeyOf[j] => i = j
  /\ \A j \in Network : jobAt[j] # "none" => linkAt[j] = "handled"

\* A recorded occurrence waits for a pending record, unreported.
OccsUnreported ==
  \A k \in Keys : \A o \in occs[k] :
    /\ KeyOf[o] = k /\ urlState[k] = "pending"
    /\ emitted[o] = 0 /\ linkAt[o] \in {"send", "handled"}

\* So does an occurrence taken by a completed job and not yet fanned out.
FanoutUnreported ==
  \A j \in Network : \A o \in fanout[j] :
    /\ KeyOf[o] = KeyOf[j] /\ jobAt[j] = "fanout"
    /\ emitted[o] = 0 /\ linkAt[o] \in {"send", "handled"}

\* A link not yet registered is unreported.
UnregisteredUnreported ==
  \A o \in Links : linkAt[o] \in {"todo", "lookup"} => emitted[o] = 0

\* What is reported of a network link is the result of its URL's record.
ReportIsResult ==
  \A o \in Network : emitted[o] > 0 =>
    urlState[KeyOf[o]] = "done" /\ outcome[o] = result[KeyOf[o]]

Ledger ==
  /\ ResultIffDone /\ JobOfURL /\ OccsUnreported /\ FanoutUnreported
  /\ UnregisteredUnreported /\ ReportIsResult /\ AtMostOnce

-----------------------------------------------------------------------------
\* A source is parsed once all of its links are handled.
LinkProgress ==
  \A o \in Links :
    /\ linkAt[o] # "todo" => srcAt[SourceOf[o]] \in {"parsing", "parsed"}
    /\ srcAt[SourceOf[o]] = "parsed" => linkAt[o] = "handled"
    /\ linkAt[o] \in {"lookup", "send"} => o \in Network

\* A handled link is reported, recorded, or about to be fanned out; the sample of
\* a job not yet sent is recorded.
Accounted ==
  /\ \A o \in Links : linkAt[o] = "handled" =>
       \/ ExactlyReported(o)
       \/ o \in Network /\ (o \in occs[KeyOf[o]] \/ \E j \in Network : o \in fanout[j])
  /\ \A o \in Network : linkAt[o] = "send" => o \in occs[KeyOf[o]]

PendingHasJob ==
  \A k \in Keys : urlState[k] = "pending" => \E j \in Network : KeyOf[j] = k /\ HasJob(j)

\* Stages end in order, each when nothing is left for it to do.
StagesEnd ==
  /\ jobsClosed => ParseStageDone
  /\ dispatcher # "range" => jobsClosed /\ JobsIn("jobsCh") = {}
  /\ dispatcher = "done" => PacersReturned
  /\ \A h \in Hosts : closed[h] => dispatcher # "range"
  /\ engine # "run" => /\ crawler = "done" /\ jobsClosed /\ dispatcher = "done"
                       /\ \A j \in Network : jobAt[j] \notin Executing

\* A pacer has at most one job in hand, and a queued job has a pacer.
PacersOwnJobs ==
  /\ \A j \in Network : jobAt[j] = "pacing" => pacer[HostOf[j]] \in {"acquire", "send"}
  /\ \A i, j \in Network :
       jobAt[i] = "pacing" /\ jobAt[j] = "pacing" /\ HostOf[i] = HostOf[j] => i = j
  /\ \A j \in Network : jobAt[j] = "queue" => pacer[HostOf[j]] # "none"

\* Some pacer may have to wait for a token beyond the deadline: its host has more links
\* than tokens at the start.
Hurried == MaxTime /\ \E h \in Hosts : Cardinality(OfHost(h)) > Burst[h]

\* A job is given up, and a pacer leaves work behind, only in a run that is
\* cancelled, failed or hurried; and only cancellation makes an error.
Aborted == Done \/ Hurried

GivenUpOnlyIfAborted ==
  /\ \A j \in Network : jobAt[j] = "dropped" => Aborted
  /\ \A h \in Hosts : pacer[h] = "exited" => Aborted \/ Drained(h)
  /\ \A k \in Keys : result[k] = "error" => Done
  /\ \A o \in Links : emitted[o] > 0 => outcome[o] # None /\ (outcome[o] = "error" => Done)

\* The exit code is decided at the end, from what the run came to.
EndOfRun ==
  /\ exit # None => engine = "exit"
  /\ crawler = "done" => groupErr \/ SrcIn("uncrawled") = {}
  /\ engine \in {"judge", "exit"} => summary = ExitCode
  /\ exit \in {0, 1} => ~RunFailed /\ exit = summary

\* The in-memory cache is what the run found at its start, overwritten by the
\* definitive verdicts of the run.
EntriesAreVerdicts ==
  \A k \in Keys : entries[k] = IF result[k] \in Definitive THEN result[k] ELSE Warm[k]

\* A fresh entry decides its URL, without a job; any other URL is judged by a job.
JudgedByCacheOrJob ==
  \A k \in Keys :
    /\ Warm[k] # None => /\ result[k] \in {None, Warm[k]}
                         /\ \A j \in Network : KeyOf[j] = k => ~HasJob(j)
    /\ Warm[k] = None /\ urlState[k] = "done" =>
         \E j \in Network : KeyOf[j] = k /\ HasJob(j)

\* The report that is not marked Reused is the job's sample's, or, of a URL that
\* the cache decides, the first.
RealIsFirst ==
  \A o \in Network : emitted[o] > 0 /\ o \notin reused =>
    /\ Warm[KeyOf[o]] = None => HasJob(o)
    /\ Warm[KeyOf[o]] # None =>
         \A p \in Network :
           KeyOf[p] = KeyOf[o] /\ emitted[p] > 0 /\ p \notin reused => p = o

\* The file is the one of the start until a save succeeds, and then the cache.
DiskIsCache ==
  /\ engine \in {"run", "save"} => disk = Warm
  /\ engine \in {"finish", "judge", "exit"} /\ ~saveErr => disk = entries

Store ==
  /\ EntriesAreVerdicts /\ JudgedByCacheOrJob /\ RealIsFirst /\ DiskIsCache
  /\ \A o \in Links : emitted[o] = 0 => outcome[o] = None

Control ==
  /\ LinkProgress /\ Accounted /\ PendingHasJob /\ StagesEnd /\ PacersOwnJobs
  /\ GivenUpOnlyIfAborted /\ EndOfRun /\ Store
=============================================================================
