----------------------------- MODULE RunContract -----------------------------
(***************************************************************************)
(* What a run of the checker promises to its user, without goroutines,     *)
(* channels, hosts or jobs: each URL gets one verdict; each link is        *)
(* reported once, with its URL's verdict; stable verdicts of the run are   *)
(* what the cache file gains; and exit status 0 or 1 is given only to a    *)
(* run that reported every link.  Pipeline implements it.                  *)
(***************************************************************************)
EXTENDS Naturals

CONSTANTS Links, Network, Keys, KeyOf, Warm, Verdict, Definitive, Outcome, None

VARIABLES
  verdict,   \* the verdict on each URL, None before there is one
  report,    \* what the report says of each link, None if nothing
  store,     \* the cache file
  exit       \* the process's exit status, None while it runs

vars == <<verdict, report, store, exit>>

Init ==
  /\ verdict = [k \in Keys |-> None]
  /\ report = [o \in Links |-> None]
  /\ store = Warm
  /\ exit = None

\* A URL is judged once: by the cache if that is fresh, and else by a check.
Judge(k, v) ==
  /\ exit = None /\ verdict[k] = None
  /\ Warm[k] # None => v = Warm[k]
  /\ verdict' = [verdict EXCEPT ![k] = v]
  /\ UNCHANGED <<report, store, exit>>

\* A network link is reported once, with its URL's verdict.
Report(o) ==
  /\ exit = None /\ report[o] = None /\ verdict[KeyOf[o]] # None
  /\ report' = [report EXCEPT ![o] = verdict[KeyOf[o]]]
  /\ UNCHANGED <<verdict, store, exit>>

\* The cache judges and reports in one step.
JudgeAndReport(o) ==
  LET k == KeyOf[o] IN
  /\ exit = None /\ report[o] = None /\ verdict[k] = None /\ Warm[k] # None
  /\ verdict' = [verdict EXCEPT ![k] = Warm[k]]
  /\ report' = [report EXCEPT ![o] = Warm[k]]
  /\ UNCHANGED <<store, exit>>

\* A local link is judged on its own.
ReportLocal(o, v) ==
  /\ exit = None /\ report[o] = None
  /\ report' = [report EXCEPT ![o] = v]
  /\ UNCHANGED <<verdict, store, exit>>

Persist ==
  /\ exit = None
  /\ store' = [k \in Keys |-> IF verdict[k] \in Definitive THEN verdict[k] ELSE Warm[k]]
  /\ UNCHANGED <<verdict, report, exit>>

Dead == \E o \in Links : report[o] \in {"dead", "flaky"}

\* 2 says that the run failed; 0 and 1 are verdicts on all of its links.
Quit(code) ==
  /\ exit = None
  /\ code # 2 => \A o \in Links : report[o] \notin {None, "error"}
  /\ code = 1 => Dead
  /\ code = 0 => ~Dead
  /\ exit' = code
  /\ UNCHANGED <<verdict, report, store>>

Next ==
  \/ \E k \in Keys, v \in Verdict : Judge(k, v)
  \/ \E o \in Network : Report(o) \/ JudgeAndReport(o)
  \/ \E o \in Links \ Network, v \in Outcome : ReportLocal(o, v)
  \/ Persist
  \/ \E code \in {0, 1, 2} : Quit(code)

Spec == Init /\ [][Next]_vars
=============================================================================
