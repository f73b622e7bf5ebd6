------------------------------ MODULE CacheFile ------------------------------
(***************************************************************************)
(* internal/cache over several runs of the program, one after the other or *)
(* at the same time, that share one cache file: New, Get, Put and Save,    *)
(* with failures of the file system and with a crash between any two steps.*)
(***************************************************************************)
EXTENDS Integers

CONSTANTS
  Runs,        \* runs of the program
  Keys,        \* normalized URLs
  Policies,    \* fingerprints of the cache-relevant configuration
  PolicyOf,    \* the fingerprint of a run
  Outcomes,    \* what a check may end with: a state and a status code
  TTL,
  MaxClock,    \* bound: how long the model's clock runs
  None,
  Garbage      \* bytes that New does not accept as an envelope

ASSUME ConstantsAssumption ==
  /\ PolicyOf \in [Runs -> Policies]
  /\ Outcomes \subseteq [state : {"alive", "dead", "error"}, code : 0..599]
  /\ TTL \in Nat /\ MaxClock \in Nat
  /\ None # Garbage

Entry == [outcome : Outcomes, checkedAt : Nat]
Entries == [Keys -> Entry \cup {None}]
Empty == [k \in Keys |-> None]

\* A whole envelope.
Image == [policy : Policies, entries : Entries]

ASSUME NoImage == None \notin Image /\ Garbage \notin Image

VARIABLES
  clock,
  at,        \* where each run is
  entries,   \* each run's map
  judged,    \* the URLs each run has looked up or checked: once each (dedup)
  temp,      \* each run's temp file, or None
  path,      \* the cache file, or None
  served,    \* history: the last hit of Get
  checks     \* history: all outcomes of checks, with their policy and key

vars == <<clock, at, entries, judged, temp, path, served, checks>>

Check == [policy : Policies, key : Keys, entry : Entry]

TypeOK ==
  /\ clock \in Nat
  /\ at \in [Runs -> {"off", "open", "save", "write", "rename", "ended", "crashed"}]
  /\ entries \in [Runs -> Entries]
  /\ judged \in [Runs -> SUBSET Keys]
  /\ temp \in [Runs -> Image \cup {Garbage, None}]
  /\ path \in Image \cup {Garbage, None}
  /\ served \in [check : Check, reader : Runs, time : Nat] \cup {None}
  /\ checks \subseteq Check

Init ==
  /\ clock = 0
  /\ at = [r \in Runs |-> "off"]
  /\ entries = [r \in Runs |-> Empty]
  /\ judged = [r \in Runs |-> {}]
  /\ temp = [r \in Runs |-> None]
  /\ path \in {None, Garbage}
  /\ served = None /\ checks = {}

IsImage(f) == f \notin {None, Garbage}

\* New: no file, garbage or another policy start cold.  Its mutant reads any policy.
AnyPolicy(r) == IsImage(path)
Usable(r) == IsImage(path) /\ path.policy = PolicyOf[r]

Open(r) ==
  /\ at[r] = "off"
  /\ entries' = [entries EXCEPT ![r] = IF Usable(r) THEN path.entries ELSE Empty]
  /\ at' = [at EXCEPT ![r] = "open"]
  /\ UNCHANGED <<judged, clock, temp, path, served, checks>>

\* Get: an entry checked less than TTL ago.  Its mutant is late by one.
FreshTooLong(e) == e # None /\ clock - e.checkedAt <= TTL
Fresh(e) == e # None /\ clock - e.checkedAt < TTL

Get(r, k) ==
  /\ at[r] = "open" /\ k \notin judged[r] /\ Fresh(entries[r][k])
  /\ judged' = [judged EXCEPT ![r] = @ \cup {k}]
  /\ served' = [check |-> [policy |-> PolicyOf[r], key |-> k, entry |-> entries[r][k]],
                reader |-> r, time |-> clock]
  /\ UNCHANGED <<clock, at, entries, temp, path, checks>>

\* stableClientError.  Its mutant forgets the transient ones.
AnyClientError(code) == code \in 400..499
StableClientError(code) == code \in 400..499 \ {408, 425, 429}

Definitive(o) == o.state = "alive" \/ (o.state = "dead" /\ StableClientError(o.code))

\* A URL that the cache did not have is checked, and Put takes the outcome or not.
Put(r, k, o) ==
  LET e == [outcome |-> o, checkedAt |-> clock] IN
  /\ at[r] = "open" /\ k \notin judged[r] /\ ~Fresh(entries[r][k])
  /\ judged' = [judged EXCEPT ![r] = @ \cup {k}]
  /\ entries' = IF Definitive(o) THEN [entries EXCEPT ![r][k] = e] ELSE entries
  /\ checks' = checks \cup {[policy |-> PolicyOf[r], key |-> k, entry |-> e]}
  /\ UNCHANGED <<clock, at, temp, path, served>>

\* The pipeline is over: nothing changes the map any more.
SaveBegin(r) ==
  /\ at[r] = "open"
  /\ at' = [at EXCEPT ![r] = "save"]
  /\ UNCHANGED <<judged, clock, entries, temp, path, served, checks>>

\* os.CreateTemp fails.
CreateFails(r) ==
  /\ at[r] = "save"
  /\ at' = [at EXCEPT ![r] = "ended"]
  /\ UNCHANGED <<judged, clock, entries, temp, path, served, checks>>

Create(r) ==
  /\ at[r] = "save"
  /\ temp' = [temp EXCEPT ![r] = Garbage]
  /\ at' = [at EXCEPT ![r] = "write"]
  /\ UNCHANGED <<judged, clock, entries, path, served, checks>>

\* The rename waits for the write: its mutant renames what was created.
RenameEarly == {"write", "rename"}
RenameAt == {"rename"}

\* Its mutant encodes the map without the envelope.
WriteBare(r) ==
  /\ at[r] = "write"
  /\ temp' = [temp EXCEPT ![r] = entries[r]]
  /\ at' = [at EXCEPT ![r] = "rename"]
  /\ UNCHANGED <<judged, clock, entries, path, served, checks>>
Write(r) ==
  /\ at[r] = "write"
  /\ temp' = [temp EXCEPT ![r] = [policy |-> PolicyOf[r], entries |-> entries[r]]]
  /\ at' = [at EXCEPT ![r] = "rename"]
  /\ UNCHANGED <<judged, clock, entries, path, served, checks>>

\* What the deferred os.Remove leaves.  Its mutant has no defer.
NotRemoved(r) == temp
Removed(r) == [temp EXCEPT ![r] = None]

\* Chmod, Write, Close or Rename fails: the deferred Remove cleans up.
SaveFails(r) ==
  /\ at[r] \in {"write", "rename"}
  /\ temp' = Removed(r)
  /\ at' = [at EXCEPT ![r] = "ended"]
  /\ UNCHANGED <<judged, clock, entries, path, served, checks>>

Rename(r) ==
  /\ at[r] \in RenameAt
  /\ path' = temp[r]
  /\ temp' = [temp EXCEPT ![r] = None]
  /\ at' = [at EXCEPT ![r] = "ended"]
  /\ UNCHANGED <<judged, clock, entries, served, checks>>

\* The process is killed: what it wrote stays as it is.
Crash(r) ==
  /\ at[r] \in {"open", "save", "write", "rename"}
  /\ at' = [at EXCEPT ![r] = "crashed"]
  /\ UNCHANGED <<judged, clock, entries, temp, path, served, checks>>

Tick ==
  /\ clock < MaxClock
  /\ clock' = clock + 1
  /\ UNCHANGED <<judged, at, entries, temp, path, served, checks>>

Run(r) ==
  \/ Open(r) \/ SaveBegin(r) \/ CreateFails(r) \/ Create(r) \/ Write(r) \/ SaveFails(r)
  \/ Rename(r) \/ Crash(r)
  \/ \E k \in Keys :
       \/ Get(r, k)
       \/ \E o \in Outcomes : Put(r, k, o)

Next == (\E r \in Runs : Run(r)) \/ Tick
Spec == Init /\ [][Next]_vars
-----------------------------------------------------------------------------
(* Properties.                                                             *)

\* What Get serves was found by a check of that URL under the reader's own policy,
\* less than TTL before, whichever runs wrote the file in between.
ServedIsHonest ==
  served # None =>
    /\ served.check \in checks
    /\ served.check.policy = PolicyOf[served.reader]
    /\ served.time - served.check.entry.checkedAt < TTL

\* The cache file only ever gets whole images whose entries are definitive
\* outcomes of real checks: no crash, failed write or concurrent Save tears it.
FileIsWhole ==
  [][path' # path =>
       /\ IsImage(path')
       /\ \A k \in Keys : LET e == path'.entries[k] IN
            e # None =>
              /\ [policy |-> path'.policy, key |-> k, entry |-> e] \in checks
              /\ \/ e.outcome.state = "alive"
                 \/ e.outcome.state = "dead" /\ e.outcome.code \notin {0, 408, 425, 429} \cup 500..599]_vars

\* Save leaves no temp file behind unless the process was killed inside it.
NoLitter == \A r \in Runs : temp[r] # None => at[r] \in {"write", "rename", "crashed"}
=============================================================================
