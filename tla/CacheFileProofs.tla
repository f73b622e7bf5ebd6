-------------------------- MODULE CacheFileProofs --------------------------
(***************************************************************************)
(* Proofs about CacheFile for any number of runs, URLs and policies, any   *)
(* outcomes of checks and any TTL.                                         *)
(***************************************************************************)
EXTENDS CacheFile, TLAPS

USE ConstantsAssumption, NoImage

\* Where the entries of a map come from: checks under the policy, with an outcome to keep.
Honest(policy, map) ==
  \A k \in Keys : map[k] # None =>
    /\ [policy |-> policy, key |-> k, entry |-> map[k]] \in checks
    /\ Definitive(map[k].outcome)

\* Honesty is handed from the map of a run to its temp file, from there to the cache
\* file, and from there to the maps of other runs.
Provenance ==
  /\ \A r \in Runs : at[r] # "off" => Honest(PolicyOf[r], entries[r])
  /\ \A r \in Runs : at[r] = "rename" =>
       temp[r] \in Image /\ Honest(temp[r].policy, temp[r].entries)
  /\ IsImage(path) => Honest(path.policy, path.entries)

-----------------------------------------------------------------------------
\* Put keeps the types of the maps and of the checks.
LEMMA PutType ==
  ASSUME TypeOK, NEW r \in Runs, NEW k \in Keys, NEW o \in Outcomes, Put(r, k, o)
  PROVE  TypeOK'
<1> DEFINE e == [outcome |-> o, checkedAt |-> clock]
<1>1. e \in Entry BY DEF Entry, TypeOK
<1>2. [policy |-> PolicyOf[r], key |-> k, entry |-> e] \in Check BY <1>1 DEF Check
<1>3. checks' = checks \cup {[policy |-> PolicyOf[r], key |-> k, entry |-> e]} BY DEF Put
<1>4. checks' \subseteq Check BY <1>2, <1>3 DEF TypeOK
<1>5. [entries EXCEPT ![r][k] = e] \in [Runs -> Entries]
  <2> HIDE DEF e
  <2> QED BY <1>1 DEF Entries, TypeOK
<1>6. entries' \in [Runs -> Entries] BY <1>5 DEF Put, TypeOK
<1> QED BY <1>4, <1>6 DEF Put, TypeOK

\* Every variable keeps its type in every step.
LEMMA TypeStep == TypeOK /\ [Next]_vars => TypeOK'
<1> SUFFICES ASSUME TypeOK, [Next]_vars PROVE TypeOK'
    OBVIOUS
<1>a. Empty \in Entries BY DEF Empty, Entries
<1>1. ASSUME NEW r \in Runs, Open(r) PROVE TypeOK'
  <2>1. Usable(r) => path.entries \in Entries BY DEF Usable, IsImage, TypeOK, Image
  <2>2. entries' \in [Runs -> Entries] BY <1>1, <1>a, <2>1 DEF Open, TypeOK
  <2> QED BY <1>1, <2>2 DEF Open, TypeOK
<1>2. ASSUME NEW r \in Runs, NEW k \in Keys, Get(r, k) PROVE TypeOK'
  <2>1. entries[r][k] \in Entry BY <1>2 DEF Get, Fresh, TypeOK, Entries
  <2>2. [policy |-> PolicyOf[r], key |-> k, entry |-> entries[r][k]] \in Check BY <2>1 DEF Check
  <2>3. served' \in [check : Check, reader : Runs, time : Nat] BY <1>2, <2>2 DEF Get, TypeOK
  <2> QED BY <1>2, <2>3 DEF Get, TypeOK
<1>3. ASSUME NEW r \in Runs, NEW k \in Keys, NEW o \in Outcomes, Put(r, k, o) PROVE TypeOK'
  BY <1>3, PutType
<1>4. ASSUME NEW r \in Runs,
             SaveBegin(r) \/ CreateFails(r) \/ Create(r) \/ SaveFails(r) \/ Rename(r) \/ Crash(r)
      PROVE  TypeOK'
  BY <1>4 DEF SaveBegin, CreateFails, Create, SaveFails, Removed, Rename, Crash, TypeOK
<1>5. ASSUME NEW r \in Runs, Write(r) PROVE TypeOK'
  <2>1. [policy |-> PolicyOf[r], entries |-> entries[r]] \in Image BY DEF Image, TypeOK
  <2> QED BY <1>5, <2>1 DEF Write, TypeOK
<1>6. CASE Tick BY <1>6 DEF Tick, TypeOK
<1>7. CASE UNCHANGED vars BY <1>7 DEF vars, TypeOK
<1> QED BY <1>1, <1>2, <1>3, <1>4, <1>5, <1>6, <1>7 DEF Next, Run

\* Every variable of the cache keeps its type.
THEOREM TypeCorrect == Spec => []TypeOK
<1>1. Init => TypeOK BY DEF Init, TypeOK, Empty, Entries
<1> QED BY <1>1, TypeStep, PTL DEF Spec

-----------------------------------------------------------------------------
\* Save leaves no temp file behind, unless the process was killed in it.
THEOREM NothingLeftBehind == Spec => []NoLitter
<1>1. Init => NoLitter BY DEF Init, NoLitter
<1>2. TypeOK /\ NoLitter /\ [Next]_vars => NoLitter'
  BY DEF TypeOK, NoLitter, Next, Run, vars, Open, Get, Put, SaveBegin, CreateFails, Create, Write,
         SaveFails, Removed, Rename, RenameAt, Crash, Tick
<1> QED BY <1>1, <1>2, TypeCorrect, PTL DEF Spec

-----------------------------------------------------------------------------
\* More checks make no map less honest.
LEMMA HonestStays ==
  ASSUME NEW policy, NEW map, Honest(policy, map), checks \subseteq checks'
  PROVE  Honest(policy, map)'
BY DEF Honest

\* Every step keeps the provenance of all entries.
LEMMA ProvenanceStep == TypeOK /\ Provenance /\ [Next]_vars => Provenance'
<1> SUFFICES ASSUME TypeOK, Provenance, [Next]_vars PROVE Provenance'
    OBVIOUS
<1>1. ASSUME NEW r \in Runs, Open(r) PROVE Provenance'
  <2>1. Honest(PolicyOf[r], IF Usable(r) THEN path.entries ELSE Empty)
    BY DEF Provenance, Usable, Honest, Empty
  <2> QED BY <1>1, <2>1 DEF Open, Provenance, Honest, TypeOK, IsImage
<1>2. ASSUME NEW r \in Runs, NEW k \in Keys, Get(r, k) PROVE Provenance'
  BY <1>2 DEF Get, Provenance, Honest, IsImage
<1>3. ASSUME NEW r \in Runs, NEW k \in Keys, NEW o \in Outcomes, Put(r, k, o) PROVE Provenance'
  <2> DEFINE e == [outcome |-> o, checkedAt |-> clock]
  <2>1. checks' = checks \cup {[policy |-> PolicyOf[r], key |-> k, entry |-> e]} BY <1>3 DEF Put
  <2>2. Honest(PolicyOf[r], entries[r])'
    <3>1. CASE Definitive(o)
      <4>1. entries'[r] = [entries[r] EXCEPT ![k] = e]
        <5> HIDE DEF e
        <5> QED BY <1>3, <3>1 DEF Put, TypeOK, e
      <4>2. entries[r] \in [Keys -> Entry \cup {None}] BY DEF TypeOK, Entries
      <4>3. e.outcome = o OBVIOUS
      <4>4. Honest(PolicyOf[r], entries[r]) BY <1>3 DEF Put, Provenance
      <4> HIDE DEF e
      <4> QED BY <2>1, <3>1, <4>1, <4>2, <4>3, <4>4 DEF Honest
    <3>2. CASE ~Definitive(o) BY <1>3, <2>1, <3>2 DEF Put, Provenance, Honest
    <3> QED BY <3>1, <3>2
  <2>3. \A s \in Runs : s # r => entries'[s] = entries[s] BY <1>3 DEF Put, TypeOK
  <2>4. \A s \in Runs : at'[s] # "off" => Honest(PolicyOf[s], entries[s])' 
    <3> SUFFICES ASSUME NEW s \in Runs, at'[s] # "off" PROVE Honest(PolicyOf[s], entries[s])'
        OBVIOUS
    <3>1. CASE s = r BY <2>2, <3>1
    <3>2. CASE s # r BY <1>3, <2>1, <2>3, <3>2 DEF Put, Provenance, Honest
    <3> QED BY <3>1, <3>2
  <2>5. \A s \in Runs : at'[s] = "rename" =>
          temp'[s] \in Image /\ Honest(temp[s].policy, temp[s].entries)'
    BY <1>3, <2>1 DEF Put, Provenance, Honest
  <2>6. IsImage(path') => Honest(path.policy, path.entries)'
    BY <1>3, <2>1 DEF Put, Provenance, Honest, IsImage
  <2> QED BY <2>4, <2>5, <2>6 DEF Provenance, IsImage
<1>4. ASSUME NEW r \in Runs, SaveBegin(r) \/ CreateFails(r) \/ Create(r) \/ SaveFails(r) \/ Crash(r)
      PROVE  Provenance'
  BY <1>4 DEF SaveBegin, CreateFails, Create, SaveFails, Removed, Crash, TypeOK, Provenance,
              Honest, IsImage
<1>5. ASSUME NEW r \in Runs, Write(r) PROVE Provenance'
  <2>1. [policy |-> PolicyOf[r], entries |-> entries[r]] \in Image BY DEF Image, TypeOK
  <2>2. Honest(PolicyOf[r], entries[r]) BY <1>5 DEF Write, Provenance
  <2> QED BY <1>5, <2>1, <2>2 DEF Write, TypeOK, Provenance, Honest, IsImage
<1>6. ASSUME NEW r \in Runs, Rename(r) PROVE Provenance'
  BY <1>6 DEF Rename, RenameAt, TypeOK, Provenance, Honest, IsImage
<1>7. CASE Tick BY <1>7 DEF Tick, Provenance, Honest, IsImage
<1>8. CASE UNCHANGED vars BY <1>8 DEF vars, Provenance, Honest, IsImage
<1> QED BY <1>1, <1>2, <1>3, <1>4, <1>5, <1>6, <1>7, <1>8 DEF Next, Run

\* Every entry of every map and file is that of a check under its policy.
THEOREM EntriesAreFound == Spec => []Provenance
<1>1. Init => Provenance BY DEF Init, Provenance, IsImage
<1> QED BY <1>1, ProvenanceStep, TypeCorrect, PTL DEF Spec

\* What a run serves from the cache was found under its own policy, less than TTL ago.
THEOREM HitsAreHonest == Spec => []ServedIsHonest
<1>1. Init => ServedIsHonest BY DEF Init, ServedIsHonest
<1>2. TypeOK /\ Provenance /\ ServedIsHonest /\ [Next]_vars => ServedIsHonest'
  <2> SUFFICES ASSUME TypeOK, Provenance, ServedIsHonest, [Next]_vars PROVE ServedIsHonest'
      OBVIOUS
  <2>1. ASSUME NEW r \in Runs, NEW k \in Keys, Get(r, k) PROVE ServedIsHonest'
    BY <2>1 DEF Get, Fresh, Provenance, Honest, ServedIsHonest
  <2>2. ASSUME NEW r \in Runs, NEW k \in Keys, NEW o \in Outcomes, Put(r, k, o)
        PROVE  ServedIsHonest'
    BY <2>2 DEF Put, ServedIsHonest
  <2>3. CASE UNCHANGED <<served, checks>> BY <2>3 DEF ServedIsHonest
  <2> QED BY <2>1, <2>2, <2>3 DEF Next, Run, vars, Open, SaveBegin, CreateFails, Create, Write,
        SaveFails, Rename, Crash, Tick
<1> QED BY <1>1, <1>2, TypeCorrect, EntriesAreFound, PTL DEF Spec

\* The cache file only ever becomes a whole image of definitive outcomes of real checks.
THEOREM FileStaysWhole == Spec => FileIsWhole
<1> DEFINE Kept(o) == \/ o.state = "alive"
                      \/ o.state = "dead" /\ o.code \notin {0, 408, 425, 429} \cup 500..599
           Whole == /\ IsImage(path')
                    /\ \A k \in Keys : LET e == path'.entries[k] IN
                         e # None =>
                           /\ [policy |-> path'.policy, key |-> k, entry |-> e] \in checks
                           /\ Kept(e.outcome)
<1>1. ASSUME TypeOK, Provenance, [Next]_vars, path' # path PROVE Whole
  <2>1. PICK r \in Runs : Rename(r)
    BY <1>1 DEF Next, Run, vars, Open, Get, Put, SaveBegin, CreateFails, Create, Write, SaveFails,
       Crash, Tick
  <2>2. path' = temp[r] /\ path' \in Image /\ Honest(path'.policy, path'.entries)
    BY <1>1, <2>1 DEF Rename, RenameAt, Provenance
  <2>3. IsImage(path') BY <2>2 DEF IsImage
  <2>4. ASSUME NEW o, Definitive(o) PROVE Kept(o)
    BY <2>4 DEF Definitive, StableClientError
  <2> HIDE DEF Kept
  <2> QED BY <2>2, <2>3, <2>4 DEF Honest
<1>2. TypeOK /\ Provenance /\ [Next]_vars => [path' # path => Whole]_vars
  <2> HIDE DEF Whole
  <2> QED BY <1>1
<1> QED BY <1>2, TypeCorrect, EntriesAreFound, PTL DEF Spec, FileIsWhole
=============================================================================
