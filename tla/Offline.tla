------------------------------ MODULE Offline ------------------------------
(***************************************************************************)
(* The parse workers and the links they decide themselves: ignored, local  *)
(* sections, mail addresses, files and sections of other files, with the   *)
(* cache of other files' anchors, while somebody edits the files.  Which   *)
(* links go on to the network is module Pipeline's.                        *)
(***************************************************************************)
EXTENDS Markdown

CONSTANTS
  Workers,        \* ParseWorkers
  Files,          \* the files that are linked to
  Pages,          \* those of them with a Markdown name
  Worlds,         \* [disk, sources, cfg]: the files, which are crawled, and the settings:
                  \* [ignored, ignoreDisable, checkFragments, checkExternal]
  Edits,          \* <<file, content>>: what somebody may do to a file; Gone deletes it
  MaxEdits,       \* bound: how many edits during the run
  Gone,           \* a file that os.Stat does not find
  Deliverable     \* the mail destinations that are valid (and have an MX, if that is checked)

ASSUME OfflineAssumption ==
  /\ Pages \subseteq Files /\ IsFiniteSet(Workers) /\ MaxEdits \in Nat
  /\ \A w \in Worlds : DOMAIN w.disk = Files /\ w.sources \subseteq Files

\* All that a file may ever be is lines: the text of a heading is a base and numbers, and
\* links to files are to these files.
Contents == (UNION {Range(w.disk) : w \in Worlds}) \cup {e[2] : e \in Edits}
ASSUME ContentsAssumption ==
  \A d \in Contents \ {Gone} :
    /\ d \in Seq(Range(d))
    /\ \A l \in Range(d) :
         /\ l.kind = "heading" => /\ l.name = <<Head(l.name)>> \o Tail(l.name)
                                  /\ Tail(l.name) \in Seq(Nat)
         /\ l.kind = "link" => LET t == Classify(l.dest, Transform(l.dest), None)
                               IN  t.kind = "file" => t.url.file \in Files

VARIABLES
  cfg,
  disk,         \* contents of the files, or Gone
  edits,
  had,          \* history: all that a file was during the run
  filesCh,      \* the sources no worker has taken yet
  work,         \* what each worker has in hand
  anchorCache,  \* anchors of the files that were read for others
  results,      \* Collector: [target, state, status]
  reads,        \* history: how often a file's anchors were read for the cache
  unread        \* history: the links whose file could not be read for its anchors

vars == <<cfg, disk, edits, had, filesCh, work, anchorCache, results, reads, unread>>

Idle == [pc |-> "idle"]

Init ==
  /\ \E w \in Worlds : disk = w.disk /\ filesCh = w.sources /\ cfg = w.cfg
  /\ edits = 0
  /\ had = [f \in Files |-> {disk[f]}]
  /\ work = [w \in Workers |-> Idle]
  /\ anchorCache = <<>>
  /\ results = {}
  /\ reads = [f \in Files |-> 0]
  /\ unread = {}

Result(target, state, status) == [target |-> target, state |-> state, status |-> status]
Collect(r) == results' = results \cup {r}

TakeSource(w, f) ==
  /\ work[w] = Idle /\ f \in filesCh
  /\ filesCh' = filesCh \ {f}
  /\ work' = [work EXCEPT ![w] = [pc |-> "read", source |-> f]]
  /\ UNCHANGED <<cfg, disk, edits, had, anchorCache, results, reads, unread>>

\* parseSource: one file error, or the file's targets and its own anchors.  os.ReadFile may
\* fail on a file that is there: for its permissions, or for want of descriptors.
ReadSource(w) ==
  /\ work[w].pc = "read"
  /\ LET f == work[w].source IN
     \/ /\ Collect(Result(f, "error", None))
        /\ work' = [work EXCEPT ![w] = Idle]
     \/ /\ disk[f] # Gone
        /\ LET lines == Cleaned(disk[f], cfg.ignoreDisable) IN
             work' = [work EXCEPT ![w] = [pc |-> "handle", todo |-> Targets(lines, f),
                                          own |-> Anchors(lines)]]
        /\ UNCHANGED results
  /\ UNCHANGED <<cfg, disk, edits, had, filesCh, anchorCache, reads, unread>>

\* CheckHash: the fragment as it is written, or in lower case, is an anchor.
CheckHash(t, anchors) ==
  IF t.url.fragment \in anchors \/ Slug(t.url.fragment) \in anchors
  THEN Result(t, "alive", 200) ELSE Result(t, "dead", 404)
CheckMailto(t) ==
  IF t.url \in Deliverable THEN Result(t, "alive", 200) ELSE Result(t, "dead", 400)
CheckFile(t, content) ==
  IF content = Gone THEN Result(t, "dead", 400) ELSE Result(t, "alive", 200)

Target(w) == Head(work[w].todo)
After(w) == [work[w] EXCEPT !.pc = "handle", !.todo = Tail(@)]
At(w, pc) == work[w].pc = pc /\ (pc = "handle" => work[w].todo # <<>>)

\* A decided link is collected, and the worker goes on with the next.
Decide(w, r) == Collect(r) /\ work' = [work EXCEPT ![w] = After(w)]

\* handleTarget, for the links that are decided without a look at a file.
IsIgnored(t) == {t.raw, t.url} \cap cfg.ignored # {}
Handle(w) ==
  /\ At(w, "handle")
  /\ LET t == Target(w) IN
     \/ IsIgnored(t) /\ Decide(w, Result(t, "ignored", None))
     \/ /\ ~IsIgnored(t)
        /\ \/ t.kind = "hash" /\ Decide(w, CheckHash(t, work[w].own))
           \/ t.kind = "mailto" /\ Decide(w, CheckMailto(t))
           \/ t.kind = "http" /\ ~cfg.checkExternal /\ Decide(w, Result(t, "ignored", None))
           \/ /\ t.kind = "http" /\ cfg.checkExternal
              /\ work' = [work EXCEPT ![w] = After(w)] /\ UNCHANGED results
  /\ UNCHANGED <<cfg, disk, edits, had, filesCh, anchorCache, reads, unread>>

\* checkFileTarget: the file, and whether to look for a section.
HasSection(t) ==
  /\ t.kind = "file" /\ cfg.checkFragments
  /\ t.url.fragment # None /\ t.url.file \in Pages
Stat(w) ==
  /\ At(w, "handle") /\ ~IsIgnored(Target(w)) /\ Target(w).kind = "file"
  /\ LET t == Target(w) IN
     \/ /\ disk[t.url.file] = Gone \/ ~HasSection(t)
        /\ Decide(w, CheckFile(t, disk[t.url.file]))
     \/ /\ disk[t.url.file] # Gone /\ HasSection(t)
        /\ work' = [work EXCEPT ![w].pc = "lookup"] /\ UNCHANGED results
  /\ UNCHANGED <<cfg, disk, edits, had, filesCh, anchorCache, reads, unread>>

\* fileAnchors: the first critical section...
Lookup(w) ==
  /\ At(w, "lookup")
  /\ LET t == Target(w) IN
     IF t.url.file \in DOMAIN anchorCache
     THEN Decide(w, CheckHash(t, anchorCache[t.url.file]))
     ELSE work' = [work EXCEPT ![w].pc = "open"] /\ UNCHANGED results
  /\ UNCHANGED <<cfg, disk, edits, had, filesCh, anchorCache, reads, unread>>

\* ...the file; its link stays alive if it cannot be read, gone since Stat or not...
OpenFail(w) ==
  /\ At(w, "open")
  /\ Decide(w, Result(Target(w), "alive", 200))
  /\ unread' = unread \cup {Target(w)}
  /\ UNCHANGED <<cfg, disk, edits, had, filesCh, anchorCache, reads>>

Open(w) ==
  /\ At(w, "open")
  /\ LET f == Target(w).url.file IN
     /\ disk[f] # Gone
     /\ work' = [work EXCEPT ![w] = [pc |-> "store", todo |-> @.todo, own |-> @.own,
                                     anchors |-> Anchors(disk[f])]]
     /\ reads' = [reads EXCEPT ![f] = @ + 1]
  /\ UNCHANGED <<cfg, disk, edits, had, filesCh, anchorCache, results, unread>>

\* ...and the second.  One mutant keeps nothing, the other takes the anchors at hand.
With(f, anchors) ==
  [g \in DOMAIN anchorCache \cup {f} |-> IF g = f THEN anchors ELSE anchorCache[g]]
KeptNothing(w) == anchorCache
KeptOwn(w) == With(Target(w).url.file, work[w].own)
Kept(w) == With(Target(w).url.file, work[w].anchors)
Store(w) ==
  /\ At(w, "store")
  /\ anchorCache' = Kept(w)
  /\ Collect(CheckHash(Target(w), work[w].anchors))
  /\ work' = [work EXCEPT ![w] = [pc |-> "handle", todo |-> Tail(@.todo), own |-> @.own]]
  /\ UNCHANGED <<cfg, disk, edits, had, filesCh, reads, unread>>

ParseReturn(w) ==
  /\ work[w].pc = "handle" /\ work[w].todo = <<>>
  /\ work' = [work EXCEPT ![w] = Idle]
  /\ UNCHANGED <<cfg, disk, edits, had, filesCh, anchorCache, results, reads, unread>>

Edit(f, content) ==
  /\ edits < MaxEdits /\ edits' = edits + 1
  /\ disk' = [disk EXCEPT ![f] = content]
  /\ had' = [had EXCEPT ![f] = @ \cup {content}]
  /\ UNCHANGED <<cfg, filesCh, work, anchorCache, results, reads, unread>>

Next ==
  \/ \E w \in Workers :
       \/ \E f \in Files : TakeSource(w, f)
       \/ ReadSource(w) \/ Handle(w) \/ Stat(w) \/ Lookup(w) \/ OpenFail(w) \/ Open(w)
       \/ Store(w) \/ ParseReturn(w)
  \/ \E e \in Edits : Edit(e[1], e[2])

Spec == Init /\ [][Next]_vars
-----------------------------------------------------------------------------
(* Properties.                                                             *)

\* What a link comes to when its file is d all the time.
Verdict(t, d) ==
  CASE t.kind = "hash" -> CheckHash(t, Anchors(Cleaned(d, cfg.ignoreDisable)))
    [] d # Gone /\ HasSection(t) -> CheckHash(t, Anchors(d))
    [] OTHER -> CheckFile(t, d)

Decided(kind) == {r \in results : r.state \in {"alive", "dead"} /\ r.target.kind = kind}

\* Whatever is edited during the run and whoever read the anchors first, each
\* verdict on a file or a section is one that some content of the file in this
\* run deserves; only a link whose file was there for os.Stat and failed os.ReadFile is
\* alive without a look at the section (handleTarget, checkFileTarget, fileAnchors).
VerdictsAreTrue ==
  /\ \A r \in Decided("hash") :
       \E d \in had[r.target.source] \ {Gone} : r = Verdict(r.target, d)
  /\ \A r \in Decided("file") :
       LET f == r.target.url.file IN
       \/ \E d \in had[f] : r = Verdict(r.target, d)
       \/ r.target \in unread /\ \E d \in had[f] \ {Gone} : r = CheckFile(r.target, d)

\* The anchor cache is filled outside its lock, so that a file may be read more
\* than once; but no worker reads it twice (fileAnchors).
ReadsBounded == \A f \in Files : reads[f] <= Cardinality(Workers)

\* No heading is literally numbered, and no code block is cut by a disabled region.
Ordinary(d) ==
  /\ \A i \in OfKind(d, "heading") : Len(d[i].name) = 1
  /\ Cardinality(OfKind(d, "fence")) = Cardinality(OfKind(Cleaned(d, cfg.ignoreDisable), "fence"))

\* A section that a link of the same file finds, links from other files find too,
\* although only for the former the disabled regions are left out, headings with
\* their numbers included (ParseFile, fileAnchors).
SelfLinkAgrees ==
  \A r \in Decided("hash"), s \in Decided("file") :
    /\ r.target.source = s.target.url.file /\ had[r.target.source] = {disk[r.target.source]}
    /\ r.target.url.fragment = s.target.url.fragment
    /\ disk[r.target.source] # Gone /\ Ordinary(disk[r.target.source])
    /\ r.state = "alive"
    => s.state = "alive"

\* The slug of a heading is its text, with the number of equal headings above it
\* if there are any, unless some heading is literally numbered; and even then two
\* headings share a slug only if such a one comes before a heading of its base
\* (headingSlugs).
SlugsAreNumbered ==
  \A f \in Files : disk[f] # Gone =>
    LET heads == Outside(disk[f], InBlock(disk[f]), "heading")
        base == [i \in DOMAIN heads |-> Slug(heads[i].name)]
        slugs == HeadingSlugs(disk[f])
        Above(i) == Cardinality({j \in 1..(i - 1) : base[j] = base[i]})
    IN  /\ (\A i \in DOMAIN base : Len(base[i]) = 1) =>
             \A i \in DOMAIN base :
               slugs[i] = IF Above(i) = 0 THEN base[i] ELSE Append(base[i], Above(i))
        /\ \A i, j \in DOMAIN slugs : i < j /\ slugs[i] = slugs[j] =>
             \E k, l \in DOMAIN base : k < l /\ Len(base[k]) > 1 /\ base[l] = Front(base[k])
=============================================================================
