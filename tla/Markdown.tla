------------------------------ MODULE Markdown ------------------------------
(***************************************************************************)
(* What a Markdown file offers the checks: its link targets and its        *)
(* anchors.  A file is a sequence of lines, whose kinds stand for what     *)
(* goldmark and the patterns recognize in them.  A name is a base and      *)
(* numbers: <<"Foo">> is Foo and <<"foo", 1>> is foo-1.                    *)
(***************************************************************************)
EXTENDS Integers, FiniteSets, Sequences, SequencesExt, TLC

CONSTANTS
  LowerCase,   \* a function from the bases to their lower case
  Replaced,    \* what the replacementPatterns make of some destinations, a function
  None         \* no fragment, and no file

ASSUME LowerCaseAssumption ==
  \A b \in DOMAIN LowerCase :
    LowerCase[b] \in DOMAIN LowerCase /\ LowerCase[LowerCase[b]] = LowerCase[b]

\* A heading, an id, a link with its destination, or one of "fence" (three backquotes),
\* the directives "disable", "enable" and "next" (disable-next-line), and "text"; `off`
\* if the line carries disable-line.
Line(kind) == [kind |-> kind, off |-> FALSE]
Heading(name) == [kind |-> "heading", off |-> FALSE, name |-> name]
Id(name) == [kind |-> "id", off |-> FALSE, name |-> name]
LinkTo(dest) == [kind |-> "link", off |-> FALSE, dest |-> dest]
Off(line) == [line EXCEPT !.off = TRUE]

\* A destination as written: its scheme, the file its path resolves to, a fragment, and
\* `form` to tell spellings of one thing from another.
Dest(scheme, file, fragment, form) ==
  [scheme |-> scheme, file |-> file, fragment |-> fragment, form |-> form]

\* The lines at some places, in order.
Picked(lines, places) ==
  FoldLeftDomain(LAMBDA acc, i : IF i \in places THEN Append(acc, lines[i]) ELSE acc, <<>>, lines)
OfKind(lines, kind) == {i \in DOMAIN lines : lines[i].kind = kind}

-----------------------------------------------------------------------------
\* stripDisableDirectives, pass by pass.  The rest of a deleted region's last line stays
\* as an empty line.
Without(lines, deleted, directive) ==
  Picked([i \in DOMAIN lines |-> IF lines[i].kind = directive THEN Line("text") ELSE lines[i]],
         DOMAIN lines \ deleted)

\* From disable to the next enable, or to the end.
Blocks(lines) ==
  {i \in DOMAIN lines :
     \E j \in OfKind(lines, "disable") : j < i /\ (j..(i - 1)) \cap OfKind(lines, "enable") = {}}

\* disable-next-line and the line below it, which may be another directive: every second
\* one of those that follow each other.
Below(lines) ==
  {i \in DOMAIN lines :
     \E j \in 1..(i - 1) : /\ (i - j) % 2 = 1 /\ j..(i - 1) \subseteq OfKind(lines, "next")
                           /\ j - 1 \notin OfKind(lines, "next")}

WithLineOff(lines) == {i \in DOMAIN lines : lines[i].off}

Stripped(lines) ==
  LET blocks == Without(lines, Blocks(lines), "disable")
      below  == Without(blocks, Below(blocks), "next")
  IN  Picked(below, DOMAIN below \ WithLineOff(below))

\* ParseFile.
Cleaned(lines, ignoreDisable) == IF ignoreDisable THEN lines ELSE Stripped(lines)

-----------------------------------------------------------------------------
FencesUpTo(lines, i) == Cardinality(OfKind(lines, "fence") \cap 1..i)

\* reCodeBlock: fences pair up from the top; one without a partner opens nothing.
InBlock(lines) ==
  {i \in DOMAIN lines :
     \/ FencesUpTo(lines, i) % 2 = 1 /\ FencesUpTo(lines, Len(lines)) > FencesUpTo(lines, i)
     \/ FencesUpTo(lines, i) % 2 = 0 /\ lines[i].kind = "fence"}
\* For goldmark it opens a block to the end.
InCode(lines) == {i \in DOMAIN lines : FencesUpTo(lines, i) % 2 = 1}

\* What is left of the lines of a kind outside the code.
Outside(lines, code, kind) == Picked(lines, OfKind(lines, kind) \ code)

\* Slug: of a heading's text, only the case matters here.
Slug(name) == <<LowerCase[Head(name)]>> \o Tail(name)

\* headingSlugs: a counter per name, where a numbered name is registered with a counter
\* of its own.  Its mutant does not count on.
Counted(seen, section, n) ==
  [s \in DOMAIN seen \cup {section} |-> IF s = section THEN n ELSE seen[s]]
NumberedOnce(acc, section, n) ==
  LET numbered == Append(section, n) IN
  [seen |-> Counted(acc.seen, numbered, 0), out |-> Append(acc.out, numbered)]
Numbered(acc, section, n) ==
  LET numbered == Append(section, n) IN
  [seen |-> Counted(Counted(acc.seen, section, n), numbered, 0),
   out |-> Append(acc.out, numbered)]
Registered(acc, heading) ==
  LET section == Slug(heading.name) IN
  IF section \in DOMAIN acc.seen
  THEN Numbered(acc, section, acc.seen[section] + 1)
  ELSE [seen |-> Counted(acc.seen, section, 0), out |-> Append(acc.out, section)]
HeadingSlugs(lines) ==
  FoldLeft(Registered, [seen |-> <<>>, out |-> <<>>],
           Outside(lines, InBlock(lines), "heading")).out

\* The slugs, and the ids as they are written.
HtmlIDs(lines) == {l.name : l \in Range(Outside(lines, InBlock(lines), "id"))}
Anchors(lines) == Range(HeadingSlugs(lines)) \cup HtmlIDs(lines)

-----------------------------------------------------------------------------
\* transform, for all patterns in order.
Transform(dest) == IF dest \in DOMAIN Replaced THEN Replaced[dest] ELSE dest

\* classify; source is the file the link is in.
Classify(raw, dest, source) ==
  [raw |-> raw, url |-> dest, source |-> source,
   kind |-> CASE dest.scheme \in {"http", "mailto"} -> dest.scheme
              [] dest.scheme = "" /\ dest.file = None -> "hash"
              [] OTHER -> "file"]

\* extractTargets: one target per destination as written.
Targets(lines, source) ==
  LET links == Outside(lines, InCode(lines), "link")
      seen  == {i \in DOMAIN links : \E j \in 1..(i - 1) : links[j].dest = links[i].dest}
      once  == Picked(links, DOMAIN links \ seen)
  IN  [i \in DOMAIN once |-> Classify(once[i].dest, Transform(once[i].dest), source)]
=============================================================================
