----------------------------- MODULE MCOffline -----------------------------
(***************************************************************************)
(* Small instances of Offline for TLC: a page that is linked to, in every  *)
(* form of a few lines, and two pages with links to it.                    *)
(***************************************************************************)
EXTENDS Offline

CONSTANTS page, near, far, image

MCLowerCase == [b \in {"foo", "Foo", "FOO"} |-> "foo"]
Foo == <<"foo">>
Foo1 == <<"foo", 1>>

Own(fragment) == LinkTo(Dest("", None, fragment, 1))
To(file, fragment) == LinkTo(Dest("", file, fragment, 1))
Again(file, fragment) == LinkTo(Dest("file", file, fragment, 2))
Old == Dest("http", None, None, 1)
MCReplaced == Old :> Dest("", page, Foo, 3)
Mail == Dest("mailto", None, None, 1)
BadMail == Dest("mailto", None, None, 2)
Remote == Dest("http", None, None, 2)
Skipped == Dest("http", None, None, 3)

PageLines == {Heading(<<"Foo">>), Heading(Foo1), Off(Heading(Foo)), Id(<<"Foo">>), Line("disable"),
              Line("enable"), Line("next"), Line("fence")}
Pages3 == SeqOf(PageLines, 3)
Pages4 == {s \in SeqOf({Heading(Foo), Heading(Foo1), Line("fence")}, 4) : Len(s) = 4}
\* A disabled region that cuts a code block.
Cut == <<Line("disable"), Line("fence"), Line("enable"), Heading(Foo), Line("fence")>>

Near == <<To(page, Foo), To(page, <<"FOO", 1>>), LinkTo(BadMail), LinkTo(Old), To(image, Foo)>>
Far == <<Again(page, Foo), LinkTo(Skipped), LinkTo(Mail), LinkTo(Remote)>>
Disk(p) == (page :> p) @@ (near :> Near) @@ (far :> Far) @@ (image :> <<>>)

MCFiles == {page, near, far, image}
World(lines, sources, ignoreDisable, sections) ==
  [disk |-> Disk(<<Own(Foo)>> \o lines), sources |-> sources,
   cfg |-> [ignored |-> {Skipped}, ignoreDisable |-> ignoreDisable,
            checkFragments |-> sections, checkExternal |-> ~ignoreDisable]]
MCWorlds ==
  {World(lines, {page, near}, FALSE, TRUE) : lines \in Pages3 \cup Pages4 \cup {Cut}}
  \cup {World(lines, {page, near, far}, i, TRUE) :
          lines \in {<<Heading(Foo)>>, <<Line("disable"), Heading(Foo)>>}, i \in BOOLEAN}
  \cup {World(<<>>, {page, far}, FALSE, FALSE)}
MCDeliverable == {Mail}
MCEdits == {<<page, Gone>>, <<page, <<Heading(Foo), Heading(Foo)>>>>}
Symmetry == Permutations(Workers)
=============================================================================
