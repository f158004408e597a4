------------------------- MODULE MCSubprocessVerify -------------------------
(* Instances of SubprocessVerify for TLC: one file and what an edit makes of *)
(* it, by which every line moves down.                                       *)
EXTENDS SubprocessVerify, TLC

CONSTANTS foo, long, hidden, prime, h1, h2, h4, h5, h6, h7, p

Line(decl, holes) == [decl |-> decl, seen |-> TRUE, boundary |-> TRUE, holes |-> holes]
Indented(line)    == [line EXCEPT !.boundary = FALSE]
Unseen(line)      == [line EXCEPT !.seen = FALSE, !.boundary = FALSE]
TextLine(holes)   == Unseen(Line(NoDecl, holes))

Ending            == [Unseen(Line(NoDecl, <<>>)) EXCEPT !.boundary = TRUE]

\* A theorem with a longer name; two theorems of one name, the first with two holes, the second
\* in a namespace; a private one; after the end of the namespace another one; a nameless one.
File1 == <<Line(long, <<>>), Line(foo, <<h1>>), TextLine(<<h2>>), Indented(Line(foo, <<h4>>)),
           Unseen(Line(hidden, <<h5>>)), Ending, Unseen(Line(hidden, <<h7>>)),
           Line(Nameless, <<h6>>)>>
LongerNames == {<<foo, long>>}
Versions == <<File1, <<TextLine(<<>>)>> \o File1>>

\* A theorem with a primed name, before and after an edit.
PrimedVersions == <<Versions[1], <<Line(prime, <<>>), TextLine(<<h4>>)>>>>

\* A proof that is right for some of the holes, and wrong for some that can be taken for
\* these; for h5 it stops to be right when the imports change.
SomeRight == ({p} \X {h2, h4, h6, SubHole} \X {0, 1}) \cup {<<p, h5, 0>>}

\* Callers are alike.
Alike == Permutations(Callers)

\* The run starts with the first version of the file.
FirstVersion == Init /\ text = 1
Run == FirstVersion /\ [][Next]_vars
=============================================================================
