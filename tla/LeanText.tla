------------------------------ MODULE LeanText ------------------------------
(***************************************************************************)
(* Lean source files as the scanner (sorrydb.py) and the splicing of the   *)
(* verifier (verify/subprocess_lean.py) read them.  A file is a sequence   *)
(* of lines without their comments.  A line has                            *)
(*   decl: the name it declares, Nameless, or NoDecl;                      *)
(*   seen: the regular expressions for declarations match it, which they   *)
(*         do not after `private' or an attribute;                         *)
(*   boundary: it begins at column 0 with a word that ends a block;        *)
(*   holes: its sorries, in the order of their columns.                    *)
(* A proof stays on the line of its hole: text below it does not move.     *)
(***************************************************************************)
EXTENDS Integers, Sequences, FiniteSets, FiniteSetsExt

CONSTANTS
    NoDecl, Nameless, \* what a line declares when it declares no name
    Synthesized,      \* the names the scanner makes up for nameless declarations
    AnyName,          \* the empty name, as in the tasks of SorryDB snapshots
    Primed,           \* the names whose last character ends no word, like h'
    Longer            \* <<n, m>>: m is the name n with more after it, as in h.1 or h'

----------------------------------------------------------------------------
(* The scanner                                                             *)

\* _enclosing_decl: the nearest declaration at or above the line, 0 if there is none.
EnclosingDecl(file, line) ==
    LET above == {i \in 1..line : file[i].seen}
    IN  IF above = {} THEN 0 ELSE Max(above)

\* The places of the holes on some lines.
HolesIn(file, lines) == UNION {{i} \X DOMAIN file[i].holes : i \in lines}

ScannedName(decl) == IF decl = Nameless THEN Synthesized ELSE decl

\* One task per hole that has a declaration above it.
Scan(file) ==
    {[line |-> p[1], col |-> p[2], name |-> ScannedName(file[EnclosingDecl(file, p[1])].decl)] :
        p \in HolesIn(file, {j \in DOMAIN file : EnclosingDecl(file, j) # 0})}

\* A snapshot of SorryDB has places, and no names of theorems.
Fetch(file) == {[task EXCEPT !.name = AnyName] : task \in Scan(file)}

----------------------------------------------------------------------------
(* The verifier                                                            *)

\* The expression wants a word boundary after the name: there is none after a prime, and there
\* is one before a prime or a dot.
Matches(name, decl) ==
    /\ decl \notin {NoDecl, Nameless}
    /\ \/ name = AnyName
       \/ name = decl /\ name \notin Primed
       \/ <<name, decl>> \in Longer

Candidates(file, name) == {i \in 1..Len(file) : file[i].seen /\ Matches(name, file[i].decl)}

FirstDecl(file, name) ==
    IF Candidates(file, name) = {} THEN 0 ELSE Min(Candidates(file, name))

\* Mutant: the line is not looked at.
FindFirst(file, name, line) == FirstDecl(file, name)
\* _find_decl: the nearest one at or above the line, else the first, 0 if there is none.
FindDecl(file, name, line) ==
    LET found == Candidates(file, name)
        above == {i \in found : i <= line}
    IN  IF found = {} THEN 0 ELSE IF above = {} THEN Min(found) ELSE Max(above)

Block(file, decl) ==
    LET ends == {i \in (decl + 1)..Len(file) : file[i].boundary}
    IN  decl..(IF ends = {} THEN Len(file) ELSE Min(ends) - 1)

\* Mutant: the line is not looked at.
FirstSorry(file, decl, line) ==
    LET found == {i \in Block(file, decl) : file[i].holes # <<>>}
    IN  IF found = {} THEN 0 ELSE Min(found)
\* _find_sorry: the first hole on the line, else the first in the block.
FindSorry(file, decl, line) ==
    LET found == {i \in Block(file, decl) : file[i].holes # <<>>}
    IN  IF found = {} THEN 0 ELSE IF line \in found THEN line ELSE Min(found)

Spliced(file, line) == [file EXCEPT ![line].holes = Tail(@)]

\* _theorem_facts of the integrity check: the holes that the block has.
Sorries(file, decl) == Cardinality(HolesIn(file, Block(file, decl)))

----------------------------------------------------------------------------
(* Lean                                                                    *)

\* The command a line belongs to: a declaration, or another word that begins one.  Lean warns at
\* those that have holes.
Owner(file, line) ==
    Max({0} \cup {i \in 1..line : file[i].decl # NoDecl \/ file[i].boundary})
Warned(file) == {Owner(file, i) : i \in {j \in 1..Len(file) : file[j].holes # <<>>}}

\* _build_synthetic_task: the sublemma is put before its parent's declaration.
WithSublemma(file, decl, line) ==
    SubSeq(file, 1, decl - 1) \o <<line>> \o SubSeq(file, decl, Len(file))
=============================================================================
