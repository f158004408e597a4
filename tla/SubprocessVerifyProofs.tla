------------------------ MODULE SubprocessVerifyProofs ------------------------
(***************************************************************************)
(* Theorems about SubprocessVerify, for any files, proofs, callers and     *)
(* numbers of edits and crashes.                                           *)
(***************************************************************************)
EXTENDS SubprocessVerify, FiniteSetTheorems, SequenceTheorems, WellFoundedInduction, TLAPS

----------------------------------------------------------------------------
(* Numbers                                                                 *)

\* The lines of files, and of synthetic ones.
FullLines == [decl : Names \cup {NoDecl, Nameless, SubName}, seen : BOOLEAN, boundary : BOOLEAN,
              holes : Seq(Holes \cup {SubHole})]
Files == Seq(FullLines)

LEMMA MinIsLeast ==
    ASSUME NEW S, S \subseteq Nat, S # {}
    PROVE  Min(S) \in S /\ \A y \in S : Min(S) <= y
  <1>1. PICK R : R = {p \in Nat \X Nat : p[1] < p[2]} /\ IsWellFoundedOn(R, Nat)
    BY NatLessThanWellFounded DEF OpToRel
  <1>2. PICK x \in S : \A y \in S : <<y, x>> \notin R
    BY <1>1, WFMin
  <1>3. ASSUME NEW y \in S PROVE x <= y
    <2>1. x \in Nat /\ y \in Nat /\ (y < x => <<y, x>> \in R)
      BY <1>1
    <2> QED
      BY <1>2, <2>1
  <1> QED
    BY <1>3 DEF Min

LEMMA MaxIsGreatest ==
    ASSUME NEW n \in Nat, NEW S, S \subseteq 0..n, S # {}
    PROVE  Max(S) \in S /\ \A y \in S : y <= Max(S)
  <1> DEFINE T == {n - x : x \in S}
  <1>1. T \subseteq Nat /\ T # {}
    <2>1. \A x \in S : n - x \in Nat
      OBVIOUS
    <2> QED
      BY <2>1
  <1>2. Min(T) \in T /\ \A u \in T : Min(T) <= u
    BY <1>1, MinIsLeast
  <1>3. PICK x \in S : Min(T) = n - x
    BY <1>2
  <1>4. ASSUME NEW y \in S PROVE y <= x
    <2>1. n - y \in T /\ y \in 0..n /\ x \in 0..n
      OBVIOUS
    <2>2. n - x <= n - y
      BY <1>2, <1>3, <2>1
    <2> QED
      BY <2>1, <2>2
  <1>5. \A y \in S : x >= y
    BY <1>4
  <1> QED
    BY <1>5 DEF Max

----------------------------------------------------------------------------
(* The text of a file                                                      *)

LEMMA LinesOf ==
    ASSUME NEW file \in Files
    PROVE  /\ Len(file) \in Nat /\ DOMAIN file = 1..Len(file)
           /\ \A i \in 1..Len(file) : /\ file[i] \in FullLines
                                      /\ file[i].decl \in Names \cup {NoDecl, Nameless, SubName}
                                      /\ file[i].seen \in BOOLEAN
                                      /\ file[i].boundary \in BOOLEAN
                                      /\ file[i].holes \in Seq(Holes \cup {SubHole})
  <1>1. \A i \in 1..Len(file) : file[i] \in FullLines
    BY DEF Files
  <1> QED
    BY <1>1 DEF Files, FullLines

\* The declaration above a line is the nearest one that the scanner sees.
LEMMA EnclosingIsNearest ==
    ASSUME NEW file \in Files, NEW line \in 1..Len(file), EnclosingDecl(file, line) # 0
    PROVE  /\ EnclosingDecl(file, line) \in 1..line
           /\ file[EnclosingDecl(file, line)].seen
           /\ \A i \in 1..line : file[i].seen => i <= EnclosingDecl(file, line)
  <1> DEFINE above == {i \in 1..line : file[i].seen}
  <1>1. above # {} /\ EnclosingDecl(file, line) = Max(above)
    BY DEF EnclosingDecl
  <1>2. line \in Nat /\ above \subseteq 0..line
    OBVIOUS
  <1>3. Max(above) \in above /\ \A y \in above : y <= Max(above)
    BY <1>1, <1>2, MaxIsGreatest
  <1> QED
    BY <1>1, <1>3

\* What _find_decl finds is a declaration with the name, if there is any.
LEMMA FoundIsCandidate ==
    ASSUME NEW file \in Files, NEW name, NEW line \in Nat
    PROVE  \/ FindDecl(file, name, line) = 0 /\ Candidates(file, name) = {}
           \/ FindDecl(file, name, line) \in Candidates(file, name)
  <1> DEFINE found == Candidates(file, name)
             above == {i \in found : i <= line}
  <1>1. found \subseteq 1..Len(file) /\ Len(file) \in Nat
    BY LinesOf DEF Candidates
  <1>2. CASE found = {}
    BY <1>2 DEF FindDecl
  <1>3. CASE found # {} /\ above = {}
    <2>1. FindDecl(file, name, line) = Min(found)
      BY <1>3 DEF FindDecl
    <2>2. found \subseteq Nat
      BY <1>1
    <2> QED
      BY <1>3, <2>1, <2>2, MinIsLeast
  <1>4. CASE above # {}
    <2>1. FindDecl(file, name, line) = Max(above)
      BY <1>4 DEF FindDecl
    <2>2. above \subseteq 0..Len(file)
      BY <1>1
    <2>3. Max(above) \in above
      BY <1>1, <1>4, <2>2, MaxIsGreatest
    <2> QED
      BY <2>1, <2>3
  <1> QED
    BY <1>2, <1>3, <1>4

\* The nearest declaration that the scanner sees is found, if its name matches.
LEMMA NearestIsFound ==
    ASSUME NEW file \in Files, NEW line \in 1..Len(file), NEW name, NEW decl \in 1..line,
           file[decl].seen, Matches(name, file[decl].decl),
           \A i \in 1..line : file[i].seen => i <= decl
    PROVE  FindDecl(file, name, line) = decl
  <1> DEFINE found == Candidates(file, name)
             above == {i \in found : i <= line}
  <1>1. Len(file) \in Nat /\ line \in Nat /\ decl \in 1..Len(file)
    BY LinesOf
  <1>2. decl \in above
    BY <1>1 DEF Candidates
  <1>3. \A i \in above : i \in 1..line /\ i <= decl
    BY <1>1 DEF Candidates
  <1>4. above \subseteq 0..line
    BY <1>3
  <1>5. Max(above) \in above /\ \A y \in above : y <= Max(above)
    BY <1>1, <1>2, <1>4, MaxIsGreatest
  <1>6. Max(above) = decl
    <2>1. PICK m \in above : m = Max(above)
      BY <1>5
    <2>2. decl <= m
      BY <1>2, <1>5, <2>1
    <2>3. m \in Nat /\ m <= decl
      BY <1>1, <1>3, <2>1
    <2> QED
      BY <1>1, <2>1, <2>2, <2>3
  <1>7. FindDecl(file, name, line) = Max(above)
    BY <1>2 DEF FindDecl
  <1> QED
    BY <1>6, <1>7

\* A block goes from its declaration to the line before the next boundary.
LEMMA BlockIs ==
    ASSUME NEW file \in Files, NEW decl \in 1..Len(file)
    PROVE  /\ Block(file, decl) \subseteq decl..Len(file)
           /\ \A i \in decl..Len(file) :
                i \in Block(file, decl) <=> \A k \in (decl + 1)..i : ~file[k].boundary
  <1> DEFINE ends == {i \in (decl + 1)..Len(file) : file[i].boundary}
  <1>1. PICK n \in Nat : n = Len(file)
    BY LinesOf
  <1>2. decl \in Nat /\ decl <= n /\ ends \subseteq Nat
    BY <1>1
  <1>3. CASE ends = {}
    <2>1. Block(file, decl) = decl..n
      BY <1>1, <1>3 DEF Block
    <2>2. ASSUME NEW i \in decl..n, NEW k \in (decl + 1)..i PROVE ~file[k].boundary
      <3>1. k \in (decl + 1)..n
        BY <1>2, <2>2
      <3> QED
        BY <1>1, <1>3, <3>1
    <2> QED
      BY <1>1, <2>1, <2>2
  <1>4. CASE ends # {}
    <2>1. PICK m : m = Min(ends)
      OBVIOUS
    <2>2. m \in ends /\ \A y \in ends : m <= y
      BY <1>2, <1>4, <2>1, MinIsLeast
    <2>3. Block(file, decl) = decl..(m - 1)
      BY <1>4, <2>1 DEF Block
    <2>4. m \in Nat /\ decl < m /\ m <= n /\ file[m].boundary
      BY <1>1, <1>2, <2>2
    <2>5. ASSUME NEW i \in decl..n, i <= m - 1, NEW k \in (decl + 1)..i PROVE ~file[k].boundary
      <3>1. k \in (decl + 1)..n /\ k < m
        BY <1>2, <2>4, <2>5
      <3> QED
        BY <1>1, <1>2, <2>2, <2>4, <3>1
    <2>6. ASSUME NEW i \in decl..n, ~(i <= m - 1) PROVE m \in (decl + 1)..i
      BY <1>2, <2>4, <2>6
    <2>7. ASSUME NEW i \in decl..n
          PROVE  i \in decl..(m - 1) <=> \A k \in (decl + 1)..i : ~file[k].boundary
      <3>1. i \in decl..(m - 1) <=> i <= m - 1
        BY <1>2, <2>4, <2>7
      <3> QED
        BY <2>4, <2>5, <2>6, <3>1
    <2>8. decl..(m - 1) \subseteq decl..n
      BY <1>2, <2>4
    <2> QED
      BY <1>1, <2>3, <2>7, <2>8
  <1> QED
    BY <1>3, <1>4

\* What _find_sorry finds is a line of the block with a hole: the one asked for, if it is such a one.
LEMMA SorryIs ==
    ASSUME NEW file \in Files, NEW decl \in 1..Len(file), NEW line
    PROVE  /\ \/ FindSorry(file, decl, line) = 0
              \/ /\ FindSorry(file, decl, line) \in Block(file, decl)
                 /\ file[FindSorry(file, decl, line)].holes # <<>>
           /\ line \in Block(file, decl) /\ file[line].holes # <<>>
                => FindSorry(file, decl, line) = line
  <1> DEFINE found == {i \in Block(file, decl) : file[i].holes # <<>>}
  <1>1. FindSorry(file, decl, line)
          = IF found = {} THEN 0 ELSE IF line \in found THEN line ELSE Min(found)
    BY DEF FindSorry
  <1>2. found \subseteq Nat
    <2>1. Block(file, decl) \subseteq decl..Len(file) /\ Len(file) \in Nat
      BY BlockIs, LinesOf
    <2> QED
      BY <2>1
  <1>3. found # {} => Min(found) \in found
    BY <1>2, MinIsLeast
  <1> QED
    BY <1>1, <1>3

\* The commands of a file begin with a declaration or a boundary.
Begins(file, i) == file[i].decl # NoDecl \/ file[i].boundary

LEMMA OwnerIs ==
    ASSUME NEW file \in Files, NEW line \in 1..Len(file)
    PROVE  /\ Owner(file, line) \in 0..line
           /\ Owner(file, line) # 0 => Begins(file, Owner(file, line))
           /\ \A i \in 1..line : Begins(file, i) => i <= Owner(file, line)
  <1> DEFINE S == {0} \cup {i \in 1..line : file[i].decl # NoDecl \/ file[i].boundary}
  <1>1. line \in Nat /\ S \subseteq 0..line /\ S # {}
    OBVIOUS
  <1>2. Max(S) \in S /\ \A y \in S : y <= Max(S)
    BY <1>1, MaxIsGreatest
  <1>3. Owner(file, line) = Max(S)
    BY DEF Owner
  <1> QED
    BY <1>1, <1>2, <1>3 DEF Begins

\* The splice changes the holes of one line.
LEMMA SplicedIs ==
    ASSUME NEW file \in Files, NEW t \in 1..Len(file), file[t].holes # <<>>
    PROVE  /\ Spliced(file, t) \in Files /\ Len(Spliced(file, t)) = Len(file)
           /\ \A i \in 1..Len(file) : /\ Spliced(file, t)[i].decl = file[i].decl
                                      /\ Spliced(file, t)[i].seen = file[i].seen
                                      /\ Spliced(file, t)[i].boundary = file[i].boundary
                                      /\ i # t => Spliced(file, t)[i].holes = file[i].holes
           /\ Spliced(file, t)[t].holes = Tail(file[t].holes)
  <1>1. PICK n \in Nat : n = Len(file)
    BY LinesOf
  <1>2. file \in [1..n -> FullLines] /\ file[t] \in FullLines /\ file[t].holes \in Seq(Holes \cup {SubHole})
    BY <1>1, LinesOf DEF Files
  <1>3. Tail(file[t].holes) \in Seq(Holes \cup {SubHole})
    BY <1>2
  <1>4. PICK l : l = [file[t] EXCEPT !.holes = Tail(@)]
    OBVIOUS
  <1>5. /\ l \in FullLines /\ l.decl = file[t].decl /\ l.seen = file[t].seen
        /\ l.boundary = file[t].boundary /\ l.holes = Tail(file[t].holes)
    BY <1>2, <1>3, <1>4 DEF FullLines
  <1>6. Spliced(file, t) = [file EXCEPT ![t] = l]
    BY <1>4 DEF Spliced
  <1>7. Spliced(file, t) \in [1..n -> FullLines]
    BY <1>2, <1>5, <1>6
  <1>8. Spliced(file, t) \in Seq(FullLines) /\ Len(Spliced(file, t)) = n
    BY <1>7
  <1> QED
    BY <1>1, <1>2, <1>5, <1>6, <1>8 DEF Files

\* Files whose lines differ in their holes only.
SameLines(f, g) ==
    /\ Len(f) = Len(g)
    /\ \A i \in 1..Len(f) : /\ f[i].decl = g[i].decl /\ f[i].seen = g[i].seen
                            /\ f[i].boundary = g[i].boundary

LEMMA SameOwner ==
    ASSUME NEW f \in Files, NEW g \in Files, SameLines(f, g), NEW line \in 1..Len(f)
    PROVE  Owner(g, line) = Owner(f, line)
  <1>1. {i \in 1..line : f[i].decl # NoDecl \/ f[i].boundary}
          = {i \in 1..line : g[i].decl # NoDecl \/ g[i].boundary}
    BY LinesOf DEF SameLines
  <1> QED
    BY <1>1 DEF Owner

LEMMA SameDecl ==
    ASSUME NEW f \in Files, NEW g \in Files, SameLines(f, g), NEW name, NEW line
    PROVE  FindDecl(g, name, line) = FindDecl(f, name, line)
  <1>1. Candidates(g, name) = Candidates(f, name)
    BY DEF SameLines, Candidates
  <1> QED
    BY <1>1 DEF FindDecl

LEMMA SameBlock ==
    ASSUME NEW f \in Files, NEW g \in Files, SameLines(f, g), NEW decl \in 1..Len(f)
    PROVE  Block(g, decl) = Block(f, decl)
  <1>1. {i \in (decl + 1)..Len(f) : f[i].boundary} = {i \in (decl + 1)..Len(g) : g[i].boundary}
    <2>1. \A i \in (decl + 1)..Len(f) : i \in 1..Len(f)
      BY LinesOf
    <2> QED
      BY <2>1 DEF SameLines
  <1> QED
    BY <1>1 DEF Block, SameLines

----------------------------------------------------------------------------
(* A splice that leaves no warning at a declaration                        *)

\* Then all holes that Lean takes to be of that declaration are gone.
LEMMA NoHolesLeft ==
    ASSUME NEW file \in Files, NEW t \in 1..Len(file), file[t].holes # <<>>,
           NEW decl, decl \notin Warned(Spliced(file, t)),
           NEW i \in 1..Len(file), Owner(file, i) = decl
    PROVE  IF i = t THEN Tail(file[i].holes) = <<>> ELSE file[i].holes = <<>>
  <1> DEFINE after == Spliced(file, t)
  <1>1. /\ after \in Files /\ Len(after) = Len(file) /\ SameLines(file, after)
        /\ i # t => after[i].holes = file[i].holes
        /\ after[t].holes = Tail(file[t].holes)
    BY SplicedIs DEF SameLines
  <1>2. Owner(after, i) = decl
    BY <1>1, SameOwner
  <1>3. after[i].holes = <<>>
    BY <1>1, <1>2 DEF Warned
  <1> QED
    BY <1>1, <1>3

LEMMA OnlyOne ==
    ASSUME NEW S, NEW s \in Seq(S), s # <<>>, Tail(s) = <<>>
    PROVE  Len(s) = 1
  <1>1. Len(Tail(s)) = Len(s) - 1 /\ Len(s) \in Nat
    BY HeadTailProperties, LenProperties
  <1>2. Len(<<>>) = 0
    OBVIOUS
  <1>3. Len(Tail(s)) = 0
    BY <1>2
  <1> QED
    BY <1>1, <1>3

\* The hole that was spliced is the one asked for: the only one of its command, or the first on a
\* line of the block.
LEMMA RightHole ==
    ASSUME NEW file \in Files, NEW line \in 1..Len(file), NEW col \in DOMAIN file[line].holes,
           NEW decl \in 1..Len(file), FindSorry(file, decl, line) # 0,
           decl \notin Warned(Spliced(file, FindSorry(file, decl, line))),
           \/ Owner(file, line) = decl
           \/ line \in Block(file, decl) /\ col = 1
    PROVE  Head(file[FindSorry(file, decl, line)].holes) = file[line].holes[col]
  <1>1. PICK t : t = FindSorry(file, decl, line)
    OBVIOUS
  <1>2. PICK hs : hs = file[line].holes
    OBVIOUS
  <1>3. hs \in Seq(Holes \cup {SubHole}) /\ col \in DOMAIN hs
    BY <1>2, LinesOf
  <1>4. hs # <<>> /\ Len(hs) \in Nat /\ col \in 1..Len(hs) /\ Head(hs) = hs[1]
    BY <1>3
  <1>5. t \in Block(file, decl) /\ file[t].holes # <<>>
    BY <1>1, SorryIs
  <1>6. t \in 1..Len(file)
    BY <1>5, BlockIs, LinesOf
  <1>7. CASE Owner(file, line) = decl
    <2>1. IF line = t THEN Tail(hs) = <<>> ELSE hs = <<>>
      BY <1>1, <1>2, <1>5, <1>6, <1>7, NoHolesLeft
    <2>2. line = t /\ Len(hs) = 1
      BY <1>3, <1>4, <2>1, OnlyOne
    <2>3. col = 1
      BY <1>4, <2>2
    <2> QED
      BY <1>1, <1>2, <1>4, <2>2, <2>3
  <1>8. CASE line \in Block(file, decl) /\ col = 1
    <2>1. t = line
      BY <1>1, <1>2, <1>4, <1>8, SorryIs
    <2> QED
      BY <1>1, <1>2, <1>4, <1>8, <2>1
  <1> QED
    BY <1>7, <1>8

----------------------------------------------------------------------------
(* The tasks of the scanner                                                *)

\* The files of the project, with what the assumption says of them.
IsContent(file) ==
    /\ file \in Seq(Lines)
    /\ \A i \in DOMAIN file : file[i].seen => file[i].decl # NoDecl

LEMMA ContentIs ==
    ASSUME NEW t \in Texts
    PROVE  /\ IsContent(Content[t]) /\ Content[t] \in Files
           /\ \A i \in 1..Len(Content[t]) : Content[t][i].decl \in Names \cup {NoDecl, Nameless}
  <1>1. IsContent(Content[t])
    BY ContentAssumption DEF IsContent
  <1>2. Seq(Holes) \subseteq Seq(Holes \cup {SubHole})
    BY SeqMonotonic
  <1>3. Lines \subseteq FullLines
    BY <1>2 DEF Lines, FullLines
  <1>4. Content[t] \in Files
    BY <1>1, <1>3, SeqMonotonic DEF IsContent, Files
  <1>5. \A i \in 1..Len(Content[t]) : Content[t][i] \in Lines
    BY <1>1 DEF IsContent
  <1> QED
    BY <1>1, <1>4, <1>5 DEF Lines

\* A task is about a hole, below a declaration of which it has the name, or has no name.
LEMMA TaskIs ==
    ASSUME NEW file \in Files, NEW task \in Scan(file) \cup Fetch(file)
    PROVE  /\ task.line \in 1..Len(file) /\ task.col \in DOMAIN file[task.line].holes
           /\ EnclosingDecl(file, task.line) # 0
           /\ task.name \in {AnyName, ScannedName(file[EnclosingDecl(file, task.line)].decl)}
  <1> DEFINE lines == {j \in DOMAIN file : EnclosingDecl(file, j) # 0}
             Name(p) == ScannedName(file[EnclosingDecl(file, p[1])].decl)
  <1>1. DOMAIN file = 1..Len(file)
    BY LinesOf
  <1>2. ASSUME NEW p \in HolesIn(file, lines)
        PROVE  p[1] \in 1..Len(file) /\ EnclosingDecl(file, p[1]) # 0 /\ p[2] \in DOMAIN file[p[1]].holes
    <2>1. PICK i \in lines : p \in {i} \X DOMAIN file[i].holes
      BY <1>2 DEF HolesIn
    <2> QED
      BY <1>1, <2>1
  <1>3. PICK p \in HolesIn(file, lines) :
            task.line = p[1] /\ task.col = p[2] /\ task.name \in {AnyName, Name(p)}
    <2>1. CASE task \in Scan(file)
      BY <2>1 DEF Scan
    <2>2. CASE task \in Fetch(file)
      <3>1. PICK u \in Scan(file) : task = [u EXCEPT !.name = AnyName]
        BY <2>2 DEF Fetch
      <3>2. PICK p \in HolesIn(file, lines) : u = [line |-> p[1], col |-> p[2], name |-> Name(p)]
        BY <3>1 DEF Scan
      <3> QED
        BY <3>1, <3>2
    <2> QED
      BY <2>1, <2>2
  <1> QED
    BY <1>2, <1>3

\* The declaration of a task with a name that can be found is the one above its line.
LEMMA DeclIsAbove ==
    ASSUME NEW file \in Files, IsContent(file), NEW task \in Scan(file) \cup Fetch(file),
           ~(task.name = AnyName /\ file[EnclosingDecl(file, task.line)].decl = Nameless),
           task.name \notin Primed, task.name # Synthesized
    PROVE  Decl(file, task) = EnclosingDecl(file, task.line)
  <1> DEFINE line == task.line
             decl == EnclosingDecl(file, line)
  <1>1. line \in 1..Len(file) /\ decl # 0 /\ task.name \in {AnyName, ScannedName(file[decl].decl)}
    BY TaskIs
  <1>2. decl \in 1..line /\ file[decl].seen /\ \A i \in 1..line : file[i].seen => i <= decl
    BY <1>1, EnclosingIsNearest
  <1>3. decl \in 1..Len(file) /\ DOMAIN file = 1..Len(file)
    BY <1>1, <1>2, LinesOf
  <1>4. file[decl].decl # NoDecl
    BY <1>2, <1>3 DEF IsContent
  <1>5. Matches(task.name, file[decl].decl)
    BY <1>1, <1>4 DEF ScannedName, Matches
  <1>6. FindDecl(file, task.name, line) = decl
    BY <1>1, <1>2, <1>5, NearestIsFound
  <1> QED
    BY <1>6 DEF Decl

\* A name that the scanner made up is found nowhere.
LEMMA SynthesizedIsNotFound ==
    ASSUME NEW t \in Texts, NEW task, task.line \in Nat, task.name = Synthesized
    PROVE  Decl(Content[t], task) = 0
  <1>1. \A i \in 1..Len(Content[t]) : ~Matches(Synthesized, Content[t][i].decl)
    BY ContentIs, ContentAssumption DEF Matches
  <1>2. Candidates(Content[t], Synthesized) = {}
    BY <1>1 DEF Candidates
  <1> QED
    BY <1>2 DEF Decl, FindDecl

\* The target of any splice: a line of the block of a declaration, with a hole.
LEMMA TargetIs ==
    ASSUME NEW file \in Files, NEW task, task.line \in Nat, Target(file, task) # 0
    PROVE  /\ Decl(file, task) \in 1..Len(file)
           /\ Target(file, task) = FindSorry(file, Decl(file, task), task.line)
           /\ Target(file, task) \in 1..Len(file)
           /\ file[Target(file, task)].holes # <<>>
  <1>1. Decl(file, task) # 0
        /\ Target(file, task) = FindSorry(file, Decl(file, task), task.line)
    BY DEF Target
  <1>2. Decl(file, task) \in 1..Len(file)
    BY <1>1, FoundIsCandidate DEF Decl, Candidates
  <1>3. Target(file, task) \in Block(file, Decl(file, task)) /\ file[Target(file, task)].holes # <<>>
    BY <1>1, <1>2, SorryIs
  <1>4. Target(file, task) \in 1..Len(file)
    BY <1>2, <1>3, BlockIs, LinesOf
  <1> QED
    BY <1>1, <1>2, <1>3, <1>4

----------------------------------------------------------------------------
(* Synthetic files                                                         *)

\* The sublemma is at the line of its parent; the lines of the project are above it and below.
LEMMA SublemmaIs ==
    ASSUME NEW t \in Texts, NEW d \in DOMAIN Content[t], NEW file,
           file = WithSublemma(Content[t], d, SubLine)
    PROVE  /\ file \in Files /\ d \in 1..Len(file) /\ file[d] = SubLine
           /\ \A i \in 1..Len(file) : i # d => file[i].decl \in Names \cup {NoDecl, Nameless}
  <1>1. PICK f : f = Content[t]
    OBVIOUS
  <1>2. PICK n \in Nat : n = Len(f)
    BY <1>1, ContentIs, LinesOf
  <1>3. /\ f \in Seq(FullLines) /\ d \in 1..n
        /\ \A i \in 1..n : f[i] \in FullLines /\ f[i].decl \in Names \cup {NoDecl, Nameless}
    BY <1>1, <1>2, ContentIs, LinesOf DEF Files
  <1>4. SubLine \in FullLines
    <2>1. <<SubHole>> \in Seq(Holes \cup {SubHole})
      OBVIOUS
    <2> QED
      BY <2>1 DEF SubLine, FullLines
  <1>5. PICK a, b, m : a = SubSeq(f, 1, d - 1) /\ b = SubSeq(f, d, n) /\ m = <<SubLine>>
    OBVIOUS
  <1>6. /\ a \in Seq(FullLines) /\ Len(a) = d - 1
        /\ \A i \in 1..(d - 1) : a[i] = f[i]
    <2>1. /\ a \in Seq(FullLines) /\ Len(a) = IF 1 <= d - 1 THEN d - 1 - 1 + 1 ELSE 0
          /\ \A i \in 1..(d - 1 - 1 + 1) : a[i] = f[1 + i - 1]
      <3>1. 1 \in Int /\ d - 1 \in Int /\ \A i \in 1..(d - 1) : f[i] \in FullLines
        BY <1>3
      <3> QED
        BY <1>5, <3>1, SubSeqProperties
    <2>2. d \in Nat /\ d >= 1
      BY <1>3
    <2>3. Len(a) = d - 1
      BY <2>1, <2>2
    <2>4. ASSUME NEW i \in 1..(d - 1) PROVE a[i] = f[i]
      <3>1. i \in 1..(d - 1 - 1 + 1) /\ 1 + i - 1 = i
        BY <2>2
      <3> QED
        BY <2>1, <3>1
    <2> QED
      BY <2>1, <2>3, <2>4
  <1>7. /\ b \in Seq(FullLines) /\ Len(b) = n - d + 1
        /\ \A i \in 1..(n - d + 1) : b[i] = f[d + i - 1]
    <2>1. d \in Int /\ n \in Int /\ \A i \in d..n : f[i] \in FullLines
      BY <1>3
    <2>2. /\ b \in Seq(FullLines) /\ Len(b) = IF d <= n THEN n - d + 1 ELSE 0
          /\ \A i \in 1..(n - d + 1) : b[i] = f[d + i - 1]
      BY <1>5, <2>1, SubSeqProperties
    <2> QED
      BY <1>3, <2>2
  <1>8. m \in Seq(FullLines) /\ Len(m) = 1 /\ m[1] = SubLine
    BY <1>4, <1>5
  <1>9. PICK am : am = a \o m
    OBVIOUS
  <1>10. /\ am \in Seq(FullLines) /\ Len(am) = d
         /\ \A i \in 1..d : am[i] = IF i <= d - 1 THEN a[i] ELSE m[i - (d - 1)]
    <2>1. /\ am \in Seq(FullLines) /\ Len(am) = d - 1 + 1
          /\ \A i \in 1..(d - 1 + 1) : am[i] = IF i <= d - 1 THEN a[i] ELSE m[i - (d - 1)]
      <3>1. /\ am \in Seq(FullLines) /\ Len(am) = Len(a) + Len(m)
            /\ \A i \in 1..(Len(a) + Len(m)) : am[i] = IF i <= Len(a) THEN a[i] ELSE m[i - Len(a)]
        BY <1>6, <1>8, <1>9, ConcatProperties
      <3>2. Len(a) = d - 1 /\ Len(m) = 1
        BY <1>6, <1>8
      <3> QED
        BY <3>1, <3>2
    <2> QED
      BY <1>3, <2>1
  <1>11. file = am \o b
    BY <1>1, <1>2, <1>5, <1>9 DEF WithSublemma
  <1>12. /\ file \in Seq(FullLines) /\ Len(file) = n + 1
         /\ \A i \in 1..(n + 1) : file[i] = IF i <= d THEN am[i] ELSE b[i - d]
    <2>1. /\ file \in Seq(FullLines) /\ Len(file) = d + (n - d + 1)
          /\ \A i \in 1..(d + (n - d + 1)) : file[i] = IF i <= d THEN am[i] ELSE b[i - d]
      BY <1>7, <1>10, <1>11, ConcatProperties
    <2> QED
      BY <1>3, <2>1
  <1>13. file[d] = SubLine
    <2>1. file[d] = am[d] /\ am[d] = m[d - (d - 1)] /\ d - (d - 1) = 1
      BY <1>3, <1>10, <1>12
    <2> QED
      BY <1>8, <2>1
  <1>14. ASSUME NEW i \in 1..(n + 1), i # d PROVE file[i].decl \in Names \cup {NoDecl, Nameless}
    <2>1. CASE i < d
      <3>1. i \in 1..(d - 1) /\ i \in 1..n
        BY <1>3, <2>1
      <3>2. file[i] = f[i]
        BY SMTT(30), <1>3, <1>6, <1>10, <1>12, <3>1
      <3> QED
        BY <1>3, <3>1, <3>2
    <2>2. CASE i > d
      <3>1. i - d \in 1..(n - d + 1) /\ d + (i - d) - 1 = i - 1 /\ i - 1 \in 1..n
        BY <1>3, <2>2
      <3>2. file[i] = b[i - d]
        BY <1>3, <1>12, <2>2
      <3>3. b[i - d] = f[d + (i - d) - 1]
        BY <1>7, <3>1
      <3> QED
        BY <1>3, <3>1, <3>2, <3>3
    <2> QED
      BY <1>3, <1>14, <2>1, <2>2
  <1> QED
    BY <1>2, <1>3, <1>12, <1>13, <1>14 DEF Files

\* A proof of a sublemma is put into its hole.
LEMMA SublemmaIsFound ==
    ASSUME NEW t \in Texts, NEW task, task.name = SubName, task.line \in DOMAIN Content[t],
           NEW file, file = WithSublemma(Content[t], task.line, SubLine), Target(file, task) # 0
    PROVE  Head(file[Target(file, task)].holes) = SubHole
  <1> DEFINE d == task.line
  <1>1. /\ file \in Files /\ d \in 1..Len(file) /\ file[d] = SubLine
        /\ \A i \in 1..Len(file) : i # d => file[i].decl \in Names \cup {NoDecl, Nameless}
    BY SublemmaIs
  <1>2. \A i \in 1..Len(file) : i # d => ~Matches(SubName, file[i].decl)
    BY <1>1, ContentAssumption DEF Matches
  <1>3. Candidates(file, SubName) \subseteq {d}
    BY <1>2 DEF Candidates
  <1>4. Decl(file, task) # 0 /\ Target(file, task) = FindSorry(file, Decl(file, task), d)
    BY DEF Target
  <1>5. Decl(file, task) = d
    BY <1>1, <1>3, <1>4, FoundIsCandidate DEF Decl
  <1>6. d \in Block(file, d)
    <2>1. d \in Nat /\ Len(file) \in Nat /\ d \in d..Len(file)
      BY <1>1, LinesOf
    <2>2. \A k \in (d + 1)..d : ~file[k].boundary
      BY <2>1
    <2> QED
      BY <1>1, <2>1, <2>2, BlockIs
  <1>7. file[d].holes = <<SubHole>> /\ <<SubHole>> # <<>> /\ Head(<<SubHole>>) = SubHole
    <2>1. SubLine.holes = <<SubHole>>
      BY DEF SubLine
    <2>2. Len(<<SubHole>>) = 1 /\ Head(<<SubHole>>) = SubHole /\ Len(<<>>) = 0
      OBVIOUS
    <2>3. <<SubHole>> # <<>>
      BY <2>2
    <2>4. file[d].holes = SubLine.holes
      BY <1>1
    <2> QED
      BY <2>1, <2>2, <2>3, <2>4
  <1>8. FindSorry(file, d, d) = d
    <2>1. file[d].holes # <<>>
      BY <1>7
    <2> QED
      BY <1>1, <1>6, <2>1, SorryIs
  <1> QED
    BY <1>4, <1>5, <1>7, <1>8

----------------------------------------------------------------------------
(* The only hole of a theorem                                              *)

LEMMA HolesAreFinite ==
    ASSUME NEW file \in Files, NEW lines \in SUBSET (1..Len(file))
    PROVE  IsFiniteSet(HolesIn(file, lines))
  <1>1. PICK n \in Nat : n = Len(file)
    BY LinesOf
  <1>2. IsFiniteSet(lines)
    <2>1. IsFiniteSet(1..n)
      BY FS_Interval
    <2> QED
      BY <1>1, <2>1, FS_Subset
  <1> DEFINE Of(i) == {i} \X DOMAIN file[i].holes
  <1>3. PICK f : f = [i \in lines |-> Of(i)]
    OBVIOUS
  <1>4. PICK T : T = {Of(i) : i \in lines}
    OBVIOUS
  <1>5. f \in Surjection(lines, T)
    <2>1. f \in [lines -> T] /\ \A x \in T : \E i \in lines : f[i] = x
      BY <1>3, <1>4
    <2> QED
      BY <2>1 DEF Surjection
  <1>6. IsFiniteSet(T)
    BY <1>2, <1>5, FS_Surjection
  <1>7. ASSUME NEW x \in T PROVE IsFiniteSet(x)
    <2>1. PICK i \in lines : x = {i} \X DOMAIN file[i].holes
      BY <1>4
    <2>2. PICK k \in Nat : k = Len(file[i].holes) /\ DOMAIN file[i].holes = 1..k
      BY LinesOf
    <2>3. IsFiniteSet(1..k)
      BY FS_Interval
    <2>4. IsFiniteSet({i})
      BY FS_Singleton
    <2> QED
      BY <2>1, <2>2, <2>3, <2>4, FS_Product
  <1>8. IsFiniteSet(UNION T)
    BY <1>6, <1>7, FS_UNION
  <1> QED
    BY <1>4, <1>8 DEF HolesIn

\* A file in which a line has the only hole of its command, which is the declaration above.
HasOnlyHole(file, line) ==
    /\ line \in 1..Len(file) /\ EnclosingDecl(file, line) # 0
    /\ Owner(file, line) = EnclosingDecl(file, line)
    /\ \A i \in DOMAIN file : Owner(file, i) = Owner(file, line)
                                => Len(file[i].holes) = IF i = line THEN 1 ELSE 0

\* The hole is found, its splice closes the theorem, and passes the integrity check.
LEMMA OnlyHoleIsFound ==
    ASSUME NEW file \in Files, NEW task, HasOnlyHole(file, task.line),
           Decl(file, task) = EnclosingDecl(file, task.line)
    PROVE  /\ Target(file, task) = task.line /\ Integrity(file, task)
           /\ Decl(file, task) \notin Warned(Spliced(file, task.line))
           /\ Len(file[task.line].holes) = 1
  <1>1. PICK line, decl : line = task.line /\ decl = EnclosingDecl(file, line)
    OBVIOUS
  <1>2. PICK n \in Nat : n = Len(file)
    BY LinesOf
  <1>3. /\ line \in 1..n /\ decl # 0 /\ Owner(file, line) = decl /\ DOMAIN file = 1..n
        /\ \A i \in 1..n : Owner(file, i) = decl => Len(file[i].holes) = IF i = line THEN 1 ELSE 0
    BY <1>1, <1>2, LinesOf DEF HasOnlyHole
  <1>4. decl \in 1..line /\ decl \in 1..n
    BY <1>1, <1>2, <1>3, EnclosingIsNearest
  <1>5. line \in Block(file, decl)
    <2>1. ASSUME NEW k \in (decl + 1)..line PROVE ~file[k].boundary
      <3>1. k \in 1..line /\ decl < k
        BY <1>3, <1>4
      <3>2. Begins(file, k) => k <= decl
        BY <1>2, <1>3, <3>1, OwnerIs
      <3> QED
        BY <1>4, <3>1, <3>2 DEF Begins
    <2>2. line \in decl..n
      BY <1>3, <1>4
    <2> QED
      BY <1>2, <1>4, <2>1, <2>2, BlockIs
  <1>6. PICK hs : hs = file[line].holes /\ hs \in Seq(Holes \cup {SubHole})
    BY <1>2, <1>3, LinesOf
  <1>7. Len(hs) = 1 /\ hs # <<>> /\ Tail(hs) = <<>> /\ DOMAIN hs = {1}
    <2>1. Len(hs) = 1
      BY <1>3, <1>6
    <2>2. hs # <<>>
      BY <2>1
    <2>3. Tail(hs) \in Seq(Holes \cup {SubHole}) /\ Len(Tail(hs)) = 0
      BY <1>6, <2>1, <2>2, HeadTailProperties
    <2>4. Tail(hs) = <<>>
      BY <2>3, EmptySeq
    <2>5. DOMAIN hs = 1..1
      BY <1>6, <2>1
    <2> QED
      BY <2>1, <2>2, <2>4, <2>5
  <1>8. FindSorry(file, decl, line) = line
    BY <1>2, <1>4, <1>5, <1>6, <1>7, SorryIs
  <1>9. Decl(file, task) = decl /\ Target(file, task) = line
    <2>1. decl # 0
      BY <1>3
    <2> QED
      BY <1>1, <1>8, <2>1 DEF Target
  <1>10. PICK after : after = Spliced(file, line)
    OBVIOUS
  <1>11. /\ after \in Files /\ Len(after) = n /\ SameLines(file, after)
         /\ \A i \in 1..n : i # line => after[i].holes = file[i].holes
         /\ after[line].holes = <<>>
    BY <1>2, <1>3, <1>6, <1>7, <1>10, SplicedIs DEF SameLines
  <1>12. decl \notin Warned(after)
    <2>1. ASSUME NEW i \in 1..n, Owner(after, i) = decl PROVE after[i].holes = <<>>
      <3>1. Owner(file, i) = decl
        BY <1>2, <1>11, <2>1, SameOwner
      <3>2. Len(file[i].holes) = IF i = line THEN 1 ELSE 0
        BY <1>3, <3>1
      <3>3. CASE i = line
        BY <1>11, <3>3
      <3>4. CASE i # line
        <4>1. file[i].holes \in Seq(Holes \cup {SubHole}) /\ Len(file[i].holes) = 0
          BY <1>2, <3>2, <3>4, LinesOf
        <4>2. file[i].holes = <<>>
          BY <4>1
        <4> QED
          BY <1>11, <3>4, <4>2
      <3> QED
        BY <3>3, <3>4
    <2> QED
      BY <1>11, <2>1 DEF Warned
  <1>13. Decl(after, task) = decl /\ Block(after, decl) = Block(file, decl)
    <2>1. FindDecl(after, task.name, task.line) = FindDecl(file, task.name, task.line)
      BY <1>11, SameDecl
    <2> QED
      BY <1>2, <1>4, <1>9, <1>11, <2>1, SameBlock DEF Decl
  <1>14. PICK B : B = Block(file, decl)
    OBVIOUS
  <1>15. B \in SUBSET (1..n)
    <2>1. B \subseteq decl..n
      BY <1>2, <1>4, <1>14, BlockIs
    <2> QED
      BY <1>4, <2>1
  <1>16. HolesIn(after, B) = HolesIn(file, B) \ {<<line, 1>>}
    <2>1. ASSUME NEW p PROVE p \in HolesIn(after, B) <=> p \in HolesIn(file, B) /\ p # <<line, 1>>
      <3>1. p \in HolesIn(after, B) <=> \E i \in B : p \in {i} \X DOMAIN after[i].holes
        BY DEF HolesIn
      <3>2. p \in HolesIn(file, B) <=> \E i \in B : p \in {i} \X DOMAIN file[i].holes
        BY DEF HolesIn
      <3>3. ASSUME NEW i \in B
            PROVE  p \in {i} \X DOMAIN after[i].holes
                     <=> p \in {i} \X DOMAIN file[i].holes /\ p # <<line, 1>>
        <4>1. CASE i # line
          BY <1>11, <1>15, <4>1
        <4>2. CASE i = line
          <5>1. DOMAIN after[i].holes = {} /\ DOMAIN file[i].holes = {1}
            BY <1>6, <1>7, <1>11, <4>2
          <5> QED
            BY <4>2, <5>1
        <4> QED
          BY <4>1, <4>2
      <3> QED
        BY <3>1, <3>2, <3>3
    <2> QED
      BY <2>1
  <1>17. <<line, 1>> \in HolesIn(file, B)
    BY <1>5, <1>6, <1>7, <1>14 DEF HolesIn
  <1>18. Cardinality(HolesIn(after, B)) = Cardinality(HolesIn(file, B)) - 1
    <2>1. IsFiniteSet(HolesIn(file, B))
      BY <1>2, <1>15, HolesAreFinite
    <2> QED
      BY <1>16, <1>17, <2>1, FS_RemoveElement
  <1>19. Integrity(file, task)
    BY <1>9, <1>10, <1>13, <1>14, <1>18 DEF Integrity, Sorries
  <1> QED
    BY <1>1, <1>6, <1>7, <1>9, <1>10, <1>12, <1>19

----------------------------------------------------------------------------
(* The calls                                                               *)

IsolatedTasks == UNION {SubTasks[t] : t \in Texts}
SourceTasks   == UNION {Tasks[t] : t \in Texts}
AnyTask       == SourceTasks \cup IsolatedTasks
Jobs == [kind : {"source", "isolated"}, task : AnyTask, proof : Proofs, text : Texts,
         decl : Nat, target : Nat, written : BOOLEAN]

\* What a call has found is in its text.
Looked(j) ==
    /\ j \in Jobs
    /\ j.decl = Decl(FileOf(j), j.task) /\ j.target = Target(FileOf(j), j.task)
    /\ j.kind = "source" => j.task \in Tasks[scanned]
    /\ j.kind = "isolated" => j.task \in SubTasks[j.text]

LEMMA FilesOfCalls ==
    ASSUME NEW t \in Texts
    PROVE  /\ \A task : File("source", t, task) = Content[t]
           /\ \A task \in SubTasks[t] : /\ task.name = SubName /\ task.line \in DOMAIN Content[t]
                                        /\ task.line \in Nat
                                        /\ File("isolated", t, task) = WithSublemma(Content[t], task.line, SubLine)
                                        /\ File("isolated", t, task) \in Files
           /\ Tasks[t] = Scan(Content[t]) \cup Fetch(Content[t])
           /\ \A task \in Tasks[t] : task.line \in Nat
  <1>1. Tasks[t] = Scan(Content[t]) \cup Fetch(Content[t])
    BY DEF Tasks
  <1>2. Content[t] \in Files
    BY ContentIs
  <1>3. \A task \in Tasks[t] : task.line \in 1..Len(Content[t])
    BY <1>1, <1>2, TaskIs
  <1>4. \A task \in SubTasks[t] : task.name = SubName /\ task.line \in DOMAIN Content[t]
    BY DEF SubTasks
  <1>5. DOMAIN Content[t] = 1..Len(Content[t])
    BY <1>2, LinesOf
  <1>6. \A task \in SubTasks[t] : WithSublemma(Content[t], task.line, SubLine) \in Files
    BY <1>4, SublemmaIs
  <1>7. \A task : File("source", t, task) = Content[t]
    BY DEF File
  <1>8. \A task : File("isolated", t, task) = WithSublemma(Content[t], task.line, SubLine)
    BY DEF File
  <1>9. \A task \in Tasks[t] : task.line \in Nat
    BY <1>3
  <1>10. \A task \in SubTasks[t] : task.line \in Nat
    BY <1>4, <1>5
  <1> QED
    BY <1>1, <1>4, <1>6, <1>7, <1>8, <1>9, <1>10

\* What a call of any kind has found is a declaration of its file and a line with a hole.
LEMMA LookedIs ==
    ASSUME scanned \in Texts, NEW j, Looked(j), j.target # 0
    PROVE  /\ FileOf(j) \in Files /\ j.task.line \in Nat
           /\ j.decl \in 1..Len(FileOf(j)) /\ j.target \in 1..Len(FileOf(j))
           /\ j.target = FindSorry(FileOf(j), j.decl, j.task.line)
           /\ FileOf(j)[j.target].holes # <<>>
  <1>1. /\ j.text \in Texts /\ j.kind \in {"source", "isolated"}
        /\ j.decl = Decl(FileOf(j), j.task) /\ j.target = Target(FileOf(j), j.task)
        /\ j.kind = "source" => j.task \in Tasks[scanned]
        /\ j.kind = "isolated" => j.task \in SubTasks[j.text]
    BY DEF Looked, Jobs
  <1>2. FileOf(j) \in Files /\ j.task.line \in Nat
    <2>1. CASE j.kind = "source"
      BY <1>1, <2>1, FilesOfCalls, ContentIs DEF FileOf
    <2>2. CASE j.kind = "isolated"
      BY <1>1, <2>2, FilesOfCalls DEF FileOf
    <2> QED
      BY <1>1, <2>1, <2>2
  <1>3. PICK file, task : file = FileOf(j) /\ task = j.task
    OBVIOUS
  <1>4. /\ Decl(file, task) \in 1..Len(file)
        /\ Target(file, task) = FindSorry(file, Decl(file, task), task.line)
        /\ Target(file, task) \in 1..Len(file)
        /\ file[Target(file, task)].holes # <<>>
    BY <1>1, <1>2, <1>3, TargetIs
  <1> QED
    BY <1>1, <1>2, <1>3, <1>4

\* A splice that closes the declaration looked up is in the hole that was asked for.
LEMMA SplicedIsAsked ==
    ASSUME scanned \in Texts, NEW j, Looked(j), j.target # 0,
           j.decl \notin Warned(Spliced(FileOf(j), j.target))
    PROVE  /\ j.kind = "isolated" => HoleOf(j) = SubHole
           /\ j.kind = "source" /\ j.text = scanned
              /\ (Locatable(j.task) \/ Owner(Scanned, j.task.line) = j.decl)
                => HoleOf(j) = TaskHole(j.task)
  <1>1. /\ j.text \in Texts /\ j.decl = Decl(FileOf(j), j.task)
        /\ j.target = Target(FileOf(j), j.task)
        /\ j.kind = "source" => j.task \in Tasks[scanned]
        /\ j.kind = "isolated" => j.task \in SubTasks[j.text]
    BY DEF Looked, Jobs
  <1>2. /\ j.decl \in 1..Len(FileOf(j)) /\ j.target \in 1..Len(FileOf(j))
        /\ j.target = FindSorry(FileOf(j), j.decl, j.task.line)
    BY LookedIs
  <1>3. ASSUME j.kind = "isolated" PROVE HoleOf(j) = SubHole
    <2>1. PICK task : task = j.task /\ task \in SubTasks[j.text]
      BY <1>1, <1>3
    <2>2. PICK file : file = FileOf(j) /\ file = WithSublemma(Content[j.text], task.line, SubLine)
      BY <1>1, <1>3, <2>1, FilesOfCalls DEF FileOf
    <2>3. Target(file, task) = j.target
      BY <1>1, <2>1, <2>2
    <2>4. task.name = SubName /\ task.line \in DOMAIN Content[j.text]
      BY <1>1, <2>1, FilesOfCalls
    <2>5. Head(file[Target(file, task)].holes) = SubHole
      BY <1>1, <2>2, <2>3, <2>4, SublemmaIsFound
    <2> QED
      BY <2>2, <2>3, <2>5 DEF HoleOf
  <1>4. ASSUME j.kind = "source", j.text = scanned,
               Locatable(j.task) \/ Owner(Scanned, j.task.line) = j.decl
        PROVE  HoleOf(j) = TaskHole(j.task)
    <2>1. PICK file : file = Content[scanned]
      OBVIOUS
    <2>2. PICK task, line, col : task = j.task /\ line = task.line /\ col = task.col
      OBVIOUS
    <2>3. FileOf(j) = file /\ Scanned = file /\ file \in Files /\ IsContent(file)
      BY <1>4, <2>1, FilesOfCalls, ContentIs DEF FileOf, Scanned
    <2>4. task \in Scan(file) \cup Fetch(file)
      BY <1>1, <1>4, <2>1, <2>2, FilesOfCalls
    <2>5. line \in 1..Len(file) /\ col \in DOMAIN file[line].holes /\ EnclosingDecl(file, line) # 0
      BY <2>2, <2>3, <2>4, TaskIs
    <2>6. /\ j.decl \in 1..Len(file) /\ j.target = FindSorry(file, j.decl, line) /\ j.target # 0
          /\ j.decl \notin Warned(Spliced(file, j.target)) /\ j.decl = Decl(file, task)
      BY <1>1, <1>2, <2>2, <2>3
    <2>7. \/ Owner(file, line) = j.decl
          \/ line \in Block(file, j.decl) /\ col = 1
      <3>1. CASE Owner(Scanned, j.task.line) = j.decl
        BY <2>2, <2>3, <3>1
      <3>2. CASE Locatable(j.task)
        <4>1. /\ ~(task.name = AnyName /\ file[EnclosingDecl(file, line)].decl = Nameless)
              /\ task.name \notin Primed
              /\ \/ Owner(file, line) = EnclosingDecl(file, line)
                 \/ line \in Block(file, EnclosingDecl(file, line)) /\ col = 1
          BY <2>2, <2>3, <3>2 DEF Locatable, InNameless
        <4>2. task.name # Synthesized
          <5>1. line \in Nat
            BY <2>3, <2>5, LinesOf
          <5>2. j.decl # 0
            BY <2>3, <2>6, LinesOf
          <5> QED
            BY <2>1, <2>2, <2>6, <5>1, <5>2, SynthesizedIsNotFound
        <4>3. Decl(file, task) = EnclosingDecl(file, line)
          BY <2>2, <2>3, <2>4, <4>1, <4>2, DeclIsAbove
        <4> QED
          BY <2>6, <4>1, <4>3
      <3> QED
        BY <1>4, <3>1, <3>2
    <2>8. Head(file[j.target].holes) = file[line].holes[col]
      BY <2>3, <2>5, <2>6, <2>7, RightHole
    <2> QED
      BY <2>2, <2>3, <2>8 DEF HoleOf, TaskHole
  <1> QED
    BY <1>3, <1>4

\* A proof that deserves to be accepted is spliced into its hole, and closes the theorem.
LEMMA DeservedIsFound ==
    ASSUME scanned \in Texts, NEW j, Looked(j), Deserves(j), ~InNameless(j.task),
           j.task.name \notin Primed \cup {Synthesized}
    PROVE  /\ j.target # 0 /\ Integrity(FileOf(j), j.task)
           /\ HoleOf(j) = TaskHole(j.task)
           /\ j.decl \notin Warned(Spliced(FileOf(j), j.target))
  <1>1. PICK file : file = Content[scanned]
    OBVIOUS
  <1>2. PICK task, line, col : task = j.task /\ line = task.line /\ col = task.col
    OBVIOUS
  <1>3. /\ j.text \in Texts /\ j.decl = Decl(FileOf(j), j.task) /\ j.kind = "source"
        /\ j.target = Target(FileOf(j), j.task) /\ j.task \in Tasks[scanned] /\ j.text = scanned
    BY DEF Looked, Jobs, Deserves
  <1>4. FileOf(j) = file /\ Scanned = file /\ file \in Files /\ IsContent(file)
    BY <1>1, <1>3, FilesOfCalls, ContentIs DEF FileOf, Scanned
  <1>5. task \in Scan(file) \cup Fetch(file)
    BY <1>1, <1>2, <1>3, FilesOfCalls
  <1>6. line \in 1..Len(file) /\ col \in DOMAIN file[line].holes /\ EnclosingDecl(file, line) # 0
    BY <1>2, <1>4, <1>5, TaskIs
  <1>7. Decl(file, task) = EnclosingDecl(file, line)
    <2>1. /\ ~(task.name = AnyName /\ file[EnclosingDecl(file, line)].decl = Nameless)
          /\ task.name \notin Primed /\ task.name # Synthesized
      BY <1>2, <1>4 DEF InNameless
    <2> QED
      BY <1>2, <1>4, <1>5, <2>1, DeclIsAbove
  <1>8. HasOnlyHole(file, line)
    BY <1>2, <1>4, <1>6 DEF Deserves, IsOnlyHole, HasOnlyHole
  <1>9. /\ Target(file, task) = line /\ Integrity(file, task)
        /\ Decl(file, task) \notin Warned(Spliced(file, line)) /\ Len(file[line].holes) = 1
    BY <1>2, <1>4, <1>7, <1>8, OnlyHoleIsFound
  <1>10. j.target = line /\ line # 0
    BY <1>2, <1>3, <1>4, <1>6, <1>9, LinesOf
  <1>11. Head(file[line].holes) = file[line].holes[col]
    <2>1. file[line].holes \in Seq(Holes \cup {SubHole})
      BY <1>4, <1>6, LinesOf
    <2>2. col = 1
      BY <1>6, <1>9, <2>1
    <2> QED
      BY <2>1, <2>2
  <1> QED
    BY <1>2, <1>3, <1>4, <1>9, <1>10, <1>11 DEF HoleOf, TaskHole

----------------------------------------------------------------------------
(* The steps                                                               *)

\* A base that a call may use is a whole copy, not newer than the project.
WholeBase == base \in [imports : 0..imports, subs : SUBSET Callers, ready : {TRUE}]

\* What a process has on disk is what its calls need; of an earlier one there are as many run
\* directories as calls may run Lean at once.
DirsAreFew == \A k \in 0..crashes :
    IsFiniteSet(DirsOf(k)) /\ Cardinality(DirsOf(k)) <= MaxConcurrent
FilesInv ==
    /\ crashes \in Nat /\ halves \subseteq 0..crashes
    /\ runDirs \subseteq Callers \X (0..crashes) /\ subs \subseteq Callers \X (0..crashes)
    /\ NothingLeftBehind /\ DirsAreFew

\* Calls underway have looked up what they have in their text, for a task of this run, and the
\* base is whole while Lean runs.
Inv ==
    /\ text \in Texts /\ scanned \in Texts /\ edits \in 0..MaxEdits /\ imports \in 0..edits
    /\ base = None \/ WholeBase
    /\ pc \in [Callers -> {"free", "queued", "lean"}]
    /\ job \in [Callers -> Jobs \cup {None}]
    /\ \A c \in Callers :
        /\ pc[c] # "free" => /\ Looked(job[c]) /\ job[c].target # 0
                             /\ job[c].proof \notin Blacklisted
        /\ pc[c] = "lean" => WholeBase /\ (job[c].kind = "source" => job[c].written)
    /\ FilesInv
    /\ last # None => last.verdict \in {"accepted", "rejected"}

LEMMA InvImpliesFilesInOrder ==
    ASSUME Inv
    PROVE  FilesInOrder
  <1>1. MaxEdits \in Nat
    BY SubprocessVerifyAssumption
  <1>2. imports \in 0..MaxEdits
    BY <1>1 DEF Inv
  <1>3. base # None => base.imports \in 0..imports /\ base.subs \subseteq Callers /\ base.ready
    BY DEF Inv, WholeBase
  <1>4. runDirs \cup subs \subseteq Callers \X (0..crashes) /\ halves \subseteq 0..crashes
    BY DEF Inv, FilesInv
  <1>5. FewDirsLeft
    BY DEF Inv, FilesInv, DirsAreFew, FewDirsLeft
  <1>6. TypeOK
    BY <1>2, <1>3, <1>4 DEF Inv, TypeOK
  <1>7. NothingLeftBehind /\ BaseIsWhole
    BY <1>3 DEF Inv, FilesInv, BaseIsWhole
  <1> QED
    BY <1>5, <1>6, <1>7 DEF FilesInOrder

\* A set of calls that is part of one that is small enough, or has one more than a smaller one.
LEMMA FewerAreFew ==
    ASSUME NEW S, NEW R, R \subseteq S, IsFiniteSet(S), Cardinality(S) <= MaxConcurrent
    PROVE  IsFiniteSet(R) /\ Cardinality(R) <= MaxConcurrent
  <1>1. IsFiniteSet(R) /\ Cardinality(R) <= Cardinality(S)
    BY FS_Subset
  <1>2. Cardinality(R) \in Nat /\ Cardinality(S) \in Nat /\ MaxConcurrent \in Nat
    BY <1>1, FS_CardinalityType, SubprocessVerifyAssumption
  <1> QED
    BY <1>1, <1>2

LEMMA NoneAreFew == IsFiniteSet({}) /\ Cardinality({}) <= MaxConcurrent
  BY FS_EmptySet, SubprocessVerifyAssumption

LEMMA OneMoreIsFew ==
    ASSUME NEW S, NEW c, IsFiniteSet(S), Cardinality(S) < MaxConcurrent
    PROVE  IsFiniteSet(S \cup {c}) /\ Cardinality(S \cup {c}) <= MaxConcurrent
  <1>1. /\ IsFiniteSet(S \cup {c})
        /\ Cardinality(S \cup {c}) = IF c \in S THEN Cardinality(S) ELSE Cardinality(S) + 1
    BY FS_AddElement
  <1>2. Cardinality(S) \in Nat /\ MaxConcurrent \in Nat
    BY FS_CardinalityType, SubprocessVerifyAssumption
  <1> QED
    BY <1>1, <1>2

LEMMA FilesStay ==
    ASSUME FilesInv, crashes' = crashes, halves' = halves, runDirs' = runDirs, subs' = subs,
           pc' = pc, job' = job
    PROVE  FilesInv'
  <1>1. NothingLeftBehind' /\ DirsAreFew'
    BY DEF FilesInv, NothingLeftBehind, Own, DirsAreFew, DirsOf
  <1> QED
    BY <1>1 DEF FilesInv

\* A step of one call: the files of this process change with it, those of others stay.
LEMMA OwnFilesChange ==
    ASSUME FilesInv, NEW c \in Callers, crashes' = crashes, halves' = halves,
           runDirs' \in {runDirs, runDirs \cup {Own(c)}, runDirs \ {Own(c)}},
           subs' \in {subs, subs \cup {Own(c)}, subs \ {Own(c)}},
           Own(c) \in runDirs' <=> pc'[c] = "lean",
           Own(c) \in subs' <=> pc'[c] # "free" /\ job'[c].kind = "isolated",
           runDirs' = runDirs \cup {Own(c)} => Cardinality(InLean) < MaxConcurrent,
           \A d \in Callers : d # c => pc'[d] = pc[d] /\ job'[d] = job[d]
    PROVE  FilesInv'
  <1>1. /\ crashes' \in Nat /\ halves' \subseteq 0..crashes'
        /\ runDirs' \subseteq Callers \X (0..crashes') /\ subs' \subseteq Callers \X (0..crashes')
    BY DEF FilesInv, Own
  <1>2. NothingLeftBehind'
    <2>1. ASSUME NEW d \in Callers
          PROVE  /\ <<d, crashes>> \in runDirs' <=> pc'[d] = "lean"
                 /\ <<d, crashes>> \in subs' <=> pc'[d] # "free" /\ job'[d].kind = "isolated"
      BY DEF FilesInv, NothingLeftBehind, Own
    <2> QED
      BY <2>1 DEF FilesInv, NothingLeftBehind, Own
  <1>3. ASSUME NEW k \in 0..crashes
        PROVE  /\ IsFiniteSet({d \in Callers : <<d, k>> \in runDirs'})
               /\ Cardinality({d \in Callers : <<d, k>> \in runDirs'}) <= MaxConcurrent
    <2>1. PICK S : S = {d \in Callers : <<d, k>> \in runDirs}
      OBVIOUS
    <2>2. PICK R : R = {d \in Callers : <<d, k>> \in runDirs'}
      OBVIOUS
    <2>3. IsFiniteSet(S) /\ Cardinality(S) <= MaxConcurrent
      BY <2>1 DEF FilesInv, DirsAreFew, DirsOf
    <2>4. CASE R \subseteq S
      BY <2>2, <2>3, <2>4, FewerAreFew
    <2>5. CASE ~(R \subseteq S)
      <3>1. runDirs' = runDirs \cup {Own(c)} /\ k = crashes
        BY <2>1, <2>2, <2>5 DEF Own
      <3>2. R = S \cup {c}
        BY <2>1, <2>2, <3>1 DEF Own
      <3>3. S = InLean
        BY <2>1, <3>1 DEF FilesInv, NothingLeftBehind, InLean, Own
      <3>4. Cardinality(S) < MaxConcurrent
        BY <3>1, <3>3
      <3>5. IsFiniteSet(R) /\ Cardinality(R) <= MaxConcurrent
        BY <2>3, <3>2, <3>4, OneMoreIsFew
      <3> QED
        BY <2>2, <3>5
    <2> QED
      BY <2>4, <2>5
  <1>4. DirsAreFew'
    BY <1>3 DEF DirsAreFew, DirsOf
  <1> QED
    BY <1>1, <1>2, <1>4 DEF FilesInv

LEMMA FoundIs ==
    ASSUME NEW u \in Texts, NEW found \in Finds[u]
    PROVE  found.text = u /\ found = Found(found.kind, found.text, found.task)
  <1>1. ASSUME NEW kind, NEW t, NEW task, found = Found(kind, t, task)
        PROVE  found.kind = kind /\ found.text = t /\ found.task = task
    BY <1>1 DEF Found
  <1>2. \E kind, task : found = Found(kind, u, task)
    BY DEF Finds
  <1> QED
    BY <1>1, <1>2

\* What a call with a task of this run, or of a sublemma, is about.
IsTask(kind, task) ==
    \/ kind = "source" /\ task \in Tasks[scanned]
    \/ kind = "isolated" /\ task \in SubTasks[text]

LEMMA JobIsLooked ==
    ASSUME text \in Texts, scanned \in Texts, NEW kind, NEW task, IsTask(kind, task),
           NEW proof \in Proofs, NEW found, found = Found(kind, text, task)
    PROVE  Looked(Job(found, proof)) /\ Job(found, proof).kind = kind
  <1>1. PICK j : j = Job(found, proof)
    OBVIOUS
  <1>2. PICK file : file = File(kind, text, task)
    OBVIOUS
  <1>3. /\ j = [kind |-> kind, task |-> task, proof |-> proof, text |-> text,
                decl |-> Decl(file, task), target |-> Target(file, task), written |-> FALSE]
    BY <1>1, <1>2 DEF Job, Found
  <1>4. FileOf(j) = file
    BY <1>2, <1>3 DEF FileOf
  <1>5. file \in Files /\ task.line \in Nat /\ task \in AnyTask /\ kind \in {"source", "isolated"}
    <2>1. CASE kind = "source" /\ task \in Tasks[scanned]
      <3>1. file \in Files /\ task.line \in Nat
        BY <1>2, <2>1, FilesOfCalls, ContentIs
      <3> QED
        BY <2>1, <3>1 DEF AnyTask, SourceTasks
    <2>2. CASE kind = "isolated" /\ task \in SubTasks[text]
      <3>1. file \in Files /\ task.line \in Nat
        BY <1>2, <2>2, FilesOfCalls
      <3>2. task \in IsolatedTasks
        BY <2>2 DEF IsolatedTasks
      <3>3. task \in AnyTask
        BY <3>2 DEF AnyTask
      <3> QED
        BY <2>2, <3>1, <3>3
    <2> QED
      BY <2>1, <2>2 DEF IsTask
  <1>6. Decl(file, task) \in Nat
    BY <1>5, FoundIsCandidate, LinesOf DEF Decl, Candidates
  <1>7. Target(file, task) \in Nat
    <2>1. CASE Target(file, task) = 0
      BY <2>1
    <2>2. CASE Target(file, task) # 0
      BY <1>5, <2>2, TargetIs, LinesOf
    <2> QED
      BY <2>1, <2>2
  <1>8. j \in Jobs
    BY <1>3, <1>5, <1>6, <1>7 DEF Jobs
  <1>9. j.decl = Decl(FileOf(j), j.task) /\ j.target = Target(FileOf(j), j.task)
    BY <1>3, <1>4
  <1>10. /\ j.kind = "source" => j.task \in Tasks[scanned]
         /\ j.kind = "isolated" => j.task \in SubTasks[j.text]
    BY <1>3 DEF IsTask
  <1> QED
    BY <1>1, <1>3, <1>8, <1>9, <1>10 DEF Looked

\* The properties of the verdict of the last step.
Verdicts == VerdictIsSound /\ RightProofAccepted

LEMMA NoVerdict ==
    ASSUME last' = None
    PROVE  Verdicts'
  BY DEF Verdicts, VerdictIsSound, AcceptedIsRight, AcceptedClosesTheorem, RightProofAccepted

LEMMA OtherVerdict ==
    ASSUME scanned' = scanned, NEW j, NEW v, last' = Outcome(j, v), v # "accepted",
           v = "rejected" /\ ~InNameless(j.task) /\ j.task.name \notin Primed \cup {Synthesized}
             => ~Deserves(j)
    PROVE  Verdicts'
  <1>1. last'.verdict = v /\ last'.job = j
    BY DEF Outcome
  <1>2. VerdictIsSound'
    BY <1>1 DEF VerdictIsSound, AcceptedIsRight, AcceptedClosesTheorem
  <1>3. RightProofAccepted'
    BY <1>1 DEF RightProofAccepted, Deserves, InNameless, IsOnlyHole, TaskHole, Scanned
  <1> QED
    BY <1>2, <1>3 DEF Verdicts

LEMMA AcceptedVerdict ==
    ASSUME scanned' = scanned, NEW j, last' = Outcome(j, "accepted"),
           base'.imports = base.imports,
           j.kind = "isolated" => <<j.proof, SubHole, base.imports>> \in Right,
           j.kind = "source" /\ j.text = scanned /\ Locatable(j.task)
             => <<j.proof, TaskHole(j.task), base.imports>> \in Right,
           j.decl \notin Warned(Spliced(FileOf(j), j.target)),
           j.kind = "source" /\ j.text = scanned /\ Owner(Scanned, j.task.line) = j.decl
             => HoleOf(j) = TaskHole(j.task)
    PROVE  Verdicts'
  <1>1. last'.verdict = "accepted" /\ last'.job = j
    BY DEF Outcome
  <1>2. AcceptedIsRight'
    BY <1>1 DEF AcceptedIsRight, Locatable, InNameless, TaskHole, Scanned
  <1>3. AcceptedClosesTheorem'
    BY <1>1 DEF AcceptedClosesTheorem, TaskHole, Scanned
  <1>4. RightProofAccepted'
    BY <1>1 DEF RightProofAccepted
  <1> QED
    BY <1>2, <1>3, <1>4 DEF Verdicts, VerdictIsSound

LEMMA BeginKeeps ==
    ASSUME Inv, NEW c \in Callers, pc[c] = "free", NEW kind, NEW task, IsTask(kind, task),
           NEW proof \in Proofs, Begin(c, kind, task, proof)
    PROVE  Inv' /\ Verdicts'
  <1>1. PICK found \in Finds[text] :
            /\ found.kind = kind /\ found.task = task
            /\ IF MayRun(found, proof)
               THEN /\ pc' = [pc EXCEPT ![c] = "queued"]
                    /\ job' = [job EXCEPT ![c] = Job(found, proof)]
                    /\ subs' = IF kind = "isolated" THEN subs \cup {Own(c)} ELSE subs
                    /\ last' = None
               ELSE last' = Outcome(Job(found, proof), "rejected") /\ UNCHANGED <<calls, subs>>
            /\ UNCHANGED <<project, base, runDirs, halves>>
    BY DEF Begin
  <1>2. found = Found(kind, text, task) /\ found.text = text
    BY <1>1, FoundIs DEF Inv
  <1>3. PICK j : j = Job(found, proof)
    OBVIOUS
  <1>4. Looked(j) /\ j.kind = kind /\ j \in Jobs
    BY <1>2, <1>3, JobIsLooked DEF Inv, Looked
  <1>5. j.proof = proof /\ j.target = found.target /\ j.task = task /\ j.text = text
    BY <1>1, <1>2, <1>3 DEF Job
  <1>6. text' = text /\ scanned' = scanned /\ imports' = imports /\ edits' = edits
        /\ base' = base /\ runDirs' = runDirs /\ halves' = halves /\ crashes' = crashes
    BY <1>1 DEF project
  <1>7. CASE MayRun(found, proof)
    <2>1. /\ pc' = [pc EXCEPT ![c] = "queued"] /\ job' = [job EXCEPT ![c] = j]
          /\ subs' = (IF kind = "isolated" THEN subs \cup {Own(c)} ELSE subs) /\ last' = None
      BY <1>1, <1>3, <1>7
    <2>2. j.target # 0 /\ j.proof \notin Blacklisted
      BY <1>5, <1>7 DEF MayRun
    <2>3. /\ pc' \in [Callers -> {"free", "queued", "lean"}]
          /\ job' \in [Callers -> Jobs \cup {None}]
          /\ pc'[c] = "queued" /\ job'[c] = j
          /\ \A d \in Callers : d # c => pc'[d] = pc[d] /\ job'[d] = job[d]
      BY <1>4, <2>1 DEF Inv
    <2>4. ASSUME NEW d \in Callers
          PROVE  /\ pc'[d] # "free" => /\ Looked(job[d])' /\ job'[d].target # 0
                                       /\ job'[d].proof \notin Blacklisted
                 /\ pc'[d] = "lean" => WholeBase' /\ (job'[d].kind = "source" => job'[d].written)
      BY <1>4, <1>6, <2>2, <2>3 DEF Inv, Looked, WholeBase
    <2>5. FilesInv'
      <3>1. FilesInv /\ Own(c) \notin runDirs /\ Own(c) \notin subs
        BY DEF Inv, FilesInv, NothingLeftBehind
      <3>2. /\ runDirs' # runDirs \cup {Own(c)}
            /\ Own(c) \in runDirs' <=> pc'[c] = "lean"
            /\ Own(c) \in subs' <=> pc'[c] # "free" /\ job'[c].kind = "isolated"
            /\ subs' \in {subs, subs \cup {Own(c)}, subs \ {Own(c)}}
        BY <1>4, <1>6, <2>1, <2>3, <3>1
      <3> QED
        BY <1>6, <2>3, <3>1, <3>2, OwnFilesChange
    <2>6. Inv'
      BY <1>6, <2>1, <2>3, <2>4, <2>5 DEF Inv, WholeBase
    <2> QED
      BY <2>1, <2>6, NoVerdict
  <1>8. CASE ~MayRun(found, proof)
    <2>1. last' = Outcome(j, "rejected") /\ pc' = pc /\ job' = job /\ subs' = subs
      BY <1>1, <1>3, <1>8 DEF calls
    <2>2. ASSUME ~InNameless(j.task), j.task.name \notin Primed \cup {Synthesized}, Deserves(j)
          PROVE  FALSE
      <3>1. j.target # 0 /\ Integrity(FileOf(j), j.task)
        BY <1>4, <2>2, DeservedIsFound DEF Inv
      <3>2. j.proof \notin Blacklisted
        BY <2>2 DEF Deserves
      <3>3. found.passes = (Target(FileOf(j), j.task) # 0 /\ Integrity(FileOf(j), j.task))
        BY <1>2, <1>4, <1>5 DEF Found, FileOf
      <3>4. Target(FileOf(j), j.task) = j.target
        BY <1>4 DEF Looked
      <3> QED
        BY <1>5, <1>8, <3>1, <3>2, <3>3, <3>4 DEF MayRun
    <2>3. Verdicts'
      BY <1>6, <2>1, <2>2, OtherVerdict
    <2>4. FilesInv'
      BY <1>6, <2>1, FilesStay DEF Inv
    <2>5. Inv'
      BY <1>6, <2>1, <2>4 DEF Inv, Looked, WholeBase, Outcome
    <2> QED
      BY <2>3, <2>5
  <1> QED
    BY <1>7, <1>8

LEMMA VerifyKeeps ==
    ASSUME Inv, NEW c \in Callers, NEW task \in Tasks[scanned], NEW proof \in Proofs,
           Verify(c, task, proof) \/ VerifyIsolated(c, task, proof)
    PROVE  Inv' /\ Verdicts'
  <1>1. IsTask("source", task)
    BY DEF IsTask
  <1>2. CASE Verify(c, task, proof)
    BY <1>1, <1>2, BeginKeeps DEF Verify
  <1>3. CASE VerifyIsolated(c, task, proof)
    <2>1. PICK parent : parent = FirstDecl(Content[text], task.name)
      OBVIOUS
    <2>2. CASE ~Isolable(task)
      BY <1>1, <1>3, <2>2, BeginKeeps DEF VerifyIsolated
    <2>3. CASE Isolable(task)
      <3>1. PICK sub : sub = [line |-> parent, col |-> 1, name |-> SubName]
        OBVIOUS
      <3>2. PICK found : found = Candidates(Content[text], task.name)
        OBVIOUS
      <3>3. text \in Texts /\ Content[text] \in Files
        BY ContentIs DEF Inv
      <3>4. found \subseteq 1..Len(Content[text]) /\ DOMAIN Content[text] = 1..Len(Content[text])
            /\ Len(Content[text]) \in Nat
        BY <3>2, <3>3, LinesOf DEF Candidates
      <3>5. found # {} /\ parent = Min(found)
        BY <2>1, <2>3, <3>2 DEF FirstDecl, Isolable
      <3>6. found \subseteq Nat
        BY <3>4
      <3>7. parent \in DOMAIN Content[text]
        BY <3>4, <3>5, <3>6, MinIsLeast
      <3>8. IsTask("isolated", sub)
        BY <3>1, <3>3, <3>7 DEF IsTask, SubTasks
      <3>9. pc[c] = "free" /\ Begin(c, "isolated", sub, proof)
        BY <1>3, <2>1, <2>3, <3>1 DEF VerifyIsolated, SubTask
      <3> QED
        BY <3>8, <3>9, BeginKeeps
    <2> QED
      BY <2>2, <2>3
  <1> QED
    BY <1>2, <1>3

LEMMA StartKeeps ==
    ASSUME Inv, NEW c \in Callers, Start(c)
    PROVE  Inv' /\ Verdicts'
  <1>1. PICK w : w = (job[c].kind = "source" \/ c \in EnsuredBase.subs)
    OBVIOUS
  <1>2. PICK j : j = job[c]
    OBVIOUS
  <1>3. /\ text' = text /\ scanned' = scanned /\ imports' = imports /\ edits' = edits
        /\ subs' = subs /\ last' = None /\ pc[c] = "queued" /\ base' = EnsuredBase
        /\ runDirs' = runDirs \cup {Own(c)} /\ pc' = [pc EXCEPT ![c] = "lean"]
        /\ halves' = halves /\ crashes' = crashes /\ Cardinality(InLean) < MaxConcurrent
        /\ job' = [job EXCEPT ![c].written = w]
    BY <1>1 DEF Start, MayStart, project
  <1>4. Looked(j) /\ j.target # 0 /\ j.proof \notin Blacklisted /\ j \in Jobs
    BY <1>2, <1>3 DEF Inv, Looked
  <1>5. WholeBase'
    <2>1. {d \in Callers : Own(d) \in subs} \subseteq Callers
      OBVIOUS
    <2>2. imports \in 0..imports
      BY DEF Inv
    <2> QED
      BY <1>3, <2>1, <2>2 DEF Inv, WholeBase, EnsuredBase, Snapshot
  <1>6. PICK k : k = [j EXCEPT !.written = w]
    OBVIOUS
  <1>7. w \in BOOLEAN /\ (j.kind = "source" => w = TRUE)
    BY <1>1, <1>2
  <1>8. /\ k \in Jobs /\ k.kind = j.kind /\ k.task = j.task /\ k.proof = j.proof /\ k.text = j.text
        /\ k.decl = j.decl /\ k.target = j.target /\ k.written = w
    BY <1>4, <1>6, <1>7 DEF Jobs
  <1>9. Looked(k)
    BY <1>4, <1>8 DEF Looked, FileOf
  <1>10. /\ pc' \in [Callers -> {"free", "queued", "lean"}]
         /\ job' \in [Callers -> Jobs \cup {None}]
         /\ pc'[c] = "lean" /\ job'[c] = k
         /\ \A d \in Callers : d # c => pc'[d] = pc[d] /\ job'[d] = job[d]
    <2>1. job' = [job EXCEPT ![c] = k]
      BY <1>2, <1>3, <1>6 DEF Inv
    <2> QED
      BY <1>3, <1>8, <2>1 DEF Inv
  <1>11. ASSUME NEW d \in Callers
         PROVE  /\ pc'[d] # "free" => /\ Looked(job[d])' /\ job'[d].target # 0
                                      /\ job'[d].proof \notin Blacklisted
                /\ pc'[d] = "lean" => WholeBase' /\ (job'[d].kind = "source" => job'[d].written)
    <2>1. CASE d = c
      <3>1. Looked(job[d])'
        BY <1>3, <1>9, <1>10, <2>1 DEF Looked
      <3> QED
        BY <1>4, <1>5, <1>7, <1>8, <1>10, <2>1, <3>1
    <2>2. CASE d # c
      <3>1. pc[d] # "free" => Looked(job[d])'
        BY <1>3, <1>10, <2>2 DEF Inv, Looked
      <3> QED
        BY <1>5, <1>10, <2>2, <3>1 DEF Inv
    <2> QED
      BY <2>1, <2>2
  <1>12. FilesInv'
    <2>1. FilesInv /\ (Own(c) \in subs <=> j.kind = "isolated")
      BY <1>2, <1>3 DEF Inv, FilesInv, NothingLeftBehind
    <2>2. /\ Own(c) \in runDirs' <=> pc'[c] = "lean"
          /\ Own(c) \in subs' <=> pc'[c] # "free" /\ job'[c].kind = "isolated"
          /\ runDirs' \in {runDirs, runDirs \cup {Own(c)}, runDirs \ {Own(c)}}
          /\ subs' \in {subs, subs \cup {Own(c)}, subs \ {Own(c)}}
      BY <1>3, <1>8, <1>10, <2>1
    <2> QED
      BY <1>3, <1>10, <2>1, <2>2, OwnFilesChange
  <1>13. Inv'
    BY <1>3, <1>5, <1>10, <1>11, <1>12 DEF Inv
  <1> QED
    BY <1>3, <1>13, NoVerdict

\* The end of a call, whatever its verdict.
LEMMA ReturnKeeps ==
    ASSUME Inv, NEW c \in Callers, Returns(c),
           last' # None => last'.verdict \in {"accepted", "rejected"}
    PROVE  Inv'
  <1>1. /\ text' = text /\ scanned' = scanned /\ imports' = imports /\ edits' = edits
        /\ subs' = subs \ {Own(c)} /\ runDirs' = runDirs \ {Own(c)}
        /\ halves' = halves /\ crashes' = crashes
        /\ pc' = [pc EXCEPT ![c] = "free"] /\ job' = [job EXCEPT ![c] = None]
        /\ base' = IF base = None THEN None ELSE [base EXCEPT !.subs = @ \ {c}]
    BY DEF Returns, project
  <1>2. /\ pc' \in [Callers -> {"free", "queued", "lean"}]
        /\ job' \in [Callers -> Jobs \cup {None}]
        /\ pc'[c] = "free" /\ job'[c] = None
        /\ \A d \in Callers : d # c => pc'[d] = pc[d] /\ job'[d] = job[d]
    BY <1>1 DEF Inv
  <1>3. /\ base' = None \/ WholeBase'
        /\ WholeBase => WholeBase'
    <2>1. ASSUME WholeBase PROVE WholeBase'
      BY <1>1, <2>1 DEF WholeBase
    <2> QED
      BY <1>1, <2>1 DEF Inv
  <1>4. ASSUME NEW d \in Callers
        PROVE  /\ pc'[d] # "free" => /\ Looked(job[d])' /\ job'[d].target # 0
                                     /\ job'[d].proof \notin Blacklisted
               /\ pc'[d] = "lean" => WholeBase' /\ (job'[d].kind = "source" => job'[d].written)
    <2>1. CASE d # c
      <3>1. pc[d] # "free" => Looked(job[d])'
        BY <1>1, <1>2, <2>1 DEF Inv, Looked
      <3> QED
        BY <1>2, <1>3, <2>1, <3>1 DEF Inv
    <2> QED
      BY <1>2, <2>1
  <1>5. FilesInv'
    <2>1. FilesInv /\ runDirs' # runDirs \cup {Own(c)}
      BY <1>1 DEF Inv
    <2>2. /\ Own(c) \in runDirs' <=> pc'[c] = "lean"
          /\ Own(c) \in subs' <=> pc'[c] # "free" /\ job'[c].kind = "isolated"
      BY <1>1, <1>2
    <2> QED
      BY <1>1, <1>2, <2>1, <2>2, OwnFilesChange
  <1> QED
    BY <1>1, <1>2, <1>3, <1>4, <1>5 DEF Inv

LEMMA LeanEndsKeeps ==
    ASSUME Inv, NEW c \in Callers, LeanEnds(c)
    PROVE  Inv' /\ Verdicts'
  <1>1. PICK j : j = job[c]
    OBVIOUS
  <1>2. pc[c] = "lean" /\ Returns(c)
        /\ last' = Outcome(j, IF Accepts(j) THEN "accepted" ELSE "rejected")
    BY <1>1 DEF LeanEnds
  <1>3. scanned' = scanned /\ scanned \in Texts
    BY <1>2 DEF Inv, Returns, project
  <1>4. /\ Looked(j) /\ j.target # 0 /\ WholeBase
        /\ j.kind = "source" => j.written
    BY <1>1, <1>2 DEF Inv
  <1>5. base'.imports = base.imports /\ base.imports \in 0..MaxEdits
    <2>1. base' = IF base = None THEN None ELSE [base EXCEPT !.subs = @ \ {c}]
      BY <1>2 DEF Returns
    <2>2. base'.imports = base.imports
      BY <1>4, <2>1 DEF WholeBase
    <2>3. base.imports \in 0..imports /\ imports \in 0..edits /\ edits \in 0..MaxEdits
      BY <1>4 DEF Inv, WholeBase
    <2>4. MaxEdits \in Nat
      BY SubprocessVerifyAssumption
    <2> QED
      BY <2>2, <2>3, <2>4
  <1>6. last'.verdict \in {"accepted", "rejected"}
    BY <1>2 DEF Outcome
  <1>7. Inv'
    BY <1>2, <1>6, ReturnKeeps
  <1>8. CASE Accepts(j)
    <2>1. last' = Outcome(j, "accepted")
      BY <1>2, <1>8
    <2>2. /\ <<j.proof, HoleOf(j), base.imports>> \in Right
          /\ j.decl \notin Warned(Spliced(FileOf(j), j.target))
      BY <1>8 DEF Accepts, LeanTakes
    <2>3. /\ j.kind = "isolated" => HoleOf(j) = SubHole
          /\ j.kind = "source" /\ j.text = scanned
             /\ (Locatable(j.task) \/ Owner(Scanned, j.task.line) = j.decl)
               => HoleOf(j) = TaskHole(j.task)
      BY <1>3, <1>4, <2>2, SplicedIsAsked
    <2> QED
      BY <1>3, <1>5, <1>7, <2>1, <2>2, <2>3, AcceptedVerdict
  <1>9. CASE ~Accepts(j)
    <2>1. last' = Outcome(j, "rejected")
      BY <1>2, <1>9
    <2>2. ASSUME ~InNameless(j.task), j.task.name \notin Primed \cup {Synthesized}, Deserves(j)
          PROVE  FALSE
      <3>1. /\ HoleOf(j) = TaskHole(j.task)
            /\ j.decl \notin Warned(Spliced(FileOf(j), j.target))
        BY <1>3, <1>4, <2>2, DeservedIsFound
      <3>2. j.written /\ <<j.proof, TaskHole(j.task), base.imports>> \in Right
        BY <1>4, <1>5, <2>2 DEF Deserves
      <3> QED
        BY <1>9, <3>1, <3>2 DEF Accepts, LeanTakes
    <2> QED
      BY <1>3, <1>7, <2>1, <2>2, OtherVerdict
  <1> QED
    BY <1>8, <1>9

LEMMA NoVerdictKeeps ==
    ASSUME Inv, NEW c \in Callers, TimesOut(c) \/ Cancel(c)
    PROVE  Inv' /\ Verdicts'
  <1>1. Returns(c) /\ last' = None
    BY DEF TimesOut, Cancel
  <1> QED
    BY <1>1, ReturnKeeps, NoVerdict

LEMMA EditKeeps ==
    ASSUME Inv, Edit
    PROVE  Inv' /\ Verdicts'
  <1>1. /\ scanned' = scanned /\ pc' = pc /\ job' = job /\ last' = None
        /\ base' = base /\ subs' = subs /\ runDirs' = runDirs /\ halves' = halves
        /\ crashes' = crashes /\ edits' = edits + 1 /\ edits < MaxEdits
        /\ text' \in Texts /\ imports' \in imports..(imports + 1)
    BY DEF Inv, Edit, disk, calls
  <1>2. MaxEdits \in Nat
    BY SubprocessVerifyAssumption
  <1>3. edits' \in 0..MaxEdits /\ imports' \in 0..edits' /\ 0..imports \subseteq 0..imports'
    BY <1>1, <1>2 DEF Inv
  <1>4. WholeBase => WholeBase'
    BY <1>1, <1>3 DEF WholeBase
  <1>5. FilesInv'
    BY <1>1, FilesStay DEF Inv
  <1>6. ASSUME NEW d \in Callers, pc[d] # "free" PROVE Looked(job[d])'
    BY <1>1, <1>6 DEF Inv, Looked
  <1>7. Inv'
    BY <1>1, <1>3, <1>4, <1>5, <1>6 DEF Inv
  <1> QED
    BY <1>1, <1>7, NoVerdict

\* What a kill leaves of the files: no more run directories than calls may run Lean at once.
LEMMA LeftIsFew ==
    ASSUME FilesInv, MaxConcurrent \in Nat,
           crashes' = crashes + 1, halves' \in {halves, halves \cup {crashes}},
           NEW c \in Callers, runDirs' \subseteq runDirs \cup {Own(c)},
           subs' \subseteq subs \cup {Own(c)},
           runDirs' \subseteq runDirs \/ Cardinality(InLean) < MaxConcurrent,
           \A d \in Callers : pc'[d] = "free"
    PROVE  FilesInv'
  <1>1. /\ crashes' \in Nat /\ halves' \subseteq 0..crashes'
        /\ runDirs' \subseteq Callers \X (0..crashes) /\ subs' \subseteq Callers \X (0..crashes)
        /\ 0..crashes \subseteq 0..crashes' /\ crashes' \notin 0..crashes
    BY DEF FilesInv, Own
  <1>2. NothingLeftBehind'
    <2>1. ASSUME NEW d \in Callers
          PROVE  <<d, crashes'>> \notin runDirs' /\ <<d, crashes'>> \notin subs'
      BY <1>1
    <2>2. crashes' \notin halves'
      BY DEF FilesInv
    <2> QED
      BY <2>1, <2>2 DEF NothingLeftBehind, Own
  <1>3. ASSUME NEW k \in 0..crashes'
        PROVE  /\ IsFiniteSet({d \in Callers : <<d, k>> \in runDirs'})
               /\ Cardinality({d \in Callers : <<d, k>> \in runDirs'}) <= MaxConcurrent
    <2>1. PICK R : R = {d \in Callers : <<d, k>> \in runDirs'}
      OBVIOUS
    <2>2. CASE k \notin 0..crashes
      <3>1. R = {}
        BY <1>1, <2>1, <2>2
      <3> QED
        BY <2>1, <3>1, NoneAreFew
    <2>3. CASE k \in 0..crashes
      <3>1. PICK S : S = {d \in Callers : <<d, k>> \in runDirs}
        OBVIOUS
      <3>2. IsFiniteSet(S) /\ Cardinality(S) <= MaxConcurrent
        BY <2>3, <3>1 DEF FilesInv, DirsAreFew, DirsOf
      <3>3. CASE R \subseteq S
        BY <2>1, <3>2, <3>3, FewerAreFew
      <3>4. CASE ~(R \subseteq S)
        <4>1. k = crashes /\ R \subseteq S \cup {c} /\ Cardinality(InLean) < MaxConcurrent
          BY <2>1, <3>1, <3>4 DEF Own
        <4>2. S = InLean
          BY <3>1, <4>1 DEF FilesInv, NothingLeftBehind, InLean, Own
        <4>3. IsFiniteSet(S \cup {c}) /\ Cardinality(S \cup {c}) <= MaxConcurrent
          BY <3>2, <4>1, <4>2, OneMoreIsFew
        <4> QED
          BY <2>1, <4>1, <4>3, FewerAreFew
      <3> QED
        BY <3>3, <3>4
    <2> QED
      BY <2>2, <2>3
  <1>4. DirsAreFew'
    BY <1>3 DEF DirsAreFew, DirsOf
  <1> QED
    BY <1>1, <1>2, <1>4 DEF FilesInv

\* The base after a kill, from what there was or was just made.
LEMMA LeftBaseIsWhole ==
    ASSUME Inv, imports' = imports, NEW s, NEW r, NEW h,
           Leaves(base, s, r, h) \/ Leaves(EnsuredBase, s, r, h) \/ Leaves(None, s, r, h)
    PROVE  base' = None \/ WholeBase'
  <1>1. PICK b : /\ b \in {base, EnsuredBase, None}
                 /\ base' = IF b = None THEN None ELSE [b EXCEPT !.subs = {}]
    BY DEF Leaves
  <1>2. imports \in 0..imports
    BY DEF Inv
  <1>3. base = None \/ base \in [imports : 0..imports, subs : SUBSET Callers, ready : {TRUE}]
    BY DEF Inv, WholeBase
  <1>4. EnsuredBase = None
        \/ EnsuredBase \in [imports : 0..imports, subs : SUBSET Callers, ready : {TRUE}]
    BY <1>2, <1>3 DEF EnsuredBase, Snapshot
  <1>5. b = None \/ b \in [imports : 0..imports, subs : SUBSET Callers, ready : {TRUE}]
    <2>1. b = base \/ b = EnsuredBase \/ b = None
      BY <1>1
    <2>2. CASE b = base
      BY <1>3, <2>2
    <2>3. CASE b = EnsuredBase
      BY <1>4, <2>3
    <2> QED
      BY <2>1, <2>2, <2>3
  <1> QED
    BY <1>1, <1>5 DEF WholeBase

LEMMA CrashKeeps ==
    ASSUME Inv, Crash
    PROVE  Inv' /\ Verdicts'
  <1>1. /\ scanned' = text /\ text' = text /\ imports' = imports /\ edits' = edits
        /\ crashes' = crashes + 1 /\ last' = None
        /\ pc' = [d \in Callers |-> "free"] /\ job' = [d \in Callers |-> None]
        /\ Leaves(base, subs, runDirs, halves) \/ \E c \in Callers : Cut(c)
    BY DEF Crash
  <1>2. /\ \A d \in Callers : pc'[d] = "free"
        /\ MaxConcurrent \in Nat /\ FilesInv
    BY <1>1, SubprocessVerifyAssumption DEF Inv
  <1>3. CASE Leaves(base, subs, runDirs, halves) /\ Callers = {}
    <2>1. /\ base' = None \/ WholeBase'
          /\ subs' = subs /\ runDirs' = runDirs /\ halves' = halves
      BY <1>1, <1>3, LeftBaseIsWhole DEF Leaves
    <2>2. crashes \in Nat /\ crashes' \notin halves /\ halves \subseteq 0..crashes'
          /\ runDirs = {} /\ subs = {}
      BY <1>1, <1>2, <1>3 DEF FilesInv
    <2>3. NothingLeftBehind'
      BY <1>3, <2>1, <2>2 DEF NothingLeftBehind
    <2>4. \A k : {d \in Callers : <<d, k>> \in runDirs'} = {}
      BY <1>3
    <2>5. DirsAreFew'
      BY <2>4, NoneAreFew DEF DirsAreFew, DirsOf
    <2> QED
      BY <1>1, <1>3, <2>1, <2>2, <2>3, <2>5, NoVerdict DEF Inv, FilesInv
  <1>4. ASSUME NEW c \in Callers, Leaves(base, subs, runDirs, halves) \/ Cut(c)
        PROVE  (base' = None \/ WholeBase') /\ FilesInv'
    <2>1. CASE Leaves(base, subs, runDirs, halves)
      <3>1. subs' = subs /\ runDirs' = runDirs /\ halves' = halves
        BY <2>1 DEF Leaves
      <3> QED
        BY <1>1, <1>2, <2>1, <3>1, LeftBaseIsWhole, LeftIsFew
    <2>2. CASE Leaves(HalfCopy.base, subs, runDirs, HalfCopy.halves)
      <3>1. Leaves(None, subs, runDirs, halves \cup {crashes})
        BY <2>2 DEF HalfCopy
      <3>2. subs' = subs /\ runDirs' = runDirs /\ halves' = halves \cup {crashes}
        BY <3>1 DEF Leaves
      <3> QED
        BY <1>1, <1>2, <3>1, <3>2, LeftBaseIsWhole, LeftIsFew
    <2>3. CASE Leaves(EnsuredBase, subs, runDirs, halves)
      <3>1. subs' = subs /\ runDirs' = runDirs /\ halves' = halves
        BY <2>3 DEF Leaves
      <3> QED
        BY <1>1, <1>2, <2>3, <3>1, LeftBaseIsWhole, LeftIsFew
    <2>4. CASE Leaves(EnsuredBase, subs, runDirs \cup {Own(c)}, halves) /\ MayStart(c)
      <3>1. subs' = subs /\ runDirs' = runDirs \cup {Own(c)} /\ halves' = halves
        BY <2>4 DEF Leaves
      <3>2. Cardinality(InLean) < MaxConcurrent
        BY <2>4 DEF MayStart
      <3> QED
        BY <1>1, <1>2, <2>4, <3>1, <3>2, LeftBaseIsWhole, LeftIsFew
    <2>5. CASE Leaves(base, subs \cup {Own(c)}, runDirs, halves)
      <3>1. subs' = subs \cup {Own(c)} /\ runDirs' = runDirs /\ halves' = halves
        BY <2>5 DEF Leaves
      <3> QED
        BY <1>1, <1>2, <2>5, <3>1, LeftBaseIsWhole, LeftIsFew
    <2>6. CASE Leaves(base, subs, runDirs \ {Own(c)}, halves)
      <3>1. subs' = subs /\ runDirs' = runDirs \ {Own(c)} /\ halves' = halves
        BY <2>6 DEF Leaves
      <3> QED
        BY <1>1, <1>2, <2>6, <3>1, LeftBaseIsWhole, LeftIsFew
    <2> QED
      BY <1>4, <2>1, <2>2, <2>3, <2>4, <2>5, <2>6 DEF Cut
  <1>5. CASE Callers # {}
    <2>1. (base' = None \/ WholeBase') /\ FilesInv'
      BY <1>1, <1>4, <1>5
    <2>2. Inv'
      BY <1>1, <1>2, <2>1 DEF Inv
    <2> QED
      BY <1>1, <2>2, NoVerdict
  <1> QED
    BY <1>1, <1>3, <1>5

LEMMA StepKeeps ==
    ASSUME Inv, Verdicts, [Next]_vars
    PROVE  Inv' /\ Verdicts'
  <1>1. CASE UNCHANGED vars
    <2>1. /\ text' = text /\ scanned' = scanned /\ imports' = imports /\ edits' = edits
          /\ base' = base /\ subs' = subs /\ runDirs' = runDirs /\ halves' = halves
          /\ crashes' = crashes /\ pc' = pc /\ job' = job /\ last' = last
      BY <1>1 DEF vars, project, disk, calls
    <2>2. Inv'
      <3>1. FilesInv'
        BY <2>1, FilesStay DEF Inv
      <3> QED
        BY <2>1, <3>1 DEF Inv, WholeBase, Looked
    <2>3. AcceptedIsRight' = AcceptedIsRight
      BY <2>1 DEF AcceptedIsRight, Locatable, InNameless, TaskHole, Scanned
    <2>4. AcceptedClosesTheorem' = AcceptedClosesTheorem
      BY <2>1 DEF AcceptedClosesTheorem, TaskHole, Scanned
    <2>5. RightProofAccepted' = RightProofAccepted
      BY <2>1 DEF RightProofAccepted, Deserves, InNameless, IsOnlyHole, TaskHole, Scanned
    <2> QED
      BY <2>2, <2>3, <2>4, <2>5 DEF Verdicts, VerdictIsSound
  <1>2. ASSUME NEW c \in Callers, NEW proof \in Proofs, NEW task \in Tasks[scanned],
               Verify(c, task, proof) \/ VerifyIsolated(c, task, proof)
        PROVE  Inv' /\ Verdicts'
    BY <1>2, VerifyKeeps
  <1>3. ASSUME NEW c \in Callers, Start(c) PROVE Inv' /\ Verdicts'
    BY <1>3, StartKeeps
  <1>4. ASSUME NEW c \in Callers, LeanEnds(c) PROVE Inv' /\ Verdicts'
    BY <1>4, LeanEndsKeeps
  <1>5. ASSUME NEW c \in Callers, TimesOut(c) \/ Cancel(c) PROVE Inv' /\ Verdicts'
    BY <1>5, NoVerdictKeeps
  <1>7. CASE Edit
    BY <1>7, EditKeeps
  <1>8. CASE Crash
    BY <1>8, CrashKeeps
  <1> QED
    BY <1>1, <1>2, <1>3, <1>4, <1>5, <1>7, <1>8 DEF Next

LEMMA InitHolds ==
    ASSUME Init
    PROVE  Inv /\ Verdicts
  <1>1. \A c \in Callers : pc[c] = "free"
    BY DEF Init
  <1>2. FilesInv
    <2>1. \A k : {c \in Callers : <<c, k>> \in runDirs} = {}
      BY DEF Init
    <2>2. DirsAreFew
      BY <2>1, NoneAreFew DEF DirsAreFew, DirsOf
    <2> QED
      BY <1>1, <2>2 DEF Init, FilesInv, NothingLeftBehind
  <1>3. MaxEdits \in Nat
    BY SubprocessVerifyAssumption
  <1>4. Inv
    BY <1>1, <1>2, <1>3 DEF Init, Inv
  <1>5. Verdicts
    BY DEF Init, Verdicts, VerdictIsSound, AcceptedIsRight, AcceptedClosesTheorem,
           RightProofAccepted
  <1> QED
    BY <1>4, <1>5

LEMMA Kept == Spec => [](Inv /\ Verdicts)
  <1>1. Init => Inv /\ Verdicts
    BY InitHolds
  <1>2. Inv /\ Verdicts /\ [Next]_vars => (Inv /\ Verdicts)'
    BY StepKeeps
  <1> QED
    BY <1>1, <1>2, PTL DEF Spec

----------------------------------------------------------------------------
(* Theorems                                                                *)

\* An accepted proof is one of the hole it was asked for, if the task can be located, and closes
\* the theorem: for any files, edits and crashes, and any number of calls that overlap (:190-267).
THEOREM AcceptedProofsAreSound == Spec => []VerdictIsSound
  <1>1. Inv /\ Verdicts => VerdictIsSound
    BY DEF Verdicts
  <1> QED
    BY <1>1, Kept, PTL

\* A right proof of the only hole of a theorem that has a name, and not a primed one, is accepted,
\* and passes the integrity check, for any files (:416-455).
THEOREM RightProofsAreAccepted == Spec => []RightProofAccepted
  <1>1. Inv /\ Verdicts => RightProofAccepted
    BY DEF Verdicts
  <1> QED
    BY <1>1, Kept, PTL

\* What a process has on disk are the files of its calls underway; a kill leaves them, at any
\* point of a call, as files that no later call meets, and leaves no half base: for any number
\* of callers and kills (:224-233, :508-544).
THEOREM FilesAreInOrder == Spec => []FilesInOrder
  <1>1. Inv /\ Verdicts => FilesInOrder
    BY InvImpliesFilesInOrder
  <1> QED
    BY <1>1, Kept, PTL
===============================================================================
