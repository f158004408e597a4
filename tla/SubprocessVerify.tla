-------------------------- MODULE SubprocessVerify --------------------------
(***************************************************************************)
(* The default verifier (verify/subprocess_lean.py): each call splices a   *)
(* proof into the text of its task, lays a run directory over a base copy  *)
(* of the project, runs Lean there and reads its warnings.  Its callers    *)
(* are the phases, with tasks of the scanner, and the isolated checks of   *)
(* sublemmas (engine/decompose.py), with synthetic files.                  *)
(*                                                                         *)
(* The base is built in one turn of the loop, under a lock; a kill may     *)
(* fall into any turn, and removes nothing: the work directory and the     *)
(* project outlive the process.  One project is modelled, with one file    *)
(* that has holes; the files it imports have a version, on which the       *)
(* verdict of Lean may depend.                                             *)
(***************************************************************************)
EXTENDS LeanText, FiniteSets

CONSTANTS
    Callers,       \* coroutines that call verify_proof
    Texts,         \* the states the file may be in
    Content,       \* Content[t]: the text that it has then
    Names,         \* the names of declarations
    Holes,
    Proofs,
    Blacklisted,   \* the proofs with sorry, admit or stop in them
    Right,         \* <<proof, hole, version>>: Lean takes it
    SubName,       \* the name of a synthetic theorem
    SubHole,       \* its hole
    MaxConcurrent, \* max_concurrent_lean
    SorryDBMode,   \* cfg.sorrydb_mode
    Isolates,      \* sublemmas are checked in isolation
    MaxEdits,      \* bound: how often the project is edited
    MaxCrashes,    \* bound
    None

ASSUME SubprocessVerifyAssumption ==
    /\ None \notin Callers /\ MaxConcurrent \in Nat \ {0}
    /\ MaxEdits \in Nat /\ MaxCrashes \in Nat
    /\ SorryDBMode \in BOOLEAN /\ Isolates \in BOOLEAN

\* A line that the expressions for declarations match declares something; the names are no other
\* marks; the name of a synthetic theorem is new, and an expression that matches more than its
\* name matches declared names.
Lines == [decl : Names \cup {NoDecl, Nameless}, seen : BOOLEAN, boundary : BOOLEAN,
          holes : Seq(Holes)]

ASSUME ContentAssumption ==
    /\ \A t \in Texts : /\ Content[t] \in Seq(Lines)
                        /\ \A i \in DOMAIN Content[t] :
                              Content[t][i].seen => Content[t][i].decl # NoDecl
    /\ Names \cap {NoDecl, Nameless, Synthesized, AnyName, SubName} = {}
    /\ Synthesized # AnyName /\ NoDecl # Nameless
    /\ SubName \notin {NoDecl, Nameless, AnyName, Synthesized}
    /\ Longer \subseteq Names \X Names

VARIABLES
    text,    \* the text of the file
    scanned, \* the text from which this run has its tasks
    imports, \* the version of the files it imports
    base,    \* the base copy: None, or [imports, subs, ready]; subs are the callers underway
             \* whose synthetic file it has
    subs,    \* the synthetic files in the project, by their names
    runDirs, \* the run directories on disk, by their names
    halves,  \* the processes that were killed while they copied the project
    pc,      \* pc[c]: "free", "queued", "lean"
    job,     \* job[c]: what the call does
    last,    \* history: the call that returned in the last step, if Lean or the splice judged it
    edits, crashes \* bounds

project == <<text, scanned, imports, edits, crashes>>
disk    == <<base, subs, runDirs, halves>>
calls   == <<pc, job>>
vars    == <<project, disk, calls, last>>

----------------------------------------------------------------------------
\* Mutant: the names of the next process are the same again.
SameName(c) == <<c, 0>>
\* The name of a file or directory of a call: no other process has given it (uuid4), and a
\* caller has one call at a time.
Own(c) == <<c, crashes>>

Init ==
    /\ text \in Texts /\ scanned = text /\ imports = 0
    /\ base = None /\ subs = {} /\ runDirs = {} /\ halves = {}
    /\ pc = [c \in Callers |-> "free"]
    /\ job = [c \in Callers |-> None]
    /\ last = None
    /\ edits = 0 /\ crashes = 0

----------------------------------------------------------------------------
(* verify_proof                                                            *)

\* The declaration and the hole that a proof of task is put into, 0 for none.
Decl(file, task) == FindDecl(file, task.name, task.line)
Target(file, task) ==
    IF Decl(file, task) = 0 THEN 0 ELSE FindSorry(file, Decl(file, task), task.line)

\* sorrydb_mode: the splice has closed one hole of the theorem, and no other.
Integrity(file, task) ==
    LET after == Spliced(file, Target(file, task))
    IN  Sorries(after, Decl(after, task)) = Sorries(file, Decl(file, task)) - 1

\* The text that is spliced: for a sublemma, with its goal before the theorem.
SubLine == [decl |-> SubName, seen |-> TRUE, boundary |-> TRUE, holes |-> <<SubHole>>]
File(kind, t, task) ==
    IF kind = "source" THEN Content[t] ELSE WithSublemma(Content[t], task.line, SubLine)

\* What the tasks of a run may be, and those of the isolated checks.
Tasks    == [t \in Texts |-> Scan(Content[t]) \cup Fetch(Content[t])]
SubTasks == [t \in Texts |->
                {[line |-> i, col |-> 1, name |-> SubName] : i \in DOMAIN Content[t]}]

\* What is found in a text for a task, and whether its splice passes the integrity check.
Found(kind, t, task) ==
    LET file == File(kind, t, task) IN
    [kind |-> kind, text |-> t, task |-> task,
     decl |-> Decl(file, task), target |-> Target(file, task),
     passes |-> Target(file, task) # 0 /\ Integrity(file, task)]
Finds ==
    [t \in Texts |-> {Found("source", t, task) : task \in UNION {Tasks[u] : u \in Texts}}
                     \cup {Found("isolated", t, task) : task \in SubTasks[t]}]

MayRun(found, proof) ==
    /\ proof \notin Blacklisted
    /\ found.target # 0
    /\ SorryDBMode => found.passes

\* The text of a call is the state of the file when it was made.
Job(found, proof) ==
    [kind |-> found.kind, task |-> found.task, proof |-> proof, text |-> found.text,
     decl |-> found.decl, target |-> found.target, written |-> FALSE]

FileOf(j) == File(j.kind, j.text, j.task)

Outcome(j, verdict) == [job |-> j, verdict |-> verdict]

\* The text is read when the call is made; what cannot be spliced is rejected at once.
Begin(c, kind, task, proof) ==
    \E found \in Finds[text] :
        /\ found.kind = kind /\ found.task = task
        /\ IF MayRun(found, proof)
           THEN /\ pc' = [pc EXCEPT ![c] = "queued"]
                /\ job' = [job EXCEPT ![c] = Job(found, proof)]
                /\ subs' = IF kind = "isolated" THEN subs \cup {Own(c)} ELSE subs
                /\ last' = None
           ELSE last' = Outcome(Job(found, proof), "rejected") /\ UNCHANGED <<calls, subs>>
        /\ UNCHANGED <<project, base, runDirs, halves>>

Verify(c, task, proof) ==
    pc[c] = "free" /\ Begin(c, "source", task, proof)

\* The theorem of the task is found, to put a sublemma before it.
Isolable(task) == task.name # AnyName /\ FirstDecl(Content[text], task.name) # 0
SubTask(task) == [line |-> FirstDecl(Content[text], task.name), col |-> 1, name |-> SubName]

\* _verify_isolated: a file with the goal of a sublemma before the theorem, or the
\* parent's own task when that theorem is not found (a file that cannot be written is as
\* good as Verify).
VerifyIsolated(c, task, proof) ==
    /\ pc[c] = "free" /\ Isolates
    /\ IF Isolable(task)
       THEN Begin(c, "isolated", SubTask(task), proof)
       ELSE Begin(c, "source", task, proof)

Snapshot(ready) ==
    [imports |-> imports, subs |-> {c \in Callers : Own(c) \in subs}, ready |-> ready]

\* _ensure_base: the copy is made in a directory of its own and then renamed.
EnsuredBase == IF base = None THEN Snapshot(TRUE) ELSE base

\* The semaphore has room.
InLean == {c \in Callers : pc[c] = "lean"}
MayStart(c) == pc[c] = "queued" /\ Cardinality(InLean) < MaxConcurrent

\* The semaphore lets the call in.  _materialize_run writes the target only where
\* the base has it, which holds for the file of the project.
Start(c) ==
    /\ MayStart(c)
    /\ base' = EnsuredBase
    /\ runDirs' = runDirs \cup {Own(c)}
    /\ job' = [job EXCEPT ![c].written =
                             job[c].kind = "source" \/ c \in EnsuredBase.subs]
    /\ pc' = [pc EXCEPT ![c] = "lean"]
    /\ last' = None
    /\ UNCHANGED <<project, subs, halves>>

\* The finally clauses: the run directory and the synthetic file go, whatever happens.
\* The copy of that file stays in the base, but no later file has its name.
Returns(c) ==
    /\ pc' = [pc EXCEPT ![c] = "free"]
    /\ job' = [job EXCEPT ![c] = None]
    /\ subs' = subs \ {Own(c)}
    /\ base' = IF base = None THEN None ELSE [base EXCEPT !.subs = @ \ {c}]
    /\ runDirs' = runDirs \ {Own(c)}
    /\ UNCHANGED <<project, halves>>

HoleOf(j) == Head(FileOf(j)[j.target].holes)
LeanTakes(j) == j.written /\ <<j.proof, HoleOf(j), base.imports>> \in Right

\* The warning that is looked for is the one at the line of the declaration.
Accepts(j) ==
    /\ LeanTakes(j)
    /\ j.decl \notin Warned(Spliced(FileOf(j), j.target))

LeanEnds(c) ==
    /\ pc[c] = "lean" /\ Returns(c)
    /\ last' = Outcome(job[c], IF Accepts(job[c]) THEN "accepted" ELSE "rejected")

\* The process group is killed, which is no verdict of Lean, or the caller is cancelled.
TimesOut(c) ==
    /\ pc[c] = "lean" /\ Returns(c)
    /\ last' = None

Cancel(c) ==
    /\ pc[c] # "free" /\ Returns(c) /\ last' = None

----------------------------------------------------------------------------
(* The environment                                                         *)

\* Somebody edits the file or what it imports.
Edit ==
    /\ edits < MaxEdits /\ edits' = edits + 1
    /\ \/ text' \in Texts \ {text} /\ imports' = imports
       \/ imports' = imports + 1 /\ text' = text
    /\ last' = None
    /\ UNCHANGED <<scanned, crashes, disk, calls>>

\* What a killed process leaves on disk.  Nobody will look for the names of its synthetic files.
Leaves(b, s, r, h) ==
    /\ base' = IF b = None THEN None ELSE [b EXCEPT !.subs = {}]
    /\ subs' = s /\ runDirs' = r /\ halves' = h

\* Mutant: the base is copied in place, with the marker in it.
HalfInPlace == [base |-> Snapshot(FALSE), halves |-> halves]
\* Half a copy of the project has a name that nobody looks for.
HalfCopy == [base |-> None, halves |-> halves \cup {crashes}]

\* A kill in a turn of a caller, between two writes to the disk: while the project is copied,
\* when the copy is renamed, with the run directory or not; when the synthetic file is
\* written; at the end of a call, when only its run directory is gone.
Cut(c) ==
    \/ /\ MayStart(c)
       /\ \/ base = None /\ Leaves(HalfCopy.base, subs, runDirs, HalfCopy.halves)
          \/ Leaves(EnsuredBase, subs, runDirs, halves)
          \/ Leaves(EnsuredBase, subs, runDirs \cup {Own(c)}, halves)
    \/ /\ pc[c] = "free" /\ Isolates /\ \E task \in Tasks[scanned] : Isolable(task)
       /\ Leaves(base, subs \cup {Own(c)}, runDirs, halves)
    \/ pc[c] = "lean" /\ Leaves(base, subs, runDirs \ {Own(c)}, halves)

\* The process is killed, at an await or within a turn, and leaves what is on disk; a new run
\* scans the project.
Crash ==
    /\ crashes < MaxCrashes /\ crashes' = crashes + 1
    /\ scanned' = text
    /\ Leaves(base, subs, runDirs, halves) \/ \E c \in Callers : Cut(c)
    /\ pc' = [c \in Callers |-> "free"]
    /\ job' = [c \in Callers |-> None]
    /\ last' = None
    /\ UNCHANGED <<text, imports, edits>>

Next ==
    \/ \E c \in Callers, proof \in Proofs : \E task \in Tasks[scanned] :
            Verify(c, task, proof) \/ VerifyIsolated(c, task, proof)
    \/ \E c \in Callers : Start(c) \/ LeanEnds(c) \/ TimesOut(c) \/ Cancel(c)
    \/ Edit \/ Crash

Spec == Init /\ [][Next]_vars

----------------------------------------------------------------------------
(* Properties                                                              *)

\* The types; whoever waits for Lean or runs it has found its hole.
TypeOK ==
    /\ text \in Texts /\ scanned \in Texts /\ imports \in 0..MaxEdits
    /\ base # None => base.imports \in 0..imports /\ base.subs \subseteq Callers
    /\ runDirs \cup subs \subseteq Callers \X (0..crashes) /\ halves \subseteq 0..crashes
    /\ \A c \in Callers :
        /\ pc[c] \in {"free", "queued", "lean"}
        /\ pc[c] # "free" => job[c].target # 0
    /\ last # None => last.verdict \in {"accepted", "rejected"}

\* The hole a task of this run is about.
Scanned == Content[scanned]
TaskHole(task) == Scanned[task.line].holes[task.col]

InNameless(task) ==
    /\ task.name = AnyName
    /\ Scanned[EnclosingDecl(Scanned, task.line)].decl = Nameless

\* The name of the declaration above is found, and Lean takes the hole to be in that
\* declaration, or at least it is in its block and the first on its line.
Locatable(task) ==
    LET decl == EnclosingDecl(Scanned, task.line) IN
    /\ ~InNameless(task) /\ task.name \notin Primed
    /\ \/ Owner(Scanned, task.line) = decl
       \/ task.line \in Block(Scanned, decl) /\ task.col = 1

\* What is accepted is a proof of the hole that was asked for, as Lean sees it with the
\* imports in the base: never of another hole of the same name, line or block, also
\* when calls overlap, the base is old, or the process died before (:190-267).  Not so for
\* calls that read the file after it was edited, whose line may be that of another hole, and
\* for tasks that cannot be located: without a name in a nameless declaration, with a primed
\* one, or about a declaration that the scanner does not see and that is below the end of
\* a block (`private theorem' after `end'), or has several holes on the line.
AcceptedIsRight ==
    last # None /\ last.verdict = "accepted" =>
        LET j == last.job IN
        /\ j.kind = "isolated" => <<j.proof, SubHole, base.imports>> \in Right
        /\ j.kind = "source" /\ j.text = scanned /\ Locatable(j.task)
            => <<j.proof, TaskHole(j.task), base.imports>> \in Right

\* What is accepted leaves no hole in the declaration that was looked up, and with
\* the text still as scanned that is the one with the hole, unless Lean sees there a
\* declaration that the scanner does not (:245-256).
AcceptedClosesTheorem ==
    last # None /\ last.verdict = "accepted" =>
        LET j == last.job IN
        /\ j.decl \notin Warned(Spliced(FileOf(j), j.target))
        /\ j.kind = "source" /\ j.text = scanned /\ Owner(Scanned, j.task.line) = j.decl
            => HoleOf(j) = TaskHole(j.task)

\* An accepted proof is right for the hole it was asked for, and closes the theorem.
VerdictIsSound == AcceptedIsRight /\ AcceptedClosesTheorem

IsOnlyHole(line) ==
    \A i \in DOMAIN Scanned :
        Owner(Scanned, i) = Owner(Scanned, line)
            => Len(Scanned[i].holes) = IF i = line THEN 1 ELSE 0

\* The proof is right whatever the version of the imports, and for the only hole of a
\* theorem that the scanner sees.
Deserves(j) ==
    /\ j.kind = "source" /\ j.text = scanned /\ j.proof \notin Blacklisted
    /\ \A v \in 0..MaxEdits : <<j.proof, TaskHole(j.task), v>> \in Right
    /\ IsOnlyHole(j.task.line)
    /\ Owner(Scanned, j.task.line) = EnclosingDecl(Scanned, j.task.line)

\* A right proof of the only hole of its theorem is not rejected, wherever the theorem
\* is in the file and whatever else is there, when it has a name and that ends in a word
\* character (:416-455).
RightProofAccepted ==
    last # None /\ last.verdict = "rejected" /\ ~InNameless(last.job.task)
        /\ last.job.task.name \notin Primed \cup {Synthesized}
        => ~Deserves(last.job)

\* The same of every theorem that has a name: "Locate the theorem block by theorem_name + line_number"
\* (:8) makes no exception.
EveryTheoremIsFound ==
    last # None /\ last.verdict = "rejected" /\ ~InNameless(last.job.task)
        /\ last.job.task.name # Synthesized
        => ~Deserves(last.job)

\* While the process lives, a call in Lean has its run directory, and a call with a synthetic
\* file has that, and nothing else of this process is on disk: they go at a verdict, a
\* timeout and a cancellation (:224-233, decompose.py:380-389).
NothingLeftBehind ==
    /\ \A c \in Callers :
        /\ Own(c) \in runDirs <=> pc[c] = "lean"
        /\ Own(c) \in subs <=> pc[c] # "free" /\ job[c].kind = "isolated"
    /\ crashes \notin halves

\* The base that a later call or run finds is a complete copy (:508-544).
BaseIsWhole == base # None => base.ready

\* A process that is killed leaves run directories, of no more calls than may run Lean at
\* once (:223-225).
DirsOf(k) == {c \in Callers : <<c, k>> \in runDirs}
FewDirsLeft == \A k \in 0..crashes : Cardinality(DirsOf(k)) <= MaxConcurrent

\* A call never meets a file or directory of another one, though a process that is killed
\* leaves them: the names are its own, what it leaves when the process lives on is
\* nothing, and the base is whole, also when the kill falls into the copy.
FilesInOrder == TypeOK /\ NothingLeftBehind /\ BaseIsWhole /\ FewDirsLeft
=============================================================================
