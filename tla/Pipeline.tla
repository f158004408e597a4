------------------------------ MODULE Pipeline ------------------------------
(***************************************************************************)
(* The resolution pipeline (engine/orchestrator.py, ResolutionPipeline):   *)
(* a pool of worker coroutines takes tasks from a priority queue, runs the *)
(* phase chain of each task under a time budget, books the result, saves   *)
(* checkpoints, and is stopped by signals, by the wall clock or by a       *)
(* crash.  The next run of the program resumes from the checkpoint file.   *)
(*                                                                         *)
(* What a coroutine does between two suspension points is one turn of the  *)
(* asyncio loop: it takes one or more actions, and no other coroutine,     *)
(* signal handler or timer runs before the turn is over.  The four         *)
(* SOLVED_* statuses are one, and tactics, prompts, strategies and texts   *)
(* are left out.                                                           *)
(***************************************************************************)
EXTENDS Integers, FiniteSets, Sequences

CONSTANTS
    Tasks,               \* the sorry tasks the scanner finds
    Workers,             \* the worker coroutines (cfg.num_workers)
    Proofs,              \* the proof texts that phases can propose
    Goals,               \* the normalized goals that key the lemma cache
    Goal,                \* Goal[t]: the goal of t, NoGoal if it is empty
    Accepts,             \* Accepts[t]: the proofs Lean accepts for task t
    Rank,                \* Rank[t]: place of t in the order of _priority_key
    PhaseOrder,          \* the phases of a strategy, in order
    EscalationThreshold, \* cfg.escalation_threshold
    AxiomQuota,          \* cfg.axiom_quota
    CheckpointEvery,     \* cfg.checkpoint_interval_tasks
    TaskSets,            \* the task sets the user may give to a run
    ResumeModes,         \* {TRUE} with --resume, FALSE in it for --no-resume
    ChainInOwnTask,      \* TRUE: asyncio.wait_for runs the chain as a task of
                         \* its own (Python before 3.12), so the loop turns
                         \* between the end of the chain and the accounting
    MaxRuns,             \* bound: how many times the program is started
    NoProof, NoTask, NoGoal, NoWorker

ASSUME ConstantsAssumption ==
    /\ IsFiniteSet(Tasks)
    /\ IsFiniteSet(Workers) /\ Workers # {}
    /\ NoProof \notin Proofs /\ NoTask \notin Tasks /\ NoGoal \notin Goals
    /\ NoWorker \notin Workers
    /\ Goal \in [Tasks -> Goals \cup {NoGoal}]
    /\ Accepts \in [Tasks -> SUBSET Proofs]
    /\ Rank \in [Tasks -> Nat]
    /\ \A t, u \in Tasks : Rank[t] = Rank[u] => t = u
    /\ PhaseOrder \in Seq({"rfl", "direct", "search", "agentic"})
    /\ EscalationThreshold \in Nat \ {0}
    /\ AxiomQuota \in Nat
    /\ CheckpointEvery \in Nat \ {0}
    /\ TaskSets \subseteq SUBSET Tasks
    /\ ResumeModes \subseteq BOOLEAN
    /\ ChainInOwnTask \in BOOLEAN
    /\ MaxRuns \in Nat

VARIABLES
    mode,       \* where run() is: "down", "planning", "working", "draining",
                \* "finished"
    runs,       \* how many times run() has been entered
    active,     \* the tasks of this run (self._tasks)
    status,     \* status[t], esc[t], proof[t]: the fields of the SorryTask
    esc,        \* object of t: status, escalation_level and proof
    proof,
    results,    \* self._results
    marked,     \* self._marked_axiom_count
    queue,      \* the tasks in the priority queue
    sentinels,  \* the (999, ..., None) entries behind them
    started,    \* self._started_ids
    processed,  \* self._processed
    untouched,  \* the ids left in the queue, as reported
    shutdown,   \* self.shutdown_event
    saving,     \* an _emergency_save task is scheduled
    expired,    \* the wall-clock budget is used up
    lemmas,     \* the lemma cache: goal -> proof
    turn,       \* the worker in the middle of its turn of the loop, if any
    pc,         \* pc[w]: where worker w is
    wtask,      \* wtask[w]: the task worker w runs
    phase,      \* phase[w]: the index of its phase in PhaseOrder
    spent,      \* spent[w]: tokens_used >= per_task_token_budget
    cand,       \* cand[w]: the proof under verification
    outcome,    \* outcome[w]: the result the chain returned
    ckptTask,   \* the tasks in the checkpoint file
    ckptRes     \* the results in the checkpoint file

chainVars == <<phase, spent, cand>>
workVars  == <<turn, pc, wtask, chainVars, outcome>>
taskVars  == <<status, esc, proof>>
bookVars  == <<taskVars, results, marked>>
runVars   == <<runs, active, started, processed, untouched>>
stopVars  == <<shutdown, saving, expired>>
ckptVars  == <<ckptTask, ckptRes>>
vars == <<mode, runVars, bookVars, queue, sentinels, stopVars, lemmas,
          workVars, ckptVars>>

----------------------------------------------------------------------------
TerminalSkip == {"SOLVED", "MARKED_AXIOM"}
TaskStatuses == {"OPEN", "IN_PROGRESS", "SOLVED", "FAILED_ALL",
                 "BUDGET_EXHAUSTED", "MARKED_AXIOM"}

\* What the checkpoint file keeps of a task, or Absent if the task is not in it.
TaskRecords == [status : TaskStatuses \cup {"ABSENT"}, esc : Nat,
                proof : Proofs \cup {NoProof}]
TaskRecord(s, e, p) == [status |-> s, esc |-> e, proof |-> p]
Fresh  == TaskRecord("OPEN", 0, NoProof)
Absent == TaskRecord("ABSENT", 0, NoProof)

\* A ResolutionResult.  success = TRUE exactly when the status is SOLVED.
Result(s, p) == [status |-> s, proof |-> p]
Failure(s)   == Result(s, NoProof)
NoResult     == Failure("NONE")
Results == [status : TaskStatuses \cup {"NONE"}, proof : Proofs \cup {NoProof}]

\* Worker tasks created together have their first turns before anything else:
\* the loop runs what is ready in order, and polls signals and timers after it.
LoopIsFree == turn = NoWorker /\ \A w \in Workers : pc[w] # "new"
MayRun(w)  == turn = w \/ LoopIsFree

\* Whether wait_for returns to the worker in the turn that ends the chain, and
\* enters the chain in the turn that takes the task.
SameTurn(w) == IF ChainInOwnTask THEN NoWorker ELSE w

Live == mode \in {"planning", "working", "draining"}

\* Mutant: the emergency save of the previous version, which stored no results.
SaveWithoutResults ==
    /\ ckptTask' = [t \in Tasks |-> IF t \in active
                                  THEN TaskRecord(status'[t], esc'[t], proof'[t])
                                  ELSE Absent]
    /\ ckptRes'  = [t \in Tasks |-> NoResult]

\* _save_checkpoint: the tasks of this run and all results, as they are after
\* the step (the file is replaced atomically by os.replace).
SaveCheckpoint ==
    /\ ckptTask' = [t \in Tasks |-> IF t \in active
                                  THEN TaskRecord(status'[t], esc'[t], proof'[t])
                                  ELSE Absent]
    /\ ckptRes'  = results'

CheckpointOnce == processed = CheckpointEvery                       \* mutant
CheckpointDue  == processed % CheckpointEvery = 0

AxiomsIn(rs) == {t \in Tasks : rs[t].status = "MARKED_AXIOM"}

----------------------------------------------------------------------------
Init ==
    /\ mode = "down" /\ runs = 0 /\ active = {}
    /\ status = [t \in Tasks |-> "OPEN"]
    /\ esc = [t \in Tasks |-> 0]
    /\ proof = [t \in Tasks |-> NoProof]
    /\ results = [t \in Tasks |-> NoResult]
    /\ marked = 0 /\ queue = {} /\ sentinels = 0
    /\ started = {} /\ processed = 0 /\ untouched = {}
    /\ shutdown = FALSE /\ saving = FALSE /\ expired = FALSE
    /\ lemmas = [g \in Goals |-> NoProof]
    /\ turn = NoWorker
    /\ pc = [w \in Workers |-> "stopped"]
    /\ wtask = [w \in Workers |-> NoTask]
    /\ phase = [w \in Workers |-> 0]
    /\ spent = [w \in Workers |-> FALSE]
    /\ cand = [w \in Workers |-> NoProof]
    /\ outcome = [w \in Workers |-> NoResult]
    /\ ckptTask = [t \in Tasks |-> Absent]
    /\ ckptRes = [t \in Tasks |-> NoResult]

----------------------------------------------------------------------------
(* run(): resume, cross-run escalation, planning                           *)

\* Mutant: the status filter is missing.
ResumedAsOpen(t, resume) ==
    IF ~resume \/ ckptTask[t].status = "ABSENT" THEN Fresh
    ELSE TaskRecord("OPEN", ckptTask[t].esc, NoProof)
\* Mutant: the proof is not restored.
ResumedWithoutProof(t, resume) ==
    IF ~resume \/ ckptTask[t].status = "ABSENT" THEN Fresh
    ELSE TaskRecord(ckptTask[t].status, ckptTask[t].esc, NoProof)

\* _resume_merge for one task object: escalation is always restored, status
\* and proof only when they are terminal.
Resumed(t, resume) ==
    IF ~resume \/ ckptTask[t].status = "ABSENT" THEN Fresh
    ELSE IF ckptTask[t].status \in TerminalSkip THEN ckptTask[t]
    ELSE TaskRecord("OPEN", ckptTask[t].esc, NoProof)

\* Up to the first await, in _plan: merge the checkpoint, mark the tasks that
\* had reached the threshold as axioms while the quota lasts (which of them
\* come first is the order of the task list), collect the pending ones.
Start(S, resume) ==
    LET merged   == IF resume THEN ckptRes ELSE [t \in Tasks |-> NoResult]
        loaded   == [t \in Tasks |-> IF t \in S THEN Resumed(t, resume)
                                                ELSE Fresh]
        pending  == {t \in S : loaded[t].status \notin TerminalSkip}
        due      == {t \in pending : loaded[t].esc >= EscalationThreshold}
        count    == Cardinality(AxiomsIn(merged))
    IN  /\ mode \in {"down", "finished"}
        /\ runs < MaxRuns
        /\ \E axioms \in SUBSET due :
             /\ count + Cardinality(axioms) <= AxiomQuota \/ axioms = {}
             /\ axioms # due => count + Cardinality(axioms) >= AxiomQuota
             /\ status' = [t \in Tasks |->
                   CASE t \in axioms       -> "MARKED_AXIOM"
                     [] t \in due \ axioms -> "FAILED_ALL"
                     [] OTHER              -> loaded[t].status]
             /\ results' = [t \in Tasks |->
                   CASE t \in axioms       -> Failure("MARKED_AXIOM")
                     [] t \in due \ axioms -> Failure("FAILED_ALL")
                     [] OTHER              -> merged[t]]
             /\ marked' = count + Cardinality(axioms)
        /\ esc' = [t \in Tasks |-> loaded[t].esc]
        /\ proof' = [t \in Tasks |-> loaded[t].proof]
        /\ queue' = pending \ due
        /\ mode' = "planning" /\ runs' = runs + 1 /\ active' = S
        /\ sentinels' = 0 /\ started' = {} /\ processed' = 0 /\ untouched' = {}
        /\ shutdown' = FALSE /\ saving' = FALSE /\ expired' = FALSE
        /\ UNCHANGED <<workVars, lemmas, ckptVars>>

SentinelsShort     == Cardinality(Workers) - 1                      \* mutant
SentinelsForWorkers == Cardinality(Workers)

\* _plan has returned: the queue gets one sentinel per worker, the workers run.
LaunchWorkers ==
    /\ mode = "planning"
    /\ mode' = "working"
    /\ sentinels' = SentinelsForWorkers
    /\ pc' = [w \in Workers |-> "new"]
    /\ UNCHANGED <<runVars, bookVars, queue, stopVars, lemmas, turn, wtask,
                   chainVars, outcome, ckptVars>>

----------------------------------------------------------------------------
(* _worker: the loop head, and the queue, which never blocks               *)

IsFirst(t) == t \in queue /\ \A u \in queue : Rank[t] <= Rank[u]

AtLoopHead(w) ==
    /\ mode = "working"
    /\ \/ pc[w] = "new" /\ turn = NoWorker
       \/ pc[w] = "idle" /\ turn = w

\* The worker coroutine returns.
Stop(w) == pc' = [pc EXCEPT ![w] = "stopped"] /\ turn' = NoWorker

Peeked(t) == queue                       \* mutant: the entry stays in the queue
Popped(t) == queue \ {t}

Take(w) ==
    /\ AtLoopHead(w) /\ ~shutdown /\ ~expired
    /\ \E t \in queue :
         /\ IsFirst(t)
         /\ queue' = Popped(t)
         /\ started' = started \cup {t}
         /\ processed' = processed + 1
         /\ status' = [status EXCEPT ![t] = "IN_PROGRESS"]
         /\ wtask' = [wtask EXCEPT ![w] = t]
    /\ pc' = [pc EXCEPT ![w] = "enter"]
    /\ turn' = SameTurn(w)
    /\ UNCHANGED <<mode, runs, active, untouched, esc, proof, results, marked,
                   sentinels, stopVars, lemmas, chainVars, outcome, ckptVars>>

\* The budget runs out between the two wall-clock checks, before and after
\* queue.get: the worker returns with the task it has popped.
TakeTooLate(w) ==
    /\ AtLoopHead(w) /\ ~shutdown /\ ~expired
    /\ \E t \in queue : IsFirst(t) /\ queue' = Popped(t)
    /\ expired' = TRUE
    /\ Stop(w)
    /\ UNCHANGED <<mode, runVars, bookVars, sentinels, shutdown, saving, lemmas,
                   wtask, chainVars, outcome, ckptVars>>

SentinelAnywhere == sentinels > 0        \* mutant: sentinels not queued last
SentinelIsNext   == queue = {} /\ sentinels > 0

TakeSentinel(w) ==
    /\ AtLoopHead(w) /\ ~shutdown /\ ~expired
    /\ SentinelIsNext
    /\ sentinels' = sentinels - 1
    /\ Stop(w)
    /\ UNCHANGED <<mode, runVars, bookVars, queue, stopVars, lemmas, wtask,
                   chainVars, outcome, ckptVars>>

StopEarly(w) ==
    /\ AtLoopHead(w) /\ (shutdown \/ expired)
    /\ Stop(w)
    /\ UNCHANGED <<mode, runVars, bookVars, queue, sentinels, stopVars, lemmas,
                   wtask, chainVars, outcome, ckptVars>>

----------------------------------------------------------------------------
(* _phase_chain, inside asyncio.wait_for                                   *)

\* The chain of worker w is over with result r.
Return(w, r) ==
    /\ pc' = [pc EXCEPT ![w] = "return"]
    /\ turn' = SameTurn(w)
    /\ outcome' = [outcome EXCEPT ![w] = r]
    /\ phase' = [phase EXCEPT ![w] = 0]
    /\ spent' = [spent EXCEPT ![w] = FALSE]
    /\ cand' = [cand EXCEPT ![w] = NoProof]

\* The head of the phase loop for phase k: the end of the list, the shutdown
\* and token checks, or the phase itself.
EnterPhase(w, k, broke) ==
    \/ /\ k > Len(PhaseOrder)
       /\ Return(w, Failure("FAILED_ALL"))
       /\ UNCHANGED taskVars
    \/ /\ k <= Len(PhaseOrder) /\ shutdown
       /\ status' = [status EXCEPT ![wtask[w]] = "OPEN"]
       /\ UNCHANGED <<esc, proof>>
       /\ Return(w, Failure("OPEN"))
    \/ /\ k <= Len(PhaseOrder) /\ ~shutdown /\ broke
       /\ Return(w, Failure("BUDGET_EXHAUSTED"))
       /\ UNCHANGED taskVars
    \/ /\ k <= Len(PhaseOrder) /\ ~shutdown /\ ~broke
       /\ pc' = [pc EXCEPT ![w] = "phase"]
       /\ turn' = NoWorker
       /\ phase' = [phase EXCEPT ![w] = k]
       /\ spent' = [spent EXCEPT ![w] = FALSE]
       /\ cand' = [cand EXCEPT ![w] = NoProof]
       /\ UNCHANGED <<taskVars, outcome>>

\* A verified proof p: the chain sets the task's status and proof itself.
Solve(w, p) ==
    /\ status' = [status EXCEPT ![wtask[w]] = "SOLVED"]
    /\ proof' = [proof EXCEPT ![wtask[w]] = p]
    /\ UNCHANGED esc
    /\ Return(w, Result("SOLVED", p))

UnchangedByChain == <<mode, runVars, results, marked, queue, sentinels, stopVars,
                      wtask, ckptVars>>

\* The lemma-cache lookup that opens the chain.  It may miss what was stored
\* (evicted, lost in a crash, an error read as a miss).
BeginChain(w) ==
    /\ pc[w] = "enter" /\ MayRun(w)
    /\ \/ /\ Goal[wtask[w]] # NoGoal
          /\ lemmas[Goal[wtask[w]]] # NoProof
          /\ cand' = [cand EXCEPT ![w] = lemmas[Goal[wtask[w]]]]
          /\ pc' = [pc EXCEPT ![w] = "lemma"]
          /\ turn' = NoWorker
          /\ UNCHANGED <<taskVars, phase, spent, outcome>>
       \/ EnterPhase(w, 1, FALSE)
    /\ UNCHANGED <<UnchangedByChain, lemmas>>

\* Mutant: the cached proof is booked without verification.
LemmaTrusted(w) ==
    /\ pc[w] = "lemma" /\ LoopIsFree
    /\ Solve(w, cand[w])
    /\ UNCHANGED <<UnchangedByChain, lemmas>>

\* verify_proof on the cached proof; it may also fail for reasons of its own.
LemmaVerdict(w) ==
    /\ pc[w] = "lemma" /\ LoopIsFree
    /\ \/ cand[w] \in Accepts[wtask[w]] /\ Solve(w, cand[w])
       \/ EnterPhase(w, 1, FALSE)
    /\ UNCHANGED <<UnchangedByChain, lemmas>>

\* The phase that worker w runs calls no model, and proposes nothing but proofs
\* that it has verified.
ZeroLLM(w) == PhaseOrder[phase[w]] = "rfl"
Proposals(w) == IF ZeroLLM(w) THEN Accepts[wtask[w]] ELSE Proofs

\* The phase of w returns proof p with its budget used up or not.
Propose(w, p, broke) ==
    /\ cand' = [cand EXCEPT ![w] = p]
    /\ spent' = [spent EXCEPT ![w] = broke]
    /\ pc' = [pc EXCEPT ![w] = "recheck"]
    /\ turn' = NoWorker
    /\ UNCHANGED <<taskVars, phase, outcome>>

\* A phase returns a proof, returns without one (None or a failed result), or
\* raises (no LLM client for the role), which ends the chain.
PhaseEnds(w) ==
    /\ pc[w] = "phase" /\ LoopIsFree
    /\ \E broke \in BOOLEAN :
         /\ spent[w] => broke
         /\ broke /\ ZeroLLM(w) => spent[w]
         /\ \/ \E p \in Proposals(w) : Propose(w, p, broke)
            \/ EnterPhase(w, phase[w] + 1, broke)
            \/ ~ZeroLLM(w) /\ Return(w, Failure("FAILED_ALL")) /\ UNCHANGED taskVars
    /\ UNCHANGED <<UnchangedByChain, lemmas>>

\* While it runs, the agentic phase (AXProver, Apollo) stores proofs of the
\* task's goal or of subgoals, verified in their own context, in the lemma cache.
LearnLemma(w) ==
    /\ pc[w] = "phase" /\ PhaseOrder[phase[w]] = "agentic" /\ LoopIsFree
    /\ \E g \in Goals, p \in Proofs : lemmas' = [lemmas EXCEPT ![g] = p]
    /\ UNCHANGED <<UnchangedByChain, taskVars, turn, pc, chainVars, outcome>>

\* The verification re-check that every success passes before it is booked.
RecheckVerdict(w) ==
    /\ pc[w] = "recheck" /\ LoopIsFree
    /\ \/ /\ cand[w] \in Accepts[wtask[w]]
          /\ Solve(w, cand[w])
          /\ lemmas' = [g \in Goals |-> IF g = Goal[wtask[w]] THEN cand[w]
                                                              ELSE lemmas[g]]
       \/ EnterPhase(w, phase[w] + 1, spent[w]) /\ UNCHANGED lemmas
    /\ UNCHANGED UnchangedByChain

\* Mutant: the timeout escalates the task, and the accounting does it again.
TimeOutEscalates(w) ==
    /\ pc[w] \in {"enter", "lemma", "phase", "recheck"} /\ LoopIsFree
    /\ Return(w, Failure("BUDGET_EXHAUSTED"))
    /\ esc' = [esc EXCEPT ![wtask[w]] = esc[wtask[w]] + 1]
    /\ UNCHANGED <<UnchangedByChain, status, proof, lemmas>>

\* asyncio.wait_for cancels the chain at whatever it awaits.
TimeOut(w) ==
    /\ pc[w] \in {"enter", "lemma", "phase", "recheck"} /\ LoopIsFree
    /\ Return(w, Failure("BUDGET_EXHAUSTED"))
    /\ UNCHANGED <<UnchangedByChain, taskVars, lemmas>>

----------------------------------------------------------------------------
(* _account and _mark_axiom                                                *)

\* The task of w and its booked result become st and r.
Book(w, st, r) ==
    /\ status' = [status EXCEPT ![wtask[w]] = st]
    /\ results' = [results EXCEPT ![wtask[w]] = r]

QuotaIgnored == TRUE                                                \* mutant
QuotaLeft    == marked < AxiomQuota

\* A failed result: one more escalation; at the threshold the task is marked
\* as an axiom, or FAILED_ALL once the quota is used up.
BookFailure(w) ==
    LET t == wtask[w]
        e == esc[t] + 1
        axiom == e >= EscalationThreshold /\ QuotaLeft
        st == CASE axiom -> "MARKED_AXIOM"
                [] e >= EscalationThreshold /\ ~axiom -> "FAILED_ALL"
                [] e < EscalationThreshold -> outcome[w].status
    IN  /\ Book(w, st, Failure(st))
        /\ esc' = [esc EXCEPT ![t] = e]
        /\ marked' = IF axiom THEN marked + 1 ELSE marked

Account(w) ==
    /\ pc[w] = "return" /\ MayRun(w)
    /\ \/ /\ outcome[w].status = "SOLVED"
          /\ Book(w, "SOLVED", outcome[w])
          /\ UNCHANGED <<esc, marked>>
       \/ /\ outcome[w].status = "OPEN"
          /\ Book(w, status[wtask[w]], outcome[w])
          /\ UNCHANGED <<esc, marked>>
       \/ /\ outcome[w].status \notin {"SOLVED", "OPEN"}
          /\ BookFailure(w)
    /\ UNCHANGED proof
    /\ IF CheckpointDue THEN SaveCheckpoint ELSE UNCHANGED ckptVars
    /\ pc' = [pc EXCEPT ![w] = "idle"]
    /\ turn' = w
    /\ wtask' = [wtask EXCEPT ![w] = NoTask]
    /\ outcome' = [outcome EXCEPT ![w] = NoResult]
    /\ UNCHANGED <<mode, runVars, queue, sentinels, stopVars, lemmas, chainVars>>

----------------------------------------------------------------------------
(* Signals, the clock, the end of a run, crashes                           *)

\* SIGTERM or SIGINT: _on_signal sets the event and schedules the emergency
\* checkpoint, which runs at a later turn of the loop.
Signal ==
    /\ Live /\ LoopIsFree
    /\ shutdown' = TRUE /\ saving' = TRUE
    /\ UNCHANGED <<mode, runVars, bookVars, queue, sentinels, expired, lemmas,
                   workVars, ckptVars>>

EmergencySave ==
    /\ saving /\ LoopIsFree
    /\ saving' = FALSE
    /\ UNCHANGED bookVars
    /\ SaveCheckpoint
    /\ UNCHANGED <<mode, runVars, queue, sentinels, shutdown, expired, lemmas,
                   workVars>>

WallClockExpires ==
    /\ mode \in {"planning", "working"} /\ ~expired
    /\ expired' = TRUE
    /\ UNCHANGED <<mode, runVars, bookVars, queue, sentinels, shutdown, saving,
                   lemmas, workVars, ckptVars>>

\* gather(workers) has returned: what is left in the queue was never touched.
Drain ==
    /\ mode = "working" /\ \A w \in Workers : pc[w] = "stopped"
    /\ mode' = "draining"
    /\ untouched' = {t \in queue : status[t] \notin TerminalSkip}
    /\ queue' = {} /\ sentinels' = 0
    /\ UNCHANGED <<runs, active, started, processed, bookVars, stopVars, lemmas,
                   workVars, ckptVars>>

\* After the wait for the evaluation task: the last checkpoint, the report.
Finish ==
    /\ mode = "draining"
    /\ mode' = "finished"
    /\ UNCHANGED bookVars
    /\ SaveCheckpoint
    /\ UNCHANGED <<runVars, queue, sentinels, stopVars, lemmas, workVars>>

\* The process dies (SIGKILL, preemption, power): only the files remain.
Crash ==
    /\ Live
    /\ mode' = "down" /\ active' = {}
    /\ status' = [t \in Tasks |-> "OPEN"]
    /\ esc' = [t \in Tasks |-> 0]
    /\ proof' = [t \in Tasks |-> NoProof]
    /\ results' = [t \in Tasks |-> NoResult]
    /\ marked' = 0 /\ queue' = {} /\ sentinels' = 0
    /\ started' = {} /\ processed' = 0 /\ untouched' = {}
    /\ shutdown' = FALSE /\ saving' = FALSE /\ expired' = FALSE
    /\ turn' = NoWorker
    /\ pc' = [w \in Workers |-> "stopped"]
    /\ wtask' = [w \in Workers |-> NoTask]
    /\ phase' = [w \in Workers |-> 0]
    /\ spent' = [w \in Workers |-> FALSE]
    /\ cand' = [w \in Workers |-> NoProof]
    /\ outcome' = [w \in Workers |-> NoResult]
    /\ UNCHANGED <<runs, lemmas, ckptVars>>

----------------------------------------------------------------------------
ChainStep(w) == BeginChain(w) \/ LemmaVerdict(w) \/ PhaseEnds(w) \/ RecheckVerdict(w)

LoopHead(w) == Take(w) \/ TakeSentinel(w) \/ StopEarly(w)

WorkerStep(w) == LoopHead(w) \/ ChainStep(w) \/ Account(w)

Interruption ==
    \/ \E w \in Workers : TakeTooLate(w) \/ TimeOut(w)
    \/ Signal
    \/ WallClockExpires
    \/ Crash

RunStep == LaunchWorkers \/ EmergencySave \/ Drain \/ Finish

Next ==
    \/ \E w \in Workers : WorkerStep(w) \/ LearnLemma(w)
    \/ Interruption
    \/ RunStep
    \/ \E S \in TaskSets, resume \in ResumeModes : Start(S, resume)

Spec == Init /\ [][Next]_vars

\* The event loop runs every ready coroutine; a chain ends because wait_for
\* bounds it.  Nothing forces a signal, a crash, a timeout or a new run.
FairSpec ==
    /\ Spec
    /\ \A w \in Workers : WF_vars(WorkerStep(w))
    /\ WF_vars(LaunchWorkers) /\ WF_vars(Drain) /\ WF_vars(Finish)
----------------------------------------------------------------------------
(* Properties                                                              *)

\* Every variable of the pipeline keeps its type.
TypeOK ==
    /\ mode \in {"down", "planning", "working", "draining", "finished"}
    /\ runs \in Nat /\ active \in SUBSET Tasks
    /\ status \in [Tasks -> TaskStatuses]
    /\ esc \in [Tasks -> Nat]
    /\ proof \in [Tasks -> Proofs \cup {NoProof}]
    /\ results \in [Tasks -> Results]
    /\ marked \in Nat
    /\ queue \in SUBSET Tasks /\ sentinels \in Nat
    /\ started \in SUBSET Tasks /\ processed \in Nat
    /\ untouched \in SUBSET Tasks
    /\ shutdown \in BOOLEAN /\ saving \in BOOLEAN /\ expired \in BOOLEAN
    /\ lemmas \in [Goals -> Proofs \cup {NoProof}]
    /\ turn \in Workers \cup {NoWorker}
    /\ pc \in [Workers -> {"new", "idle", "enter", "lemma", "phase", "recheck",
                           "return", "stopped"}]
    /\ wtask \in [Workers -> Tasks \cup {NoTask}]
    /\ phase \in [Workers -> Nat]
    /\ spent \in [Workers -> BOOLEAN]
    /\ cand \in [Workers -> Proofs \cup {NoProof}]
    /\ outcome \in [Workers -> Results]
    /\ ckptTask \in [Tasks -> TaskRecords]
    /\ ckptRes \in [Tasks -> Results]

\* No self-signed success: a proof that is booked as a solution, in the task,
\* in the results of the run or in the checkpoint file, is one that Lean
\* accepts for that very task, also when it came out of the lemma cache, from
\* another task with the same goal, or from an earlier run.
VerifiedSolutions ==
    \A t \in Tasks :
        /\ status[t] = "SOLVED" => proof[t] \in Accepts[t]
        /\ results[t].status = "SOLVED" => results[t].proof \in Accepts[t]
        /\ ckptTask[t].status = "SOLVED" => ckptTask[t].proof \in Accepts[t]
        /\ ckptRes[t].status = "SOLVED" => ckptRes[t].proof \in Accepts[t]

\* The two halves of the checkpoint agree: a task it calls solved or an axiom,
\* which every later run skips, has its result in it, with the same proof.
BooksAgree ==
    \A t \in Tasks :
        ckptTask[t].status \in TerminalSkip =>
            ckptRes[t] = Result(ckptTask[t].status, ckptTask[t].proof)

\* axiom_quota holds over all runs: neither the run's results nor the file
\* ever have more axioms than the quota.
AxiomsWithinQuota ==
    /\ Cardinality(AxiomsIn(results)) <= AxiomQuota
    /\ Cardinality(AxiomsIn(ckptRes)) <= AxiomQuota
    /\ Cardinality({t \in Tasks : ckptTask[t].status = "MARKED_AXIOM"}) <= AxiomQuota

\* A task is escalated at most once per run, whatever ends its chain, and it
\* becomes an axiom only after EscalationThreshold failed runs.
AxiomsAreEarned ==
    \A t \in Tasks :
        /\ esc[t] <= runs /\ ckptTask[t].esc <= runs
        /\ status[t] = "MARKED_AXIOM" => esc[t] >= EscalationThreshold
        /\ ckptTask[t].status = "MARKED_AXIOM" => ckptTask[t].esc >= EscalationThreshold

\* A worker is in the phase chain exactly while it has a task, workers run only
\* in a working pipeline, and a result waits only to be booked.
Busy(w) == pc[w] \in {"enter", "lemma", "phase", "recheck", "return"}

WorkersInOrder ==
    \A w \in Workers :
        /\ Busy(w) <=> wtask[w] \in Tasks
        /\ pc[w] # "stopped" => mode = "working"
        /\ IF pc[w] = "return" THEN outcome[w].status \in TaskStatuses
                               ELSE outcome[w] = NoResult

\* A task is with one worker at most, and no longer in the queue.
OneWorkerPerTask ==
    /\ WorkersInOrder
    /\ \A w \in Workers : wtask[w] \in Tasks =>
         /\ wtask[w] \in started \ queue
         /\ \A v \in Workers \ {w} : wtask[v] # wtask[w]

\* What the run ends with is true: no task is left in progress, a run that nothing cut
\* short has decided every one of its tasks, and what the report lists as untouched has
\* not entered the chain in this run and has no result of any run.
ReportIsTrue ==
    /\ mode \in {"draining", "finished"} =>
         \A t \in active :
            /\ status[t] # "IN_PROGRESS"
            /\ ~shutdown /\ ~expired => status[t] # "OPEN"
    /\ \A t \in untouched : t \notin started /\ results[t].status \notin TerminalSkip

\* A crash loses few results: the periodic checkpoint counts the tasks that
\* enter the chain, not those booked, and still keeps the number of booked and
\* unsaved results below the interval plus one for each other worker.
BoundedLoss ==
    Cardinality({t \in started : results[t] # ckptRes[t]})
        < CheckpointEvery + Cardinality(Workers) - 1

\* No work is done twice: a task that is solved or an axiom by the tasks or by
\* the results of the checkpoint file is never started again, in this run or in
\* a later one.
DecidedNeverRestarted ==
    [][\A t \in started' \ started :
          {ckptTask[t].status, ckptRes[t].status} \cap TerminalSkip = {}]_vars

\* A run comes to its end, also after a shutdown signal or when the clock
\* expires: no worker waits forever on the queue.
RunEnds == mode = "planning" ~> mode \in {"finished", "down"}

\* The checkpoint file is a ledger: over all runs and crashes, a verdict that
\* has been saved is never taken back or changed.
CheckpointLedger == INSTANCE Ledger WITH
    verdict <- [t \in Tasks |-> CASE ckptTask[t].status = "SOLVED" -> "solved"
                                   [] ckptTask[t].status = "MARKED_AXIOM" -> "axiom"
                                   [] OTHER -> "open"],
    proofOf <- [t \in Tasks |-> IF ckptTask[t].status \in TerminalSkip
                                THEN ckptTask[t].proof ELSE NoProof]

CheckpointIsLedger == CheckpointLedger!LedgerSpec
=============================================================================
