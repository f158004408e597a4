--------------------------- MODULE PipelineProofs ---------------------------
(***************************************************************************)
(* Theorems about Pipeline, for every set of tasks and workers, every      *)
(* quota, threshold and interval, every acceptance relation of the         *)
(* verifier and any number of runs.                                        *)
(***************************************************************************)
EXTENDS Pipeline, FiniteSetTheorems, TLAPS

----------------------------------------------------------------------------
(* Types                                                                   *)

\* The axioms among any results are a finite set of tasks.
LEMMA AxiomsFinite ==
    ASSUME NEW rs
    PROVE  /\ IsFiniteSet(AxiomsIn(rs))
           /\ Cardinality(AxiomsIn(rs)) \in Nat
  <1>1. AxiomsIn(rs) \subseteq Tasks
    BY DEF AxiomsIn
  <1>2. IsFiniteSet(AxiomsIn(rs))
    BY <1>1, FS_Subset, ConstantsAssumption DEF ConstantsAssumption
  <1> QED
    BY <1>2, FS_CardinalityType

\* The types of what a step of a phase chain may change.
ChainTypeOK ==
    /\ status \in [Tasks -> TaskStatuses]
    /\ esc \in [Tasks -> Nat]
    /\ proof \in [Tasks -> Proofs \cup {NoProof}]
    /\ lemmas \in [Goals -> Proofs \cup {NoProof}]
    /\ turn \in Workers \cup {NoWorker}
    /\ pc \in [Workers -> {"new", "idle", "enter", "lemma", "phase", "recheck",
                           "return", "stopped"}]
    /\ phase \in [Workers -> Nat]
    /\ spent \in [Workers -> BOOLEAN]
    /\ cand \in [Workers -> Proofs \cup {NoProof}]
    /\ outcome \in [Workers -> Results]

\* A chain that ends with a result of the right type keeps the types.
LEMMA ReturnTypes ==
    ASSUME TypeOK, NEW w \in Workers, NEW r \in Results, Return(w, r)
    PROVE  /\ turn' \in Workers \cup {NoWorker}
           /\ pc' \in [Workers -> {"new", "idle", "enter", "lemma", "phase",
                                   "recheck", "return", "stopped"}]
           /\ phase' \in [Workers -> Nat]
           /\ spent' \in [Workers -> BOOLEAN]
           /\ cand' \in [Workers -> Proofs \cup {NoProof}]
           /\ outcome' \in [Workers -> Results]
  BY DEF TypeOK, Return, SameTurn

\* A failure is a result.
LEMMA FailureTypes ==
    ASSUME NEW s \in TaskStatuses \cup {"NONE"}
    PROVE  Failure(s) \in Results
  BY DEF Failure, Result, Results

\* The head of the phase loop keeps the types, whichever way it goes.
LEMMA EnterPhaseTypes ==
    ASSUME TypeOK, NEW w \in Workers, NEW k \in Nat, NEW broke \in BOOLEAN,
           EnterPhase(w, k, broke), lemmas' \in [Goals -> Proofs \cup {NoProof}]
    PROVE  ChainTypeOK'
  <1>1. CASE Return(w, Failure("FAILED_ALL")) /\ UNCHANGED taskVars
    <2>1. Failure("FAILED_ALL") \in Results
      BY FailureTypes DEF TaskStatuses
    <2> QED
      BY <1>1, <2>1, ReturnTypes DEF TypeOK, ChainTypeOK, taskVars
  <1>2. CASE /\ status' = [status EXCEPT ![wtask[w]] = "OPEN"]
             /\ UNCHANGED <<esc, proof>>
             /\ Return(w, Failure("OPEN"))
    <2>1. Failure("OPEN") \in Results
      BY FailureTypes DEF TaskStatuses
    <2>2. status' \in [Tasks -> TaskStatuses]
      BY <1>2 DEF TypeOK, TaskStatuses
    <2> QED
      BY <1>2, <2>1, <2>2, ReturnTypes DEF ChainTypeOK, TypeOK
  <1>3. CASE Return(w, Failure("BUDGET_EXHAUSTED")) /\ UNCHANGED taskVars
    <2>1. Failure("BUDGET_EXHAUSTED") \in Results
      BY FailureTypes DEF TaskStatuses
    <2> QED
      BY <1>3, <2>1, ReturnTypes DEF TypeOK, ChainTypeOK, taskVars
  <1>4. CASE /\ pc' = [pc EXCEPT ![w] = "phase"]
             /\ turn' = NoWorker
             /\ phase' = [phase EXCEPT ![w] = k]
             /\ spent' = [spent EXCEPT ![w] = FALSE]
             /\ cand' = [cand EXCEPT ![w] = NoProof]
             /\ UNCHANGED <<taskVars, outcome>>
    BY <1>4 DEF TypeOK, ChainTypeOK, taskVars
  <1> QED
    BY <1>1, <1>2, <1>3, <1>4 DEF EnterPhase

\* So does a verified proof.
LEMMA SolveTypes ==
    ASSUME TypeOK, NEW w \in Workers, NEW p \in Proofs, Solve(w, p),
           lemmas' \in [Goals -> Proofs \cup {NoProof}]
    PROVE  ChainTypeOK'
  <1>1. Result("SOLVED", p) \in Results
    BY DEF Result, Results, TaskStatuses
  <1>2. /\ status' \in [Tasks -> TaskStatuses]
        /\ esc' \in [Tasks -> Nat]
        /\ proof' \in [Tasks -> Proofs \cup {NoProof}]
    BY DEF Solve, TypeOK, TaskStatuses
  <1> QED
    BY <1>1, <1>2, ReturnTypes DEF Solve, ChainTypeOK

\* A busy worker's task and goal are what the verifier and the cache are asked for.
LEMMA BusyTask ==
    ASSUME TypeOK, WorkersInOrder, NEW w \in Workers, Busy(w)
    PROVE  /\ wtask[w] \in Tasks
           /\ Goal[wtask[w]] \in Goals \cup {NoGoal}
           /\ Accepts[wtask[w]] \subseteq Proofs
  <1>1. wtask[w] \in Tasks
    BY DEF WorkersInOrder
  <1> QED
    BY <1>1, ConstantsAssumption DEF ConstantsAssumption

\* Every step of a chain keeps the types.
LEMMA ChainTypes ==
    ASSUME TypeOK, WorkersInOrder, NEW w \in Workers, ChainStep(w) \/ TimeOut(w)
    PROVE  ChainTypeOK'
  <1>0. Busy(w)
    BY DEF ChainStep, BeginChain, LemmaVerdict, PhaseEnds, RecheckVerdict, TimeOut, Busy
  <1>a. /\ wtask[w] \in Tasks
        /\ Goal[wtask[w]] \in Goals \cup {NoGoal}
        /\ Accepts[wtask[w]] \subseteq Proofs
    BY <1>0, BusyTask
  <1>1. CASE BeginChain(w)
    <2>0. lemmas' \in [Goals -> Proofs \cup {NoProof}]
      BY <1>1 DEF BeginChain, TypeOK
    <2>1. CASE EnterPhase(w, 1, FALSE)
      BY <2>0, <2>1, EnterPhaseTypes
    <2>2. CASE /\ Goal[wtask[w]] # NoGoal
               /\ lemmas[Goal[wtask[w]]] # NoProof
               /\ cand' = [cand EXCEPT ![w] = lemmas[Goal[wtask[w]]]]
               /\ pc' = [pc EXCEPT ![w] = "lemma"]
               /\ turn' = NoWorker
               /\ UNCHANGED <<taskVars, phase, spent, outcome>>
      <3>1. lemmas[Goal[wtask[w]]] \in Proofs \cup {NoProof}
        BY <1>a, <2>2 DEF TypeOK
      <3> QED
        BY <2>0, <2>2, <3>1 DEF ChainTypeOK, TypeOK, taskVars
    <2> QED
      BY <1>1, <2>1, <2>2 DEF BeginChain
  <1>2. CASE LemmaVerdict(w)
    <2>0. lemmas' \in [Goals -> Proofs \cup {NoProof}]
      BY <1>2 DEF LemmaVerdict, TypeOK
    <2>1. CASE cand[w] \in Accepts[wtask[w]] /\ Solve(w, cand[w])
      BY <1>a, <2>0, <2>1, SolveTypes
    <2>2. CASE EnterPhase(w, 1, FALSE)
      BY <2>0, <2>2, EnterPhaseTypes
    <2> QED
      BY <1>2, <2>1, <2>2 DEF LemmaVerdict
  <1>3. CASE PhaseEnds(w)
    <2>0. lemmas' \in [Goals -> Proofs \cup {NoProof}]
      BY <1>3 DEF PhaseEnds, TypeOK
    <2>1. Proposals(w) \subseteq Proofs
      BY <1>a DEF Proposals
    <2>2. PICK broke \in BOOLEAN :
             \/ \E p \in Proposals(w) : Propose(w, p, broke)
             \/ EnterPhase(w, phase[w] + 1, broke)
             \/ Return(w, Failure("FAILED_ALL")) /\ UNCHANGED taskVars
      BY <1>3 DEF PhaseEnds
    <2>3. CASE \E p \in Proposals(w) : Propose(w, p, broke)
      BY <2>0, <2>1, <2>3 DEF Propose, ChainTypeOK, TypeOK, taskVars
    <2>4. CASE EnterPhase(w, phase[w] + 1, broke)
      <3>1. phase[w] + 1 \in Nat
        BY DEF TypeOK
      <3> QED
        BY <2>0, <2>4, <3>1, EnterPhaseTypes
    <2>5. CASE Return(w, Failure("FAILED_ALL")) /\ UNCHANGED taskVars
      <3>1. Failure("FAILED_ALL") \in Results
        BY FailureTypes DEF TaskStatuses
      <3> QED
        BY <2>0, <2>5, <3>1, ReturnTypes DEF TypeOK, ChainTypeOK, taskVars
    <2> QED
      BY <2>2, <2>3, <2>4, <2>5
  <1>4. CASE RecheckVerdict(w)
    <2>1. CASE /\ cand[w] \in Accepts[wtask[w]]
               /\ Solve(w, cand[w])
               /\ lemmas' = [g \in Goals |-> IF g = Goal[wtask[w]] THEN cand[w]
                                                                  ELSE lemmas[g]]
      <3>1. cand[w] \in Proofs
        BY <1>a, <2>1
      <3>2. lemmas' \in [Goals -> Proofs \cup {NoProof}]
        BY <2>1, <3>1 DEF TypeOK
      <3> QED
        BY <2>1, <3>1, <3>2, SolveTypes
    <2>2. CASE EnterPhase(w, phase[w] + 1, spent[w]) /\ UNCHANGED lemmas
      <3>1. /\ phase[w] + 1 \in Nat /\ spent[w] \in BOOLEAN
            /\ lemmas' \in [Goals -> Proofs \cup {NoProof}]
        BY <2>2 DEF TypeOK
      <3> QED
        BY <2>2, <3>1, EnterPhaseTypes
    <2> QED
      BY <1>4, <2>1, <2>2 DEF RecheckVerdict
  <1>5. CASE TimeOut(w)
    <2>1. Failure("BUDGET_EXHAUSTED") \in Results
      BY FailureTypes DEF TaskStatuses
    <2> QED
      BY <1>5, <2>1, ReturnTypes DEF TimeOut, TypeOK, ChainTypeOK, taskVars
  <1> QED
    BY <1>1, <1>2, <1>3, <1>4, <1>5 DEF ChainStep

\* What a step of the chain of w can do to the variables that the safety
\* properties speak of: go on, fail, be stopped by a shutdown, or solve the task
\* with a proof that Lean accepts for it.
ChainEffect(w) ==
    /\ UNCHANGED <<UnchangedByChain, esc>>
    /\ pc'[w] \in {"lemma", "phase", "recheck", "return"}
    /\ turn' = IF pc'[w] = "return" THEN SameTurn(w) ELSE NoWorker
    /\ \A v \in Workers \ {w} : pc'[v] = pc[v] /\ outcome'[v] = outcome[v]
    /\ \/ /\ outcome'[w] = outcome[w] /\ pc'[w] # "return"
          /\ UNCHANGED <<status, proof>>
       \/ /\ outcome'[w] \in {Failure("FAILED_ALL"), Failure("BUDGET_EXHAUSTED")}
          /\ pc'[w] = "return"
          /\ UNCHANGED <<status, proof>>
       \/ /\ outcome'[w] = Failure("OPEN") /\ pc'[w] = "return" /\ shutdown
          /\ status' = [status EXCEPT ![wtask[w]] = "OPEN"]
          /\ UNCHANGED proof
       \/ \E p \in Accepts[wtask[w]] :
             /\ outcome'[w] = Result("SOLVED", p) /\ pc'[w] = "return"
             /\ status' = [status EXCEPT ![wtask[w]] = "SOLVED"]
             /\ proof' = [proof EXCEPT ![wtask[w]] = p]

\* The head of the phase loop has the effect of a chain step.
LEMMA EnterPhaseEffect ==
    ASSUME TypeOK, NEW w \in Workers, NEW k, NEW broke,
           EnterPhase(w, k, broke), UNCHANGED UnchangedByChain
    PROVE  ChainEffect(w)
  <1>1. CASE Return(w, Failure("FAILED_ALL")) /\ UNCHANGED taskVars
    BY <1>1 DEF ChainEffect, Return, TypeOK, taskVars
  <1>2. CASE /\ status' = [status EXCEPT ![wtask[w]] = "OPEN"]
             /\ UNCHANGED <<esc, proof>>
             /\ shutdown
             /\ Return(w, Failure("OPEN"))
    BY <1>2 DEF ChainEffect, Return, TypeOK
  <1>3. CASE Return(w, Failure("BUDGET_EXHAUSTED")) /\ UNCHANGED taskVars
    BY <1>3 DEF ChainEffect, Return, TypeOK, taskVars
  <1>4. CASE /\ pc' = [pc EXCEPT ![w] = "phase"]
             /\ turn' = NoWorker
             /\ UNCHANGED <<taskVars, outcome>>
    BY <1>4 DEF ChainEffect, TypeOK, taskVars
  <1> QED
    BY <1>1, <1>2, <1>3, <1>4 DEF EnterPhase

\* And so has every other step of a chain, and its timeout.
LEMMA ChainEffects ==
    ASSUME TypeOK, NEW w \in Workers, ChainStep(w) \/ TimeOut(w)
    PROVE  ChainEffect(w) /\ Busy(w) /\ pc[w] # "return" /\ MayRun(w)
  <1>0. Busy(w) /\ pc[w] # "return" /\ MayRun(w)
    BY DEF ChainStep, BeginChain, LemmaVerdict, PhaseEnds, RecheckVerdict, TimeOut, Busy,
           MayRun
  <1> SUFFICES ChainEffect(w)
    BY <1>0
  <1>1. UNCHANGED UnchangedByChain
    BY DEF ChainStep, BeginChain, LemmaVerdict, PhaseEnds, RecheckVerdict, TimeOut
  <1>2. ASSUME NEW p \in Accepts[wtask[w]], Solve(w, p)
        PROVE  ChainEffect(w)
    BY <1>1, <1>2 DEF Solve, Return, ChainEffect, TypeOK
  <1>3. CASE BeginChain(w)
    <2>1. CASE /\ pc' = [pc EXCEPT ![w] = "lemma"]
               /\ turn' = NoWorker
               /\ UNCHANGED <<taskVars, outcome>>
      BY <1>1, <2>1 DEF ChainEffect, TypeOK, taskVars
    <2> QED
      BY <1>1, <1>3, <2>1, EnterPhaseEffect DEF BeginChain
  <1>4. CASE LemmaVerdict(w)
    BY <1>1, <1>2, <1>4, EnterPhaseEffect DEF LemmaVerdict
  <1>5. CASE PhaseEnds(w)
    <2>1. CASE \E p, broke : Propose(w, p, broke)
      BY <1>1, <2>1 DEF Propose, ChainEffect, TypeOK, taskVars
    <2>2. CASE Return(w, Failure("FAILED_ALL")) /\ UNCHANGED taskVars
      BY <1>1, <2>2 DEF ChainEffect, Return, TypeOK, taskVars
    <2> QED
      BY <1>1, <1>5, <2>1, <2>2, EnterPhaseEffect DEF PhaseEnds
  <1>6. CASE RecheckVerdict(w)
    BY <1>1, <1>2, <1>6, EnterPhaseEffect DEF RecheckVerdict
  <1>7. CASE TimeOut(w)
    BY <1>7, <1>1 DEF TimeOut, ChainEffect, Return, TypeOK, taskVars
  <1> QED
    BY <1>3, <1>4, <1>5, <1>6, <1>7 DEF ChainStep

----------------------------------------------------------------------------
(* Types and the division of the work                                      *)

\* The type invariant is not inductive without the order among the workers:
\* what a busy worker does is typed only because it has a task.
InOrder == TypeOK /\ OneWorkerPerTask

\* A checkpoint has the types of what it stores.
LEMMA SaveTypes ==
    ASSUME status' \in [Tasks -> TaskStatuses], esc' \in [Tasks -> Nat],
           proof' \in [Tasks -> Proofs \cup {NoProof}],
           results' \in [Tasks -> Results], SaveCheckpoint
    PROVE  ckptTask' \in [Tasks -> TaskRecords] /\ ckptRes' \in [Tasks -> Results]
  <1>1. ASSUME NEW s \in TaskStatuses \cup {"ABSENT"}, NEW e \in Nat,
               NEW p \in Proofs \cup {NoProof}
        PROVE  TaskRecord(s, e, p) \in TaskRecords
    BY DEF TaskRecord, TaskRecords
  <1>2. Absent \in TaskRecords
    BY <1>1 DEF Absent
  <1>3. ASSUME NEW t \in Tasks
        PROVE  TaskRecord(status'[t], esc'[t], proof'[t]) \in TaskRecords
    BY <1>1
  <1> QED
    BY <1>2, <1>3 DEF SaveCheckpoint

\* The initial state is typed and in order.
LEMMA InitInOrder == Init => InOrder
  <1> SUFFICES ASSUME Init PROVE InOrder
    OBVIOUS
  <1>1. NoResult \in Results /\ Absent \in TaskRecords
    BY FailureTypes DEF NoResult, Absent, TaskRecord, TaskRecords
  <1>2. TypeOK
    BY <1>1 DEF Init, TypeOK, TaskStatuses
  <1>3. OneWorkerPerTask
    BY ConstantsAssumption
    DEF ConstantsAssumption, Init, OneWorkerPerTask, WorkersInOrder, Busy
  <1> QED
    BY <1>2, <1>3 DEF InOrder

\* Chain steps keep the types, the task of every worker, and the order.
LEMMA ChainInOrder ==
    ASSUME InOrder, NEW w \in Workers, ChainStep(w) \/ TimeOut(w)
    PROVE  InOrder'
  <1>1. ChainTypeOK'
    BY ChainTypes DEF InOrder, OneWorkerPerTask
  <1>2. ChainEffect(w) /\ Busy(w) /\ pc[w] # "return"
    BY ChainEffects DEF InOrder
  <1>3. UNCHANGED <<mode, runVars, results, marked, queue, sentinels, stopVars,
                    wtask, ckptVars>>
    BY <1>2 DEF ChainEffect, UnchangedByChain
  <1>4. TypeOK'
    BY <1>1, <1>3 DEF InOrder, TypeOK, ChainTypeOK, runVars, stopVars, ckptVars
  <1>5. WorkersInOrder'
    <2>1. \A v \in Workers : Busy(v)' <=> Busy(v)
      BY <1>2 DEF ChainEffect, Busy
    <2>2. outcome[w] = NoResult
      BY <1>2 DEF InOrder, OneWorkerPerTask, WorkersInOrder
    <2>3. IF pc'[w] = "return" THEN outcome'[w].status \in TaskStatuses
                               ELSE outcome'[w] = NoResult
      <3>1. /\ Failure("FAILED_ALL").status \in TaskStatuses
            /\ Failure("BUDGET_EXHAUSTED").status \in TaskStatuses
            /\ Failure("OPEN").status \in TaskStatuses
            /\ \A q : Result("SOLVED", q).status \in TaskStatuses
        BY DEF Failure, Result, TaskStatuses
      <3> QED
        BY <1>2, <2>2, <3>1 DEF ChainEffect
    <2>5. \A v \in Workers : IF pc'[v] = "return" THEN outcome'[v].status \in TaskStatuses
                                                  ELSE outcome'[v] = NoResult
      BY <1>2, <2>3 DEF ChainEffect, InOrder, OneWorkerPerTask, WorkersInOrder
    <2>4. \A v \in Workers : pc'[v] # "stopped" => mode = "working"
      BY <1>2 DEF ChainEffect, InOrder, OneWorkerPerTask, WorkersInOrder, Busy
    <2> QED
      BY <1>3, <2>1, <2>4, <2>5 DEF InOrder, OneWorkerPerTask, WorkersInOrder
  <1>6. OneWorkerPerTask'
    BY <1>3, <1>5 DEF InOrder, OneWorkerPerTask, runVars
  <1> QED
    BY <1>4, <1>6 DEF InOrder

\* At the loop head a worker takes the first task, or leaves.
LEMMA LoopHeadInOrder ==
    ASSUME InOrder, NEW w \in Workers, LoopHead(w) \/ TakeTooLate(w)
    PROVE  InOrder'
  <1>1. pc[w] \in {"new", "idle"} /\ mode = "working"
    BY DEF LoopHead, Take, Popped, TakeTooLate, TakeSentinel, StopEarly, AtLoopHead
  <1>2. wtask[w] \notin Tasks /\ outcome[w] = NoResult
    BY <1>1 DEF InOrder, OneWorkerPerTask, WorkersInOrder, Busy
  <1>3. CASE Take(w)
    <2>1. PICK t \in queue :
             /\ queue' = queue \ {t}
             /\ started' = started \cup {t}
             /\ processed' = processed + 1
             /\ status' = [status EXCEPT ![t] = "IN_PROGRESS"]
             /\ wtask' = [wtask EXCEPT ![w] = t]
      BY <1>3 DEF Take, Popped
    <2>2. t \in Tasks
      BY DEF InOrder, TypeOK
    <2>3. TypeOK'
      BY <1>3, <2>1, <2>2
      DEF Take, Popped, InOrder, TypeOK, SameTurn, TaskStatuses, stopVars, chainVars, ckptVars
    <2>4. WorkersInOrder'
      BY <1>1, <1>2, <1>3, <2>1, <2>2
      DEF Take, Popped, InOrder, TypeOK, OneWorkerPerTask, WorkersInOrder, Busy
    <2>5. OneWorkerPerTask'
      BY <1>2, <2>1, <2>2, <2>4 DEF InOrder, TypeOK, OneWorkerPerTask
    <2> QED
      BY <2>3, <2>5 DEF InOrder
  <1>4. CASE TakeTooLate(w) \/ TakeSentinel(w) \/ StopEarly(w)
    <2>1. /\ pc' = [pc EXCEPT ![w] = "stopped"]
          /\ turn' = NoWorker
          /\ UNCHANGED <<mode, runVars, bookVars, lemmas, wtask, chainVars,
                         outcome, ckptVars, shutdown, saving>>
      BY <1>4 DEF TakeTooLate, TakeSentinel, StopEarly, Stop, stopVars
    <2>2. /\ queue' \subseteq queue
          /\ sentinels' \in Nat
          /\ expired' \in BOOLEAN
      <3>1. CASE TakeTooLate(w)
        BY <3>1 DEF TakeTooLate, Popped, InOrder, TypeOK
      <3>2. CASE TakeSentinel(w)
        BY <3>2 DEF TakeSentinel, SentinelIsNext, InOrder, TypeOK, stopVars
      <3>3. CASE StopEarly(w)
        BY <3>3 DEF StopEarly, InOrder, TypeOK, stopVars
      <3> QED
        BY <1>4, <3>1, <3>2, <3>3
    <2>3. TypeOK'
      BY <2>1, <2>2
      DEF InOrder, TypeOK, runVars, bookVars, taskVars, chainVars, ckptVars
    <2>4. WorkersInOrder'
      BY <1>1, <1>2, <2>1 DEF InOrder, TypeOK, OneWorkerPerTask, WorkersInOrder, Busy
    <2>5. OneWorkerPerTask'
      BY <2>1, <2>2, <2>4 DEF InOrder, OneWorkerPerTask, runVars
    <2> QED
      BY <2>3, <2>5 DEF InOrder
  <1> QED
    BY <1>3, <1>4 DEF LoopHead

\* A failed result is booked with the types it needs.
LEMMA BookFailureTypes ==
    ASSUME TypeOK, NEW w \in Workers, wtask[w] \in Tasks,
           outcome[w].status \in TaskStatuses, BookFailure(w)
    PROVE  /\ status' \in [Tasks -> TaskStatuses]
           /\ results' \in [Tasks -> Results]
           /\ esc' \in [Tasks -> Nat]
           /\ marked' \in Nat
  <1> DEFINE t == wtask[w]
             e == esc[t] + 1
             axiom == e >= EscalationThreshold /\ QuotaLeft
             st == CASE axiom -> "MARKED_AXIOM"
                     [] e >= EscalationThreshold /\ ~axiom -> "FAILED_ALL"
                     [] e < EscalationThreshold -> outcome[w].status
  <1>1. e \in Nat
    BY DEF TypeOK
  <1>2. st \in TaskStatuses
    BY <1>1, ConstantsAssumption DEF ConstantsAssumption, TaskStatuses
  <1>3. Failure(st) \in Results
    BY <1>2, FailureTypes
  <1>4. /\ status' = [status EXCEPT ![t] = st]
        /\ results' = [results EXCEPT ![t] = Failure(st)]
        /\ esc' = [esc EXCEPT ![t] = e]
        /\ marked' \in {marked, marked + 1}
    BY DEF BookFailure, Book
  <1> HIDE DEF st, e
  <1> QED
    BY <1>1, <1>2, <1>3, <1>4 DEF TypeOK

\* A failed result is booked as an axiom, while the quota lasts, or as a failure.
LEMMA BookFailureStatus ==
    ASSUME TypeOK, NEW w \in Workers, wtask[w] \in Tasks, BookFailure(w)
    PROVE  \/ /\ QuotaLeft /\ marked' = marked + 1
              /\ Book(w, "MARKED_AXIOM", Failure("MARKED_AXIOM"))
           \/ /\ marked' = marked
              /\ \E st \in {"FAILED_ALL", outcome[w].status} : Book(w, st, Failure(st))
  <1> DEFINE e == esc[wtask[w]] + 1
             axiom == e >= EscalationThreshold /\ QuotaLeft
  <1>1. e \in Nat /\ EscalationThreshold \in Nat
    BY ConstantsAssumption DEF ConstantsAssumption, TypeOK
  <1>2. CASE axiom
    BY <1>1, <1>2 DEF BookFailure
  <1>3. CASE e >= EscalationThreshold /\ ~axiom
    BY <1>3 DEF BookFailure
  <1>4. CASE e < EscalationThreshold
    BY <1>1, <1>4 DEF BookFailure
  <1> QED
    BY <1>1, <1>2, <1>3, <1>4

\* Accounting frees the worker and keeps the types.
LEMMA AccountInOrder ==
    ASSUME InOrder, NEW w \in Workers, Account(w)
    PROVE  InOrder'
  <1>1. pc[w] = "return" /\ wtask[w] \in Tasks /\ mode = "working"
    BY DEF Account, InOrder, OneWorkerPerTask, WorkersInOrder, Busy
  <1>2. outcome[w] \in Results /\ outcome[w].status \in TaskStatuses
    BY <1>1 DEF InOrder, TypeOK, OneWorkerPerTask, WorkersInOrder
  <1>3. /\ status' \in [Tasks -> TaskStatuses]
        /\ results' \in [Tasks -> Results]
        /\ esc' \in [Tasks -> Nat]
        /\ marked' \in Nat
    <2>1. CASE Book(w, "SOLVED", outcome[w]) /\ UNCHANGED <<esc, marked>>
      BY <1>1, <1>2, <2>1 DEF Book, InOrder, TypeOK, TaskStatuses
    <2>2. CASE Book(w, status[wtask[w]], outcome[w]) /\ UNCHANGED <<esc, marked>>
      BY <1>1, <1>2, <2>2 DEF Book, InOrder, TypeOK
    <2>3. CASE BookFailure(w)
      BY <1>1, <1>2, <2>3, BookFailureTypes DEF InOrder
    <2> QED
      BY <2>1, <2>2, <2>3 DEF Account
  <1>4. proof' \in [Tasks -> Proofs \cup {NoProof}]
    BY DEF Account, InOrder, TypeOK
  <1>5. ckptTask' \in [Tasks -> TaskRecords] /\ ckptRes' \in [Tasks -> Results]
    <2>1. CASE SaveCheckpoint
      BY <1>3, <1>4, <2>1, SaveTypes
    <2>2. CASE UNCHANGED ckptVars
      BY <2>2 DEF InOrder, TypeOK, ckptVars
    <2> QED
      BY <2>1, <2>2 DEF Account
  <1>6. NoResult \in Results
    BY FailureTypes DEF NoResult
  <1>7. /\ UNCHANGED <<mode, runVars, queue, sentinels, stopVars, lemmas, chainVars>>
        /\ pc' = [pc EXCEPT ![w] = "idle"]
        /\ turn' = w
        /\ wtask' = [wtask EXCEPT ![w] = NoTask]
        /\ outcome' = [outcome EXCEPT ![w] = NoResult]
    BY DEF Account
  <1>8. TypeOK'
    BY <1>3, <1>4, <1>5, <1>6, <1>7 DEF InOrder, TypeOK, runVars, stopVars, chainVars
  <1>9. WorkersInOrder'
    BY <1>1, <1>7, ConstantsAssumption
    DEF ConstantsAssumption, InOrder, TypeOK, OneWorkerPerTask, WorkersInOrder, Busy
  <1>10. OneWorkerPerTask'
    BY <1>7, <1>9, ConstantsAssumption
    DEF ConstantsAssumption, InOrder, TypeOK, OneWorkerPerTask, runVars
  <1> QED
    BY <1>8, <1>10 DEF InOrder

\* What a new run takes over from the checkpoint has the types of a task.
LEMMA ResumedTypes ==
    ASSUME TypeOK, NEW t \in Tasks, NEW resume \in BOOLEAN
    PROVE  /\ Resumed(t, resume).status \in TaskStatuses
           /\ Resumed(t, resume).esc \in Nat
           /\ Resumed(t, resume).proof \in Proofs \cup {NoProof}
  <1>1. ckptTask[t] \in TaskRecords
    BY DEF TypeOK
  <1> QED
    BY <1>1
    DEF Resumed, TaskRecords, TaskRecord, Fresh, TerminalSkip, TaskStatuses

\* A new run starts with typed tasks and idle workers.
LEMMA StartInOrder ==
    ASSUME InOrder, NEW S \in TaskSets, NEW resume \in ResumeModes, Start(S, resume)
    PROVE  InOrder'
  <1> DEFINE merged == IF resume THEN ckptRes ELSE [t \in Tasks |-> NoResult]
             loaded == [t \in Tasks |-> IF t \in S THEN Resumed(t, resume) ELSE Fresh]
             pending == {t \in S : loaded[t].status \notin TerminalSkip}
             due == {t \in pending : loaded[t].esc >= EscalationThreshold}
             count == Cardinality(AxiomsIn(merged))
  <1>0. S \subseteq Tasks /\ resume \in BOOLEAN
    BY ConstantsAssumption DEF ConstantsAssumption
  <1>1. PICK axioms \in SUBSET due :
          /\ status' = [t \in Tasks |->
                CASE t \in axioms       -> "MARKED_AXIOM"
                  [] t \in due \ axioms -> "FAILED_ALL"
                  [] OTHER              -> loaded[t].status]
          /\ results' = [t \in Tasks |->
                CASE t \in axioms       -> Failure("MARKED_AXIOM")
                  [] t \in due \ axioms -> Failure("FAILED_ALL")
                  [] OTHER              -> merged[t]]
          /\ marked' = count + Cardinality(axioms)
    BY DEF Start
  <1>2. /\ esc' = [t \in Tasks |-> loaded[t].esc]
        /\ proof' = [t \in Tasks |-> loaded[t].proof]
        /\ queue' = pending \ due
        /\ mode \in {"down", "finished"}
        /\ mode' = "planning" /\ runs' = runs + 1 /\ active' = S
        /\ sentinels' = 0 /\ started' = {} /\ processed' = 0 /\ untouched' = {}
        /\ shutdown' = FALSE /\ saving' = FALSE /\ expired' = FALSE
        /\ UNCHANGED <<workVars, lemmas, ckptVars>>
    BY DEF Start
  <1>3. ASSUME NEW t \in Tasks
        PROVE  /\ loaded[t].status \in TaskStatuses
               /\ loaded[t].esc \in Nat
               /\ loaded[t].proof \in Proofs \cup {NoProof}
    <2>1. CASE t \in S
      BY <1>0, <2>1, ResumedTypes DEF InOrder
    <2>2. CASE t \notin S
      BY <2>2 DEF Fresh, TaskRecord, TaskStatuses
    <2> QED
      BY <2>1, <2>2
  <1>4. merged \in [Tasks -> Results]
    BY FailureTypes DEF InOrder, TypeOK, NoResult
  <1>5. count \in Nat /\ Cardinality(axioms) \in Nat
    <2>1. axioms \subseteq Tasks
      BY <1>0, <1>1
    <2> QED
      BY <2>1, AxiomsFinite, FS_Subset, FS_CardinalityType, ConstantsAssumption
      DEF ConstantsAssumption
  <1>6. Failure("MARKED_AXIOM") \in Results /\ Failure("FAILED_ALL") \in Results
    BY FailureTypes DEF TaskStatuses
  <1>7. pending \subseteq Tasks
    BY <1>0
  <1> HIDE DEF merged, loaded, count, due, pending
  <1>8. status' \in [Tasks -> TaskStatuses]
    BY <1>1, <1>3 DEF TaskStatuses
  <1>9. results' \in [Tasks -> Results]
    BY <1>1, <1>4, <1>6
  <1>10. /\ esc' \in [Tasks -> Nat] /\ proof' \in [Tasks -> Proofs \cup {NoProof}]
         /\ marked' \in Nat /\ queue' \subseteq Tasks
    BY <1>1, <1>2, <1>3, <1>5, <1>7
  <1>11. TypeOK'
    <2>1. /\ turn' \in Workers \cup {NoWorker}
          /\ pc' \in [Workers -> {"new", "idle", "enter", "lemma", "phase",
                                  "recheck", "return", "stopped"}]
          /\ wtask' \in [Workers -> Tasks \cup {NoTask}]
          /\ phase' \in [Workers -> Nat]
          /\ spent' \in [Workers -> BOOLEAN]
          /\ cand' \in [Workers -> Proofs \cup {NoProof}]
          /\ outcome' \in [Workers -> Results]
          /\ lemmas' \in [Goals -> Proofs \cup {NoProof}]
          /\ ckptTask' \in [Tasks -> TaskRecords]
          /\ ckptRes' \in [Tasks -> Results]
      BY <1>2 DEF InOrder, TypeOK, workVars, chainVars, ckptVars
    <2>2. /\ mode' = "planning" /\ runs' \in Nat /\ active' \subseteq Tasks
          /\ sentinels' = 0 /\ started' = {} /\ processed' = 0 /\ untouched' = {}
          /\ shutdown' = FALSE /\ saving' = FALSE /\ expired' = FALSE
      BY <1>0, <1>2 DEF InOrder, TypeOK
    <2> QED
      BY <1>8, <1>9, <1>10, <2>1, <2>2 DEF TypeOK
  <1>12. OneWorkerPerTask'
    BY <1>2, ConstantsAssumption
    DEF ConstantsAssumption, InOrder, TypeOK, OneWorkerPerTask, WorkersInOrder, Busy, workVars
  <1> QED
    BY <1>11, <1>12 DEF InOrder

\* The steps of the run itself, and what interrupts it.
LEMMA RunInOrder ==
    ASSUME InOrder, RunStep \/ Signal \/ WallClockExpires \/ Crash
    PROVE  InOrder'
  <1>1. CASE LaunchWorkers
    <2>1. Cardinality(Workers) \in Nat
      BY FS_CardinalityType, ConstantsAssumption DEF ConstantsAssumption
    <2>2. TypeOK'
      BY <1>1, <2>1
      DEF LaunchWorkers, SentinelsForWorkers, InOrder, TypeOK, runVars, bookVars,
          taskVars, stopVars, chainVars, ckptVars
    <2>3. OneWorkerPerTask'
      BY <1>1
      DEF LaunchWorkers, InOrder, TypeOK, OneWorkerPerTask, WorkersInOrder, Busy, runVars
    <2> QED
      BY <2>2, <2>3 DEF InOrder
  <1>2. CASE EmergencySave \/ Finish
    <2>1. UNCHANGED bookVars /\ SaveCheckpoint
      BY <1>2 DEF EmergencySave, Finish
    <2>2. ckptTask' \in [Tasks -> TaskRecords] /\ ckptRes' \in [Tasks -> Results]
      BY <2>1, SaveTypes DEF InOrder, TypeOK, bookVars, taskVars
    <2>3. TypeOK'
      BY <1>2, <2>2
      DEF EmergencySave, Finish, InOrder, TypeOK, runVars, bookVars, taskVars,
          stopVars, workVars, chainVars
    <2>4. OneWorkerPerTask'
      BY <1>2
      DEF EmergencySave, Finish, InOrder, OneWorkerPerTask, WorkersInOrder, Busy,
          runVars, workVars
    <2> QED
      BY <2>3, <2>4 DEF InOrder
  <1>3. CASE Drain
    <2>1. TypeOK'
      BY <1>3
      DEF Drain, InOrder, TypeOK, bookVars, taskVars, stopVars, workVars, chainVars,
          ckptVars
    <2>2. OneWorkerPerTask'
      BY <1>3
      DEF Drain, InOrder, TypeOK, OneWorkerPerTask, WorkersInOrder, Busy, workVars
    <2> QED
      BY <2>1, <2>2 DEF InOrder
  <1>4. CASE Signal \/ WallClockExpires
    <2>1. TypeOK'
      BY <1>4
      DEF Signal, WallClockExpires, InOrder, TypeOK, runVars, bookVars, taskVars,
          workVars, chainVars, ckptVars
    <2>2. OneWorkerPerTask'
      BY <1>4
      DEF Signal, WallClockExpires, InOrder, OneWorkerPerTask, WorkersInOrder, Busy,
          runVars, workVars
    <2> QED
      BY <2>1, <2>2 DEF InOrder
  <1>5. CASE Crash
    <2>1. NoResult \in Results
      BY FailureTypes DEF NoResult
    <2>2. TypeOK'
      BY <1>5, <2>1 DEF Crash, InOrder, TypeOK, TaskStatuses, ckptVars
    <2>3. OneWorkerPerTask'
      BY <1>5, ConstantsAssumption
      DEF ConstantsAssumption, Crash, InOrder, OneWorkerPerTask, WorkersInOrder, Busy
    <2> QED
      BY <2>2, <2>3 DEF InOrder
  <1> QED
    BY <1>1, <1>2, <1>3, <1>4, <1>5 DEF RunStep

\* Every step keeps the types and the order.
LEMMA NextInOrder == InOrder /\ [Next]_vars => InOrder'
  <1> SUFFICES ASSUME InOrder, [Next]_vars PROVE InOrder'
    OBVIOUS
  <1>1. ASSUME NEW w \in Workers, WorkerStep(w) PROVE InOrder'
    BY <1>1, LoopHeadInOrder, ChainInOrder, AccountInOrder DEF WorkerStep
  <1>2. ASSUME NEW w \in Workers, LearnLemma(w) PROVE InOrder'
    <2>1. lemmas' \in [Goals -> Proofs \cup {NoProof}]
      BY <1>2 DEF LearnLemma, InOrder, TypeOK
    <2>2. TypeOK'
      BY <1>2, <2>1
      DEF LearnLemma, UnchangedByChain, InOrder, TypeOK, runVars, taskVars, stopVars,
          chainVars, ckptVars
    <2>3. OneWorkerPerTask'
      BY <1>2
      DEF LearnLemma, UnchangedByChain, InOrder, OneWorkerPerTask, WorkersInOrder, Busy,
          runVars
    <2> QED
      BY <2>2, <2>3 DEF InOrder
  <1>3. CASE Interruption
    BY <1>3, LoopHeadInOrder, ChainInOrder, RunInOrder DEF Interruption
  <1>4. CASE RunStep
    BY <1>4, RunInOrder
  <1>5. ASSUME NEW S \in TaskSets, NEW resume \in ResumeModes, Start(S, resume)
        PROVE  InOrder'
    BY <1>5, StartInOrder
  <1>6. CASE UNCHANGED vars
    BY <1>6
    DEF vars, runVars, bookVars, taskVars, stopVars, workVars, chainVars, ckptVars,
        InOrder, TypeOK, OneWorkerPerTask, WorkersInOrder, Busy
  <1> QED
    BY <1>1, <1>2, <1>3, <1>4, <1>5, <1>6 DEF Next

\* The variables keep their types, and at any moment a task is with one worker
\* at most: no two coroutines ever work on, or book, the same task.
THEOREM WorkIsDivided == Spec => [](TypeOK /\ OneWorkerPerTask)
  <1>1. InOrder => TypeOK /\ OneWorkerPerTask
    BY DEF InOrder
  <1> QED
    BY <1>1, InitInOrder, NextInOrder, PTL DEF Spec

----------------------------------------------------------------------------
(* What is in flight between a chain and its accounting                    *)

\* A step that touches neither a task nor a result nor what a worker has in
\* hand, and at most saves the checkpoint, between two turns of the loop.
Quiet ==
    /\ UNCHANGED <<bookVars, runs, active, started, processed, wtask, outcome>>
    /\ queue' \subseteq queue
    /\ \/ UNCHANGED ckptVars
       \/ SaveCheckpoint /\ (saving \/ mode # "down") /\ (LoopIsFree \/ mode = "draining")
    /\ mode' = "down" <=> mode = "down"
    /\ saving' => saving \/ mode # "down"

\* Every step starts a run, ends the process, is quiet, or is one of a worker.
LEMMA StepKinds ==
    ASSUME [Next]_vars
    PROVE  \/ \E w \in Workers : ChainStep(w) \/ TimeOut(w)
           \/ \E w \in Workers : Take(w)
           \/ \E w \in Workers : Account(w)
           \/ \E S \in TaskSets, resume \in ResumeModes : Start(S, resume)
           \/ Crash
           \/ Quiet
  <1>1. ASSUME NEW w \in Workers, TakeTooLate(w) \/ TakeSentinel(w) \/ StopEarly(w)
        PROVE  Quiet
    BY <1>1 DEF TakeTooLate, Popped, TakeSentinel, StopEarly, Quiet, runVars, bookVars,
                taskVars, stopVars
  <1>2. CASE LaunchWorkers \/ Drain \/ Signal \/ WallClockExpires
    BY <1>2 DEF LaunchWorkers, Drain, Signal, WallClockExpires, Quiet, runVars,
                bookVars, taskVars, stopVars, workVars, Live
  <1>3. CASE EmergencySave \/ Finish
    BY <1>3 DEF EmergencySave, Finish, Quiet, runVars, bookVars, taskVars, stopVars,
                workVars
  <1>4. ASSUME NEW w \in Workers, LearnLemma(w)
        PROVE  Quiet
    BY <1>4 DEF LearnLemma, UnchangedByChain, Quiet, runVars, bookVars, taskVars,
                stopVars
  <1>5. CASE UNCHANGED vars
    BY <1>5 DEF vars, Quiet, runVars, bookVars, taskVars, stopVars, workVars
  <1> QED
    BY <1>1, <1>2, <1>3, <1>4, <1>5
    DEF Next, WorkerStep, LoopHead, Interruption, RunStep

\* A worker's task is decided exactly when its chain has returned a solution,
\* with the same proof; only the accounting makes axioms.
InFlight ==
    \A w \in Workers :
        /\ outcome[w].status # "MARKED_AXIOM"
        /\ wtask[w] \in Tasks =>
             /\ status[wtask[w]] # "MARKED_AXIOM"
             /\ status[wtask[w]] = "SOLVED" <=> outcome[w].status = "SOLVED"
             /\ outcome[w].status = "SOLVED" => proof[wtask[w]] = outcome[w].proof

\* Every step keeps what is in flight and the tasks in agreement.
LEMMA NextInFlight ==
    ASSUME InOrder, InFlight, InOrder', [Next]_vars
    PROVE  InFlight'
  <1>1. ASSUME NEW w \in Workers, ChainStep(w) \/ TimeOut(w)
        PROVE  InFlight'
    <2>1. ChainEffect(w) /\ Busy(w) /\ pc[w] # "return"
      BY <1>1, ChainEffects DEF InOrder
    <2>2. UNCHANGED wtask /\ wtask[w] \in Tasks /\ outcome[w] = NoResult
      BY <2>1 DEF ChainEffect, UnchangedByChain, InOrder, OneWorkerPerTask, WorkersInOrder
    <2>3. NoResult.status = "NONE"
      BY DEF NoResult, Failure, Result
    <2>4. ASSUME NEW v \in Workers, v # w, wtask[v] \in Tasks
          PROVE  wtask[v] # wtask[w]
      BY <2>4 DEF InOrder, OneWorkerPerTask
    <2>5. CASE UNCHANGED <<status, proof>> /\ outcome'[w].status \notin {"SOLVED", "MARKED_AXIOM"}
      BY <2>1, <2>2, <2>3, <2>5 DEF ChainEffect, InFlight
    <2>6. CASE /\ outcome'[w] = Failure("OPEN")
               /\ status' = [status EXCEPT ![wtask[w]] = "OPEN"]
               /\ UNCHANGED proof
      BY SMTT(30), <2>1, <2>2, <2>4, <2>6 DEF ChainEffect, InFlight, Failure, Result, InOrder, TypeOK
    <2>7. ASSUME NEW p \in Accepts[wtask[w]],
                 outcome'[w] = Result("SOLVED", p),
                 status' = [status EXCEPT ![wtask[w]] = "SOLVED"],
                 proof' = [proof EXCEPT ![wtask[w]] = p]
          PROVE  InFlight'
      BY SMTT(30), <2>1, <2>2, <2>4, <2>7 DEF ChainEffect, InFlight, Result, InOrder, TypeOK
    <2>8. CASE outcome'[w] = outcome[w] /\ UNCHANGED <<status, proof>>
      BY <2>2, <2>3, <2>5, <2>8
    <2>9. CASE /\ outcome'[w] \in {Failure("FAILED_ALL"), Failure("BUDGET_EXHAUSTED")}
               /\ UNCHANGED <<status, proof>>
      BY <2>5, <2>9 DEF Failure, Result
    <2> QED
      BY <2>1, <2>6, <2>7, <2>8, <2>9 DEF ChainEffect
  <1>2. ASSUME NEW w \in Workers, Take(w)
        PROVE  InFlight'
    <2>1. PICK t \in queue :
             /\ status' = [status EXCEPT ![t] = "IN_PROGRESS"]
             /\ wtask' = [wtask EXCEPT ![w] = t]
      BY <1>2 DEF Take, Popped
    <2>2. UNCHANGED <<proof, outcome>> /\ t \in Tasks
      BY <1>2 DEF Take, Popped, InOrder, TypeOK
    <2>3. outcome[w] = NoResult
      BY <1>2 DEF Take, Popped, AtLoopHead, InOrder, OneWorkerPerTask, WorkersInOrder
    <2>4. \A v \in Workers : wtask[v] \in Tasks => wtask[v] # t
      BY DEF InOrder, OneWorkerPerTask
    <2> QED
      BY <2>1, <2>2, <2>3, <2>4 DEF InFlight, NoResult, Failure, Result, InOrder, TypeOK
  <1>3. ASSUME NEW w \in Workers, Account(w)
        PROVE  InFlight'
    <2>1. /\ UNCHANGED proof
          /\ wtask' = [wtask EXCEPT ![w] = NoTask]
          /\ outcome' = [outcome EXCEPT ![w] = NoResult]
          /\ pc[w] = "return"
      BY <1>3 DEF Account
    <2>2. NoTask \notin Tasks /\ wtask[w] \in Tasks
      BY <2>1, ConstantsAssumption
      DEF ConstantsAssumption, InOrder, OneWorkerPerTask, WorkersInOrder, Busy
    <2>3. ASSUME NEW t \in Tasks, t # wtask[w] PROVE status'[t] = status[t]
      <3>1. PICK st, r : Book(w, st, r)
        BY <1>3 DEF Account, BookFailure
      <3> QED
        BY <2>3, <3>1 DEF Book, InOrder, TypeOK
    <2>4. ASSUME NEW v \in Workers, v # w, wtask[v] \in Tasks
          PROVE  wtask[v] # wtask[w]
      BY <2>4 DEF InOrder, OneWorkerPerTask
    <2> QED
      BY <2>1, <2>2, <2>3, <2>4 DEF InFlight, NoResult, Failure, Result, InOrder, TypeOK
  <1>4. ASSUME NEW S \in TaskSets, NEW resume \in ResumeModes, Start(S, resume)
        PROVE  InFlight'
    <2>1. \A w \in Workers : wtask'[w] \notin Tasks /\ outcome'[w] = NoResult
      BY <1>4 DEF Start, workVars, InOrder, OneWorkerPerTask, WorkersInOrder, Busy
    <2> QED
      BY <2>1 DEF InFlight, NoResult, Failure, Result
  <1>5. CASE Crash
    BY <1>5, ConstantsAssumption
    DEF ConstantsAssumption, Crash, InFlight, NoResult, Failure, Result
  <1>6. CASE Quiet
    BY <1>6 DEF Quiet, InFlight, bookVars, taskVars
  <1> QED
    BY <1>1, <1>2, <1>3, <1>4, <1>5, <1>6, StepKinds

\* The initial state has nothing in flight.
LEMMA InitInFlight == Init => InFlight
  BY ConstantsAssumption DEF ConstantsAssumption, Init, InFlight, NoResult, Failure, Result

----------------------------------------------------------------------------
(* Verified solutions                                                      *)

\* Solutions in the tasks and results of the run; VerifiedSolutions also has
\* those of the checkpoint.
BooksVerified ==
    \A t \in Tasks :
        /\ status[t] = "SOLVED" => proof[t] \in Accepts[t]
        /\ results[t].status = "SOLVED" => results[t].proof \in Accepts[t]

\* Saving verified books, or not saving at all, keeps the checkpoint verified.
LEMMA SaveVerified ==
    ASSUME VerifiedSolutions, BooksVerified', UNCHANGED ckptVars \/ SaveCheckpoint
    PROVE  VerifiedSolutions'
  <1>1. CASE UNCHANGED ckptVars
    BY <1>1 DEF VerifiedSolutions, BooksVerified, ckptVars
  <1>2. CASE SaveCheckpoint
    BY <1>2 DEF SaveCheckpoint, VerifiedSolutions, BooksVerified, TaskRecord, Absent
  <1> QED
    BY <1>1, <1>2

\* Every step keeps the solutions verified.
LEMMA NextVerified ==
    ASSUME InOrder, InFlight, VerifiedSolutions, [Next]_vars
    PROVE  VerifiedSolutions'
  <1>0. BooksVerified
    BY DEF VerifiedSolutions, BooksVerified
  <1>1. ASSUME NEW w \in Workers, ChainStep(w) \/ TimeOut(w)
        PROVE  VerifiedSolutions'
    <2>1. ChainEffect(w) /\ Busy(w)
      BY <1>1, ChainEffects DEF InOrder
    <2>2. wtask[w] \in Tasks /\ UNCHANGED <<results, ckptVars>>
      BY <2>1 DEF ChainEffect, UnchangedByChain, InOrder, OneWorkerPerTask, WorkersInOrder
    <2>3. BooksVerified'
      <3>1. CASE UNCHANGED <<status, proof>>
        BY <1>0, <2>2, <3>1 DEF BooksVerified
      <3>2. CASE status' = [status EXCEPT ![wtask[w]] = "OPEN"] /\ UNCHANGED proof
        BY <1>0, <2>2, <3>2 DEF BooksVerified, InOrder, TypeOK
      <3>3. ASSUME NEW p \in Accepts[wtask[w]],
                   status' = [status EXCEPT ![wtask[w]] = "SOLVED"],
                   proof' = [proof EXCEPT ![wtask[w]] = p]
            PROVE  BooksVerified'
        BY <1>0, <2>2, <3>3 DEF BooksVerified, InOrder, TypeOK
      <3> QED
        BY <2>1, <3>1, <3>2, <3>3 DEF ChainEffect
    <2> QED
      BY <2>2, <2>3, SaveVerified
  <1>2. ASSUME NEW w \in Workers, Take(w)
        PROVE  VerifiedSolutions'
    BY <1>2 DEF Take, Popped, VerifiedSolutions, ckptVars, InOrder, TypeOK
  <1>3. ASSUME NEW w \in Workers, Account(w)
        PROVE  VerifiedSolutions'
    <2>1. wtask[w] \in Tasks /\ UNCHANGED proof
      BY <1>3 DEF Account, InOrder, OneWorkerPerTask, WorkersInOrder, Busy
    <2>2. ASSUME NEW st, NEW r, Book(w, st, r),
                 st = "SOLVED" => proof[wtask[w]] \in Accepts[wtask[w]],
                 r.status = "SOLVED" => r.proof \in Accepts[wtask[w]]
          PROVE  BooksVerified'
      BY <1>0, <2>1, <2>2 DEF Book, BooksVerified, InOrder, TypeOK
    <2>3. BooksVerified'
      <3>1. CASE outcome[w].status = "SOLVED" /\ Book(w, "SOLVED", outcome[w])
        <4>1. proof[wtask[w]] \in Accepts[wtask[w]] /\ outcome[w].proof = proof[wtask[w]]
          BY <1>0, <2>1, <3>1 DEF InFlight, BooksVerified
        <4> QED
          BY <2>2, <3>1, <4>1
      <3>2. CASE outcome[w].status = "OPEN" /\ Book(w, status[wtask[w]], outcome[w])
        BY <1>0, <2>1, <2>2, <3>2 DEF BooksVerified
      <3>3. CASE outcome[w].status \notin {"SOLVED", "OPEN"} /\ BookFailure(w)
        <4>1. PICK st : st # "SOLVED" /\ Book(w, st, Failure(st))
          BY <2>1, <3>3, BookFailureStatus DEF InOrder
        <4>2. Failure(st).status # "SOLVED"
          BY <4>1 DEF Failure, Result
        <4> QED
          BY <2>2, <4>1, <4>2
      <3> QED
        BY <1>3, <3>1, <3>2, <3>3 DEF Account
    <2>4. UNCHANGED ckptVars \/ SaveCheckpoint
      BY <1>3 DEF Account
    <2> QED
      BY <2>3, <2>4, SaveVerified
  <1>4. ASSUME NEW S \in TaskSets, NEW resume \in ResumeModes, Start(S, resume)
        PROVE  VerifiedSolutions'
    <2> DEFINE merged == IF resume THEN ckptRes ELSE [t \in Tasks |-> NoResult]
               loaded == [t \in Tasks |-> IF t \in S THEN Resumed(t, resume)
                                                     ELSE Fresh]
    <2>1. /\ \A t \in Tasks : status'[t] = "SOLVED" => loaded[t].status = "SOLVED"
          /\ \A t \in Tasks : results'[t].status = "SOLVED" => results'[t] = merged[t]
          /\ proof' = [t \in Tasks |-> loaded[t].proof]
          /\ UNCHANGED ckptVars
      BY <1>4 DEF Start, Failure, Result
    <2>2. ASSUME NEW t \in Tasks, loaded[t].status = "SOLVED"
          PROVE  loaded[t].proof \in Accepts[t]
      BY <2>2 DEF Resumed, Fresh, TaskRecord, VerifiedSolutions
    <2>3. ASSUME NEW t \in Tasks, merged[t].status = "SOLVED"
          PROVE  merged[t].proof \in Accepts[t]
      BY <2>3 DEF NoResult, Failure, Result, VerifiedSolutions
    <2> HIDE DEF merged, loaded
    <2>4. BooksVerified'
      BY <2>1, <2>2, <2>3 DEF BooksVerified
    <2> QED
      BY <2>1, <2>4, SaveVerified
  <1>5. CASE Crash
    BY <1>5 DEF Crash, VerifiedSolutions, NoResult, Failure, Result, ckptVars
  <1>6. CASE Quiet
    <2>1. BooksVerified'
      BY <1>0, <1>6 DEF Quiet, BooksVerified, bookVars, taskVars
    <2> QED
      BY <1>6, <2>1, SaveVerified DEF Quiet
  <1> QED
    BY <1>1, <1>2, <1>3, <1>4, <1>5, <1>6, StepKinds

\* No self-signed success: whatever the phases propose, the lemma cache holds,
\* times out, crashes or is resumed, a booked or saved solution is a proof that
\* Lean accepts for that task.
THEOREM SolutionsAreVerified == Spec => []VerifiedSolutions
  <1>1. Init => InOrder /\ InFlight /\ VerifiedSolutions
    <2>1. Init => VerifiedSolutions
      BY DEF Init, VerifiedSolutions, NoResult, Failure, Result, Absent, TaskRecord
    <2> QED
      BY <2>1, InitInOrder, InitInFlight
  <1>2. InOrder /\ InFlight /\ VerifiedSolutions /\ [Next]_vars
           => (InOrder /\ InFlight /\ VerifiedSolutions)'
    BY NextInOrder, NextInFlight, NextVerified
  <1> QED
    BY <1>1, <1>2, PTL DEF Spec

----------------------------------------------------------------------------
(* The axiom quota                                                         *)

\* The counter bounds the axioms of the run, which every axiom task is one of;
\* and the axiom tasks of the checkpoint are among its axiom results.
QuotaKept ==
    /\ Cardinality(AxiomsIn(results)) <= marked
    /\ marked <= AxiomQuota
    /\ Cardinality(AxiomsIn(ckptRes)) <= AxiomQuota
    /\ \A t \in Tasks : status[t] = "MARKED_AXIOM" => results[t].status = "MARKED_AXIOM"
    /\ \A t \in Tasks : ckptTask[t].status = "MARKED_AXIOM"
                            => ckptRes[t].status = "MARKED_AXIOM"

\* The part of it that speaks of the run.
BooksWithinQuota ==
    /\ Cardinality(AxiomsIn(results)) <= marked
    /\ marked <= AxiomQuota
    /\ \A t \in Tasks : status[t] = "MARKED_AXIOM" => results[t].status = "MARKED_AXIOM"

\* Fewer axioms count less.
LEMMA AxiomsMonotone ==
    ASSUME NEW rs, NEW ss, AxiomsIn(rs) \subseteq AxiomsIn(ss)
    PROVE  Cardinality(AxiomsIn(rs)) <= Cardinality(AxiomsIn(ss))
  BY AxiomsFinite, FS_Subset

\* One more axiom counts one more at most.
LEMMA OneMoreAxiom ==
    ASSUME NEW rs, NEW ss, NEW t \in Tasks,
           AxiomsIn(rs) \subseteq AxiomsIn(ss) \cup {t}
    PROVE  Cardinality(AxiomsIn(rs)) <= Cardinality(AxiomsIn(ss)) + 1
  <1>1. /\ IsFiniteSet(AxiomsIn(ss) \cup {t})
        /\ Cardinality(AxiomsIn(ss) \cup {t}) <= Cardinality(AxiomsIn(ss)) + 1
    <2>1. IsFiniteSet(AxiomsIn(ss)) /\ Cardinality(AxiomsIn(ss)) \in Nat
      BY AxiomsFinite
    <2>2. /\ IsFiniteSet(AxiomsIn(ss) \cup {t})
          /\ Cardinality(AxiomsIn(ss) \cup {t})
               = IF t \in AxiomsIn(ss) THEN Cardinality(AxiomsIn(ss))
                                       ELSE Cardinality(AxiomsIn(ss)) + 1
      BY <2>1, FS_AddElement
    <2> QED
      BY <2>1, <2>2
  <1>2. /\ Cardinality(AxiomsIn(rs)) <= Cardinality(AxiomsIn(ss) \cup {t})
        /\ Cardinality(AxiomsIn(ss) \cup {t}) \in Nat
    BY <1>1, FS_Subset, FS_CardinalityType
  <1> QED
    BY <1>1, <1>2, AxiomsFinite

\* Saving books within the quota, or not saving at all, keeps the quota.
LEMMA SaveWithinQuota ==
    ASSUME QuotaKept, BooksWithinQuota', marked' \in Nat,
           UNCHANGED ckptVars \/ SaveCheckpoint
    PROVE  QuotaKept'
  <1>1. CASE UNCHANGED ckptVars
    BY <1>1 DEF QuotaKept, BooksWithinQuota, ckptVars
  <1>2. CASE SaveCheckpoint
    <2>1. ckptRes' = results'
      BY <1>2 DEF SaveCheckpoint
    <2>2. Cardinality(AxiomsIn(results))' <= AxiomQuota
      <3>1. Cardinality(AxiomsIn(results)') \in Nat
        BY AxiomsFinite
      <3>2. marked' <= AxiomQuota /\ Cardinality(AxiomsIn(results))' <= marked'
        BY DEF BooksWithinQuota
      <3> QED
        BY <3>1, <3>2, ConstantsAssumption DEF ConstantsAssumption
    <2>3. \A t \in Tasks : ckptTask'[t].status = "MARKED_AXIOM" => status'[t] = "MARKED_AXIOM"
      BY <1>2 DEF SaveCheckpoint, TaskRecord, Absent
    <2> QED
      BY <2>1, <2>2, <2>3 DEF QuotaKept, BooksWithinQuota
  <1> QED
    BY <1>1, <1>2

\* A new run takes over the axioms of the checkpoint, and adds to them only
\* within what the quota leaves.
LEMMA StartWithinQuota ==
    ASSUME InOrder, QuotaKept, NEW S \in TaskSets, NEW resume \in ResumeModes,
           Start(S, resume)
    PROVE  BooksWithinQuota'
  <1> DEFINE merged == IF resume THEN ckptRes ELSE [t \in Tasks |-> NoResult]
             loaded == [t \in Tasks |-> IF t \in S THEN Resumed(t, resume) ELSE Fresh]
             pending == {t \in S : loaded[t].status \notin TerminalSkip}
             due == {t \in pending : loaded[t].esc >= EscalationThreshold}
             count == Cardinality(AxiomsIn(merged))
  <1>0. S \subseteq Tasks
    BY ConstantsAssumption DEF ConstantsAssumption
  <1>1. PICK axioms \in SUBSET due :
          /\ count + Cardinality(axioms) <= AxiomQuota \/ axioms = {}
          /\ status' = [t \in Tasks |->
                CASE t \in axioms       -> "MARKED_AXIOM"
                  [] t \in due \ axioms -> "FAILED_ALL"
                  [] OTHER              -> loaded[t].status]
          /\ results' = [t \in Tasks |->
                CASE t \in axioms       -> Failure("MARKED_AXIOM")
                  [] t \in due \ axioms -> Failure("FAILED_ALL")
                  [] OTHER              -> merged[t]]
          /\ marked' = count + Cardinality(axioms)
    BY DEF Start
  <1>2. /\ IsFiniteSet(AxiomsIn(merged)) /\ count \in Nat
    BY AxiomsFinite
  <1>3. axioms \subseteq Tasks
    BY <1>0, <1>1
  <1>4. IsFiniteSet(axioms) /\ Cardinality(axioms) \in Nat
    BY <1>3, FS_Subset, FS_CardinalityType, ConstantsAssumption DEF ConstantsAssumption
  <1>5. count <= AxiomQuota
    <2>1. CASE resume
      BY <2>1 DEF QuotaKept
    <2>2. CASE ~resume
      <3>1. AxiomsIn(merged) = {}
        BY <2>2 DEF AxiomsIn, NoResult, Failure, Result
      <3>2. count = 0
        BY <3>1, FS_EmptySet, Zenon
      <3> HIDE DEF count
      <3> QED
        BY <3>2, ConstantsAssumption DEF ConstantsAssumption
    <2> QED
      BY <2>1, <2>2
  <1>6. marked' <= AxiomQuota
    <2>1. CASE axioms = {}
      BY <1>1, <1>2, <1>5, <2>1, FS_EmptySet
    <2>2. CASE count + Cardinality(axioms) <= AxiomQuota
      BY <1>1, <2>2
    <2> QED
      BY <1>1, <2>1, <2>2
  <1>r. resume \in BOOLEAN
    BY ConstantsAssumption DEF ConstantsAssumption
  <1>7. ASSUME NEW t \in Tasks, loaded[t].status = "MARKED_AXIOM"
        PROVE  merged[t].status = "MARKED_AXIOM"
    BY <1>7 DEF Resumed, Fresh, TaskRecord, QuotaKept
  <1>8. ASSUME NEW t \in due
        PROVE  loaded[t].status # "MARKED_AXIOM"
    BY DEF TerminalSkip
  <1> HIDE DEF merged, loaded, due, pending
  <1>9. \A t \in Tasks : status'[t] = "MARKED_AXIOM" => results'[t].status = "MARKED_AXIOM"
    BY <1>1, <1>7 DEF Failure, Result
  <1>10. AxiomsIn(results') \subseteq AxiomsIn(merged) \cup axioms
    <2>1. ASSUME NEW t \in Tasks, t \notin axioms, results'[t].status = "MARKED_AXIOM"
          PROVE  merged[t].status = "MARKED_AXIOM"
      BY <1>1, <2>1 DEF Failure, Result
    <2> QED
      BY <2>1 DEF AxiomsIn
  <1>11. Cardinality(AxiomsIn(results')) <= marked'
    <2>1. /\ IsFiniteSet(AxiomsIn(merged) \cup axioms)
          /\ Cardinality(AxiomsIn(merged) \cup axioms)
               = count + Cardinality(axioms) - Cardinality(AxiomsIn(merged) \cap axioms)
      BY <1>2, <1>4, FS_Union
    <2>2. Cardinality(AxiomsIn(merged) \cap axioms) \in Nat
      BY <1>4, FS_Subset, FS_CardinalityType
    <2>3. Cardinality(AxiomsIn(results')) <= Cardinality(AxiomsIn(merged) \cup axioms)
      BY <1>10, <2>1, FS_Subset
    <2>4. Cardinality(AxiomsIn(results')) \in Nat
      BY AxiomsFinite
    <2> QED
      BY <1>1, <1>2, <1>4, <2>1, <2>2, <2>3, <2>4
  <1> QED
    BY <1>6, <1>9, <1>11 DEF BooksWithinQuota

\* Every step keeps the quota.
LEMMA NextWithinQuota ==
    ASSUME InOrder, InFlight, QuotaKept, InOrder', [Next]_vars
    PROVE  QuotaKept'
  <1>0. marked \in Nat /\ marked' \in Nat /\ AxiomQuota \in Nat
    BY ConstantsAssumption DEF ConstantsAssumption, InOrder, TypeOK
  <1>1. ASSUME NEW w \in Workers, ChainStep(w) \/ TimeOut(w)
        PROVE  QuotaKept'
    <2>1. ChainEffect(w) /\ Busy(w)
      BY <1>1, ChainEffects DEF InOrder
    <2>2. wtask[w] \in Tasks /\ UNCHANGED <<results, marked, ckptVars>>
      BY <2>1 DEF ChainEffect, UnchangedByChain, InOrder, OneWorkerPerTask, WorkersInOrder
    <2>3. \A t \in Tasks : status'[t] = "MARKED_AXIOM" => status[t] = "MARKED_AXIOM"
      BY <2>1, <2>2 DEF ChainEffect, InOrder, TypeOK
    <2> QED
      BY <2>2, <2>3 DEF QuotaKept, ckptVars
  <1>2. ASSUME NEW w \in Workers, Take(w)
        PROVE  QuotaKept'
    <2>1. UNCHANGED <<results, marked, ckptVars>>
      BY <1>2 DEF Take, Popped
    <2>2. \A t \in Tasks : status'[t] = "MARKED_AXIOM" => status[t] = "MARKED_AXIOM"
      BY <1>2 DEF Take, Popped, InOrder, TypeOK
    <2> QED
      BY <2>1, <2>2 DEF QuotaKept, ckptVars
  <1>3. ASSUME NEW w \in Workers, Account(w)
        PROVE  QuotaKept'
    <2>1. wtask[w] \in Tasks
      BY <1>3 DEF Account, InOrder, OneWorkerPerTask, WorkersInOrder, Busy
    <2>2. CASE /\ QuotaLeft /\ marked' = marked + 1
               /\ Book(w, "MARKED_AXIOM", Failure("MARKED_AXIOM"))
      <3>1. AxiomsIn(results') \subseteq AxiomsIn(results) \cup {wtask[w]}
        BY <2>1, <2>2 DEF Book, AxiomsIn, InOrder, TypeOK
      <3>2. Cardinality(AxiomsIn(results')) <= Cardinality(AxiomsIn(results)) + 1
        BY <2>1, <3>1, OneMoreAxiom
      <3>3. Cardinality(AxiomsIn(results')) <= marked' /\ marked' <= AxiomQuota
        BY <1>0, <2>2, <3>2, AxiomsFinite DEF QuotaKept, QuotaLeft
      <3>4. \A t \in Tasks : status'[t] = "MARKED_AXIOM" => results'[t].status = "MARKED_AXIOM"
        BY <2>1, <2>2 DEF Book, QuotaKept, InOrder, TypeOK, Failure, Result
      <3> QED
        BY <1>0, <1>3, <3>3, <3>4, SaveWithinQuota DEF BooksWithinQuota, Account
    <2>3. ASSUME NEW st, NEW r, Book(w, st, r), UNCHANGED marked,
                 st # "MARKED_AXIOM", r.status # "MARKED_AXIOM"
          PROVE  QuotaKept'
      <3>1. AxiomsIn(results') \subseteq AxiomsIn(results)
        BY <2>1, <2>3 DEF Book, AxiomsIn, InOrder, TypeOK
      <3>2. Cardinality(AxiomsIn(results')) <= Cardinality(AxiomsIn(results))
        BY <3>1, AxiomsMonotone
      <3>3. Cardinality(AxiomsIn(results')) <= marked' /\ marked' <= AxiomQuota
        BY <1>0, <2>3, <3>2, AxiomsFinite DEF QuotaKept
      <3>4. \A t \in Tasks : status'[t] = "MARKED_AXIOM" => results'[t].status = "MARKED_AXIOM"
        BY <2>1, <2>3 DEF Book, QuotaKept, InOrder, TypeOK
      <3> QED
        BY <1>0, <1>3, <3>3, <3>4, SaveWithinQuota DEF BooksWithinQuota, Account
    <2>4. outcome[w].status # "MARKED_AXIOM" /\ status[wtask[w]] # "MARKED_AXIOM"
      BY <2>1 DEF InFlight
    <2>5. CASE Book(w, "SOLVED", outcome[w]) /\ UNCHANGED <<esc, marked>>
      BY <2>3, <2>4, <2>5
    <2>6. CASE Book(w, status[wtask[w]], outcome[w]) /\ UNCHANGED <<esc, marked>>
      BY <2>3, <2>4, <2>6
    <2>7. CASE BookFailure(w)
      <3>1. CASE /\ marked' = marked
                 /\ \E st \in {"FAILED_ALL", outcome[w].status} : Book(w, st, Failure(st))
        <4>1. PICK st \in {"FAILED_ALL", outcome[w].status} : Book(w, st, Failure(st))
          BY <3>1
        <4>2. st # "MARKED_AXIOM" /\ Failure(st).status # "MARKED_AXIOM"
          BY <2>4 DEF Failure, Result
        <4> QED
          BY <2>3, <3>1, <4>1, <4>2
      <3> QED
        BY <2>1, <2>2, <2>7, <3>1, BookFailureStatus DEF InOrder
    <2> QED
      BY <1>3, <2>5, <2>6, <2>7 DEF Account
  <1>4. ASSUME NEW S \in TaskSets, NEW resume \in ResumeModes, Start(S, resume)
        PROVE  QuotaKept'
    <2>1. UNCHANGED ckptVars
      BY <1>4 DEF Start
    <2> QED
      BY <1>0, <1>4, <2>1, StartWithinQuota, SaveWithinQuota
  <1>5. CASE Crash
    <2>1. AxiomsIn(results') = {} /\ marked' = 0 /\ UNCHANGED ckptVars
      BY <1>5 DEF Crash, AxiomsIn, NoResult, Failure, Result
    <2>2. Cardinality(AxiomsIn(results')) <= marked' /\ marked' <= AxiomQuota
      BY <1>0, <2>1, FS_EmptySet
    <2>3. BooksWithinQuota'
      BY <1>5, <2>2 DEF Crash, BooksWithinQuota
    <2> QED
      BY <1>0, <2>1, <2>3, SaveWithinQuota
  <1>6. CASE Quiet
    <2>1. BooksWithinQuota'
      BY <1>6 DEF Quiet, BooksWithinQuota, QuotaKept, bookVars, taskVars
    <2> QED
      BY <1>0, <1>6, <2>1, SaveWithinQuota DEF Quiet
  <1> QED
    BY <1>1, <1>2, <1>3, <1>4, <1>5, <1>6, StepKinds

\* The quota is one over all runs: however many runs there are, with whatever
\* arguments, crashes and interleavings of the workers, neither the results
\* nor the checkpoint ever hold more axioms than the quota.
THEOREM QuotaIsNeverExceeded == Spec => []AxiomsWithinQuota
  <1>1. Init => InOrder /\ InFlight /\ QuotaKept
    <2>1. ASSUME Init PROVE QuotaKept
      <3>1. AxiomsIn(results) = {} /\ AxiomsIn(ckptRes) = {}
        BY <2>1 DEF Init, AxiomsIn, NoResult, Failure, Result
      <3>2. Cardinality(AxiomsIn(results)) = 0 /\ Cardinality(AxiomsIn(ckptRes)) = 0
        BY <3>1, FS_EmptySet, Zenon
      <3>3. /\ marked = 0
            /\ \A t \in Tasks : status[t] # "MARKED_AXIOM"
            /\ \A t \in Tasks : ckptTask[t].status # "MARKED_AXIOM"
        BY <2>1 DEF Init, Absent, TaskRecord
      <3> QED
        BY <3>2, <3>3, ConstantsAssumption DEF ConstantsAssumption, QuotaKept
    <2> QED
      BY <2>1, InitInOrder, InitInFlight
  <1>2. InOrder /\ InFlight /\ QuotaKept /\ [Next]_vars
           => (InOrder /\ InFlight /\ QuotaKept)'
    BY NextInOrder, NextInFlight, NextWithinQuota
  <1>3. InOrder /\ QuotaKept => AxiomsWithinQuota
    <2> SUFFICES ASSUME InOrder, QuotaKept PROVE AxiomsWithinQuota
      OBVIOUS
    <2>1. marked \in Nat /\ AxiomQuota \in Nat
      BY ConstantsAssumption DEF ConstantsAssumption, InOrder, TypeOK
    <2>2. Cardinality(AxiomsIn(results)) <= AxiomQuota
      BY <2>1, AxiomsFinite DEF QuotaKept
    <2>3. {t \in Tasks : ckptTask[t].status = "MARKED_AXIOM"} \subseteq AxiomsIn(ckptRes)
      BY DEF QuotaKept, AxiomsIn
    <2>4. Cardinality({t \in Tasks : ckptTask[t].status = "MARKED_AXIOM"})
            <= Cardinality(AxiomsIn(ckptRes))
      BY <2>3, AxiomsFinite, FS_Subset
    <2>5. Cardinality({t \in Tasks : ckptTask[t].status = "MARKED_AXIOM"}) \in Nat
      BY <2>3, AxiomsFinite, FS_Subset, FS_CardinalityType
    <2> QED
      BY <2>1, <2>2, <2>4, <2>5, AxiomsFinite DEF QuotaKept, AxiomsWithinQuota
  <1> QED
    BY <1>1, <1>2, <1>3, PTL DEF Spec

----------------------------------------------------------------------------
(* The checkpoint implements the ledger                                    *)

\* In a run that resumes with all the tasks, what the checkpoint calls decided
\* the run knows to be decided, with the same proof; and no decided task is in
\* the queue.  A dead process saves nothing.
LedgerKept ==
    /\ \A t \in queue : status[t] \notin TerminalSkip
    /\ mode # "down" =>
         /\ active = Tasks
         /\ \A t \in Tasks : ckptTask[t].status \in TerminalSkip =>
               status[t] = ckptTask[t].status /\ proof[t] = ckptTask[t].proof
    /\ mode = "down" => ~saving

\* A decided task stays decided, with its proof, and out of the queue.
DecidedStay ==
    /\ \A t \in Tasks : status[t] \in TerminalSkip =>
          status'[t] = status[t] /\ proof'[t] = proof[t]
    /\ \A t \in queue' : status'[t] \notin TerminalSkip

\* A chain, the loop head and the accounting keep the decided tasks.
LEMMA WorkersKeepDecided ==
    ASSUME InOrder, InFlight, LedgerKept, NEW w \in Workers,
           ChainStep(w) \/ TimeOut(w) \/ Take(w) \/ Account(w)
    PROVE  DecidedStay
  <1>1. CASE ChainStep(w) \/ TimeOut(w)
    <2>1. ChainEffect(w) /\ Busy(w) /\ pc[w] # "return"
      BY <1>1, ChainEffects DEF InOrder
    <2>2. wtask[w] \in Tasks \ queue /\ outcome[w] = NoResult /\ UNCHANGED queue
      BY <2>1 DEF ChainEffect, UnchangedByChain, InOrder, OneWorkerPerTask, WorkersInOrder
    <2>3. status[wtask[w]] \notin TerminalSkip
      BY <2>2 DEF InFlight, NoResult, Failure, Result, TerminalSkip
    <2>4. \A t \in Tasks : t # wtask[w] => status'[t] = status[t] /\ proof'[t] = proof[t]
      BY <2>1 DEF ChainEffect, InOrder, TypeOK
    <2> QED
      BY <2>2, <2>3, <2>4 DEF DecidedStay, LedgerKept, InOrder, TypeOK
  <1>2. CASE Take(w)
    <2>1. PICK t \in queue :
             /\ queue' = queue \ {t}
             /\ status' = [status EXCEPT ![t] = "IN_PROGRESS"]
             /\ UNCHANGED proof
      BY <1>2 DEF Take, Popped
    <2> QED
      BY <2>1 DEF DecidedStay, LedgerKept, InOrder, TypeOK, TerminalSkip
  <1>3. CASE Account(w)
    <2>1. wtask[w] \in Tasks \ queue /\ UNCHANGED <<proof, queue>>
      BY <1>3 DEF Account, InOrder, OneWorkerPerTask, WorkersInOrder, Busy
    <2>2. \A t \in Tasks : t # wtask[w] => status'[t] = status[t]
      <3>1. PICK st, r : Book(w, st, r)
        BY <1>3 DEF Account, BookFailure
      <3> QED
        BY <3>1 DEF Book, InOrder, TypeOK
    <2>3. ASSUME status[wtask[w]] \in TerminalSkip
          PROVE  status'[wtask[w]] = status[wtask[w]]
      <3>1. status[wtask[w]] = "SOLVED" /\ outcome[w].status = "SOLVED"
        BY <2>1, <2>3 DEF InFlight, TerminalSkip
      <3> QED
        BY <1>3, <2>1, <3>1 DEF Account, Book, InOrder, TypeOK
    <2> QED
      BY <2>1, <2>2, <2>3 DEF DecidedStay, LedgerKept, InOrder, TypeOK
  <1> QED
    BY <1>1, <1>2, <1>3

\* What has been saved as decided is what is saved next.
FileStays ==
    \A t \in Tasks : ckptTask[t].status \in TerminalSkip =>
        ckptTask'[t].status = ckptTask[t].status /\ ckptTask'[t].proof = ckptTask[t].proof

\* Saving what a run that keeps its decided tasks knows, or not saving at all,
\* keeps the ledger.
LEMMA SaveKeepsLedger ==
    ASSUME LedgerKept, DecidedStay, mode # "down", mode' # "down", active' = active,
           UNCHANGED ckptVars \/ SaveCheckpoint
    PROVE  LedgerKept' /\ FileStays
  <1>1. \A t \in Tasks : ckptTask[t].status \in TerminalSkip =>
           status'[t] = ckptTask[t].status /\ proof'[t] = ckptTask[t].proof
    BY DEF LedgerKept, DecidedStay
  <1>2. CASE UNCHANGED ckptVars
    BY <1>1, <1>2 DEF LedgerKept, DecidedStay, FileStays, ckptVars
  <1>3. CASE SaveCheckpoint
    <2>1. \A t \in Tasks : ckptTask'[t] = TaskRecord(status'[t], esc'[t], proof'[t])
      BY <1>3 DEF SaveCheckpoint, LedgerKept
    <2>2. \A t \in Tasks : ckptTask'[t].status = status'[t] /\ ckptTask'[t].proof = proof'[t]
      <3>1. \A s, e, q : TaskRecord(s, e, q).status = s /\ TaskRecord(s, e, q).proof = q
        BY DEF TaskRecord
      <3> QED
        BY <2>1, <3>1
    <2>3. FileStays
      BY <1>1, <2>2 DEF FileStays
    <2>4. active' = Tasks /\ \A t \in queue' : status'[t] \notin TerminalSkip
      BY DEF LedgerKept, DecidedStay
    <2>5. LedgerKept'
      BY <2>2, <2>4 DEF LedgerKept
    <2> QED
      BY <2>3, <2>5
  <1> QED
    BY <1>2, <1>3

\* Every step keeps the ledger, when every run resumes with all the tasks.
LEMMA NextKeepsLedger ==
    ASSUME TaskSets = {Tasks}, ResumeModes = {TRUE},
           InOrder, InFlight, LedgerKept, [Next]_vars
    PROVE  LedgerKept' /\ FileStays
  <1>1. ASSUME NEW w \in Workers, ChainStep(w) \/ TimeOut(w) \/ Take(w) \/ Account(w)
        PROVE  LedgerKept' /\ FileStays
    <2>1. UNCHANGED <<mode, active>> /\ (UNCHANGED ckptVars \/ SaveCheckpoint)
      <3>1. CASE ChainStep(w) \/ TimeOut(w)
        BY <3>1, ChainEffects DEF InOrder, ChainEffect, UnchangedByChain, runVars
      <3>2. CASE Take(w)
        BY <3>2 DEF Take, Popped
      <3>3. CASE Account(w)
        BY <3>3 DEF Account, runVars
      <3> QED
        BY <1>1, <3>1, <3>2, <3>3
    <2>2. mode = "working"
      <3>1. CASE ChainStep(w) \/ TimeOut(w)
        BY <3>1, ChainEffects DEF Busy, InOrder, OneWorkerPerTask, WorkersInOrder
      <3>2. CASE Take(w)
        BY <3>2 DEF Take, Popped, AtLoopHead
      <3>3. CASE Account(w)
        BY <3>3 DEF Account, InOrder, OneWorkerPerTask, WorkersInOrder
      <3> QED
        BY <1>1, <3>1, <3>2, <3>3
    <2> QED
      BY <1>1, <2>1, <2>2, WorkersKeepDecided, SaveKeepsLedger
  <1>2. ASSUME NEW S \in TaskSets, NEW resume \in ResumeModes, Start(S, resume)
        PROVE  LedgerKept' /\ FileStays
    <2> DEFINE loaded == [t \in Tasks |-> IF t \in S THEN Resumed(t, resume) ELSE Fresh]
               pending == {t \in S : loaded[t].status \notin TerminalSkip}
               due == {t \in pending : loaded[t].esc >= EscalationThreshold}
    <2>1. S = Tasks /\ resume = TRUE
      OBVIOUS
    <2>2. PICK axioms \in SUBSET due :
             status' = [t \in Tasks |->
                   CASE t \in axioms       -> "MARKED_AXIOM"
                     [] t \in due \ axioms -> "FAILED_ALL"
                     [] OTHER              -> loaded[t].status]
      BY <1>2 DEF Start
    <2>3. /\ proof' = [t \in Tasks |-> loaded[t].proof]
          /\ queue' = pending \ due
          /\ active' = S /\ mode' = "planning" /\ UNCHANGED ckptVars
      BY <1>2 DEF Start
    <2>4. ASSUME NEW t \in Tasks, ckptTask[t].status \in TerminalSkip
          PROVE  loaded[t] = ckptTask[t] /\ t \notin pending
      BY <2>1, <2>4 DEF Resumed, TerminalSkip
    <2>5. \A t \in pending : loaded[t].status \notin TerminalSkip /\ t \in Tasks
      BY <2>1
    <2>6. due \subseteq pending
      OBVIOUS
    <2> HIDE DEF loaded, pending, due
    <2>7. \A t \in Tasks : ckptTask[t].status \in TerminalSkip =>
             status'[t] = ckptTask[t].status /\ proof'[t] = ckptTask[t].proof
      BY <2>2, <2>3, <2>4, <2>6
    <2>8. \A t \in queue' : status'[t] \notin TerminalSkip
      BY <2>2, <2>3, <2>5
    <2> QED
      BY <2>1, <2>3, <2>7, <2>8 DEF LedgerKept, FileStays, ckptVars
  <1>3. CASE Crash
    BY <1>3 DEF Crash, LedgerKept, FileStays, ckptVars
  <1>4. CASE Quiet
    <2>1. DecidedStay
      BY <1>4 DEF Quiet, DecidedStay, LedgerKept, bookVars, taskVars
    <2>2. CASE mode # "down"
      BY <1>4, <2>1, <2>2, SaveKeepsLedger DEF Quiet
    <2>3. CASE mode = "down"
      BY <1>4, <2>1, <2>3 DEF Quiet, LedgerKept, DecidedStay, FileStays, ckptVars
    <2> QED
      BY <2>2, <2>3
  <1> QED
    BY <1>1, <1>2, <1>3, <1>4, StepKinds

\* The checkpoint file is a ledger.  When every run resumes with the whole task
\* list, what it shows over all runs, crashes at any point and interleavings is
\* a behaviour of Ledger: a saved verdict is never changed or taken back.
THEOREM CheckpointImplementsLedger ==
    ASSUME TaskSets = {Tasks}, ResumeModes = {TRUE}
    PROVE  Spec => CheckpointIsLedger
  <1>1. Init => LedgerKept
    BY DEF Init, LedgerKept, Absent, TaskRecord, TerminalSkip
  <1>2. Init => CheckpointLedger!LedgerInit
    BY DEF Init, CheckpointLedger!LedgerInit, Absent, TaskRecord, TerminalSkip
  <1>3. InOrder /\ InFlight /\ LedgerKept /\ [Next]_vars => LedgerKept' /\ FileStays
    BY NextKeepsLedger
  <1>4. ASSUME FileStays, InOrder, InOrder', VerifiedSolutions', AxiomsWithinQuota'
        PROVE  CheckpointLedger!Enter
    <2> DEFINE verdict == [t \in Tasks |-> CASE ckptTask[t].status = "SOLVED" -> "solved"
                                   [] ckptTask[t].status = "MARKED_AXIOM" -> "axiom"
                                   [] OTHER -> "open"]
               proofOf == [t \in Tasks |-> IF ckptTask[t].status \in TerminalSkip
                                           THEN ckptTask[t].proof ELSE NoProof]
    <2>1. \A t \in Tasks : ckptTask'[t].proof \in Proofs \cup {NoProof}
      <3>1. \A r \in TaskRecords : r.proof \in Proofs \cup {NoProof}
        BY DEF TaskRecords
      <3> QED
        BY <1>4, <3>1 DEF InOrder, TypeOK
    <2>2. verdict' \in [Tasks -> {"open", "solved", "axiom"}]
      OBVIOUS
    <2>3. proofOf' \in [Tasks -> Proofs \cup {NoProof}]
      BY <2>1
    <2>4. ASSUME NEW t \in Tasks, verdict[t] # "open"
          PROVE  verdict'[t] = verdict[t] /\ proofOf'[t] = proofOf[t]
      BY <1>4, <2>4 DEF FileStays, TerminalSkip
    <2>5. ASSUME NEW t \in Tasks, verdict'[t] = "solved"
          PROVE  proofOf'[t] \in Accepts[t]
      BY <1>4, <2>5 DEF VerifiedSolutions, TerminalSkip
    <2>6. {t \in Tasks : verdict'[t] = "axiom"} = {t \in Tasks : ckptTask'[t].status = "MARKED_AXIOM"}
      OBVIOUS
    <2>7. Cardinality({t \in Tasks : verdict'[t] = "axiom"}) <= AxiomQuota
      BY <1>4, <2>6, Zenon DEF AxiomsWithinQuota
    <2> HIDE DEF verdict, proofOf
    <2>8. /\ verdict' \in [Tasks -> {"open", "solved", "axiom"}]
          /\ proofOf' \in [Tasks -> Proofs \cup {NoProof}]
          /\ \A t \in Tasks :
               /\ verdict[t] # "open" => /\ verdict'[t] = verdict[t]
                                         /\ proofOf'[t] = proofOf[t]
               /\ verdict'[t] = "solved" => proofOf'[t] \in Accepts[t]
          /\ Cardinality({t \in Tasks : verdict'[t] = "axiom"}) <= AxiomQuota
      BY <2>2, <2>3, <2>4, <2>5, <2>7
    <2>9. \A A : Cardinality(A) = CheckpointLedger!Cardinality(A)
      BY Zenon DEF Cardinality, CheckpointLedger!Cardinality
    <2> QED
      BY <2>8, <2>9 DEF CheckpointLedger!Enter, verdict, proofOf
  <1>5. InOrder /\ InFlight /\ LedgerKept /\ InOrder' /\ VerifiedSolutions'
          /\ AxiomsWithinQuota' /\ [Next]_vars
            => LedgerKept' /\ CheckpointLedger!Enter
    BY <1>3, <1>4
  <1>6. Spec => [](InOrder /\ InFlight)
    BY InitInOrder, InitInFlight, NextInOrder, NextInFlight, PTL DEF Spec
  <1> QED
    BY <1>1, <1>2, <1>5, <1>6, SolutionsAreVerified, QuotaIsNeverExceeded, PTL
    DEF Spec, CheckpointIsLedger, CheckpointLedger!LedgerSpec

----------------------------------------------------------------------------
(* Axioms are earned                                                       *)

\* What a worker's accounting leaves alone, and how it books its task.
LEMMA AccountEffect ==
    ASSUME InOrder, InFlight, NEW w \in Workers, Account(w)
    PROVE  /\ wtask[w] \in Tasks \ queue /\ pc[w] = "return" /\ mode = "working" /\ MayRun(w)
           /\ UNCHANGED <<mode, runVars, queue, sentinels, stopVars, proof>>
           /\ pc' = [pc EXCEPT ![w] = "idle"] /\ turn' = w
           /\ wtask' = [wtask EXCEPT ![w] = NoTask]
           /\ outcome' = [outcome EXCEPT ![w] = NoResult]
           /\ IF CheckpointDue THEN SaveCheckpoint ELSE UNCHANGED ckptVars
           /\ \/ /\ outcome[w].status = "SOLVED" /\ UNCHANGED esc
                 /\ Book(w, "SOLVED", outcome[w])
              \/ /\ outcome[w].status = "OPEN" /\ UNCHANGED esc
                 /\ Book(w, status[wtask[w]], outcome[w])
              \/ /\ outcome[w].status \notin {"SOLVED", "OPEN"}
                 /\ esc' = [esc EXCEPT ![wtask[w]] = esc[wtask[w]] + 1]
                 /\ \/ /\ esc[wtask[w]] + 1 >= EscalationThreshold
                       /\ Book(w, "MARKED_AXIOM", Failure("MARKED_AXIOM"))
                    \/ \E st \in {"FAILED_ALL", outcome[w].status} : Book(w, st, Failure(st))
  <1>1. /\ wtask[w] \in Tasks \ queue /\ pc[w] = "return" /\ mode = "working" /\ MayRun(w)
    BY DEF Account, InOrder, OneWorkerPerTask, WorkersInOrder, Busy
  <1>2. /\ UNCHANGED <<mode, runVars, queue, sentinels, stopVars, proof>>
        /\ pc' = [pc EXCEPT ![w] = "idle"] /\ turn' = w
        /\ wtask' = [wtask EXCEPT ![w] = NoTask]
        /\ outcome' = [outcome EXCEPT ![w] = NoResult]
        /\ IF CheckpointDue THEN SaveCheckpoint ELSE UNCHANGED ckptVars
    BY DEF Account
  <1>3. CASE outcome[w].status = "SOLVED" /\ Book(w, "SOLVED", outcome[w]) /\ UNCHANGED esc
    BY <1>1, <1>2, <1>3
  <1>4. CASE /\ outcome[w].status = "OPEN" /\ UNCHANGED esc
             /\ Book(w, status[wtask[w]], outcome[w])
    BY <1>1, <1>2, <1>4
  <1>5. CASE outcome[w].status \notin {"SOLVED", "OPEN"} /\ BookFailure(w)
    <2> DEFINE e == esc[wtask[w]] + 1
               axiom == e >= EscalationThreshold /\ QuotaLeft
    <2>0. e \in Nat /\ EscalationThreshold \in Nat
      BY <1>1, ConstantsAssumption DEF ConstantsAssumption, InOrder, TypeOK
    <2>1. esc' = [esc EXCEPT ![wtask[w]] = e]
      BY <1>5 DEF BookFailure
    <2>2. \/ /\ e >= EscalationThreshold
             /\ Book(w, "MARKED_AXIOM", Failure("MARKED_AXIOM"))
          \/ \E st \in {"FAILED_ALL", outcome[w].status} : Book(w, st, Failure(st))
      <3>1. CASE axiom
        BY <1>5, <3>1 DEF BookFailure
      <3>2. CASE e >= EscalationThreshold /\ ~axiom
        BY <1>5, <3>2 DEF BookFailure
      <3>3. CASE e < EscalationThreshold
        BY <1>5, <2>0, <3>3 DEF BookFailure
      <3> QED
        BY <2>0, <3>1, <3>2, <3>3
    <2> QED
      BY <1>1, <1>2, <1>5, <2>1, <2>2
  <1> QED
    BY <1>3, <1>4, <1>5 DEF Account

\* The part of AxiomsAreEarned that speaks of the run.
Escalations ==
    \A t \in Tasks :
        /\ esc[t] <= runs
        /\ status[t] = "MARKED_AXIOM" => esc[t] >= EscalationThreshold

\* A task that this run has not booked was escalated by earlier runs only.
EarnedKept ==
    /\ AxiomsAreEarned
    /\ \A t \in queue : esc[t] < runs
    /\ \A w \in Workers : wtask[w] \in Tasks => esc[wtask[w]] < runs

LEMMA SaveKeepsEarned ==
    ASSUME TypeOK, TypeOK', AxiomsAreEarned, Escalations', runs <= runs',
           UNCHANGED ckptVars \/ SaveCheckpoint
    PROVE  AxiomsAreEarned'
  <1>1. CASE UNCHANGED ckptVars
    <2>1. \A t \in Tasks : ckptTask[t].esc \in Nat
      BY DEF TypeOK, TaskRecords
    <2>2. runs \in Nat /\ runs' \in Nat
      BY DEF TypeOK
    <2>3. \A t \in Tasks : ckptTask[t].esc <= runs /\ ckptTask'[t] = ckptTask[t]
      BY <1>1 DEF ckptVars, AxiomsAreEarned
    <2>4. \A t \in Tasks : ckptTask'[t].esc <= runs'
      BY <2>1, <2>2, <2>3
    <2> QED
      BY <2>3, <2>4 DEF AxiomsAreEarned, Escalations
  <1>2. CASE SaveCheckpoint
    <2>1. \A t \in Tasks : ckptTask'[t] = IF t \in active
                                        THEN TaskRecord(status'[t], esc'[t], proof'[t])
                                        ELSE Absent
      BY <1>2 DEF SaveCheckpoint
    <2>2. runs' \in Nat
      BY DEF TypeOK
    <2>3. ASSUME NEW t \in Tasks
          PROVE  /\ ckptTask'[t].esc <= runs'
                 /\ ckptTask'[t].status = "MARKED_AXIOM" => ckptTask'[t].esc >= EscalationThreshold
      <3>1. CASE t \in active
        <4>1. ckptTask'[t] = TaskRecord(status'[t], esc'[t], proof'[t])
          BY <2>1, <3>1
        <4>2. ckptTask'[t].esc = esc'[t] /\ ckptTask'[t].status = status'[t]
          BY <4>1 DEF TaskRecord
        <4> QED
          BY <4>2 DEF Escalations
      <3>2. CASE t \notin active
        <4>1. ckptTask'[t] = TaskRecord("ABSENT", 0, NoProof)
          BY <2>1, <3>2 DEF Absent
        <4>2. ckptTask'[t].esc = 0 /\ ckptTask'[t].status = "ABSENT"
          BY <4>1 DEF TaskRecord
        <4> QED
          BY <2>2, <4>2
      <3> QED
        BY <3>1, <3>2
    <2> QED
      BY <2>3 DEF AxiomsAreEarned, Escalations
  <1> QED
    BY <1>1, <1>2

LEMMA StartKeepsEarned ==
    ASSUME InOrder, EarnedKept, InOrder', NEW S \in TaskSets, NEW resume \in ResumeModes,
           Start(S, resume)
    PROVE  EarnedKept'
  <1> DEFINE loaded == [t \in Tasks |-> IF t \in S THEN Resumed(t, resume) ELSE Fresh]
             pending == {t \in S : loaded[t].status \notin TerminalSkip}
             due == {t \in pending : loaded[t].esc >= EscalationThreshold}
  <1>1. PICK axioms \in SUBSET due :
           status' = [t \in Tasks |->
                 CASE t \in axioms       -> "MARKED_AXIOM"
                   [] t \in due \ axioms -> "FAILED_ALL"
                   [] OTHER              -> loaded[t].status]
    BY DEF Start
  <1>2. /\ esc' = [t \in Tasks |-> loaded[t].esc]
        /\ runs' = runs + 1 /\ UNCHANGED <<wtask, ckptVars>>
    BY DEF Start, workVars
  <1>3. runs \in Nat /\ queue' \subseteq Tasks /\ EscalationThreshold \in Nat
    BY ConstantsAssumption DEF ConstantsAssumption, InOrder, TypeOK
  <1>4. ASSUME NEW t \in Tasks
        PROVE  /\ loaded[t].esc \in Nat /\ loaded[t].esc <= runs
               /\ loaded[t].status = "MARKED_AXIOM" => loaded[t].esc >= EscalationThreshold
    <2>1. /\ ckptTask[t].esc \in Nat /\ ckptTask[t].esc <= runs
          /\ ckptTask[t].status = "MARKED_AXIOM" => ckptTask[t].esc >= EscalationThreshold
      BY DEF EarnedKept, AxiomsAreEarned, InOrder, TypeOK, TaskRecords
    <2> QED
      BY <1>3, <2>1 DEF Resumed, Fresh, TaskRecord
  <1>5. \A t \in due : loaded[t].esc >= EscalationThreshold
    OBVIOUS
  <1> HIDE DEF loaded, pending, due
  <1>6. \A t \in Tasks : esc'[t] < runs' /\ esc'[t] <= runs'
    BY <1>2, <1>3, <1>4
  <1>7. ASSUME NEW t \in Tasks, status'[t] = "MARKED_AXIOM" PROVE esc'[t] >= EscalationThreshold
    <2>1. CASE t \in axioms
      BY <1>1, <1>2, <1>5, <2>1
    <2>2. CASE t \notin axioms
      BY <1>1, <1>2, <1>4, <1>7, <2>2
    <2> QED
      BY <2>1, <2>2
  <1>8. Escalations'
    BY <1>6, <1>7 DEF Escalations
  <1>9. runs <= runs'
    BY <1>2, <1>3
  <1>10. AxiomsAreEarned'
    BY <1>2, <1>8, <1>9, SaveKeepsEarned DEF EarnedKept, InOrder
  <1> QED
    BY <1>3, <1>6, <1>10 DEF EarnedKept

LEMMA NextKeepsEarned ==
    ASSUME InOrder, InFlight, EarnedKept, InOrder', [Next]_vars
    PROVE  EarnedKept'
  <1>0. /\ runs \in Nat /\ runs' \in Nat /\ EscalationThreshold \in Nat
        /\ esc \in [Tasks -> Nat] /\ status \in [Tasks -> TaskStatuses]
        /\ queue \subseteq Tasks /\ NoTask \notin Tasks /\ TypeOK /\ TypeOK'
        /\ wtask \in [Workers -> Tasks \cup {NoTask}]
    BY ConstantsAssumption DEF ConstantsAssumption, InOrder, TypeOK
  <1>e. Escalations
    BY DEF EarnedKept, AxiomsAreEarned, Escalations
  <1>s. ASSUME Escalations', runs' = runs, UNCHANGED ckptVars \/ SaveCheckpoint
        PROVE  AxiomsAreEarned'
    BY <1>0, <1>s, SaveKeepsEarned DEF EarnedKept
  <1>1. ASSUME NEW w \in Workers, ChainStep(w) \/ TimeOut(w)
        PROVE  EarnedKept'
    <2>1. ChainEffect(w) /\ Busy(w)
      BY <1>1, ChainEffects DEF InOrder
    <2>2. wtask[w] \in Tasks /\ UNCHANGED <<runs, esc, queue, wtask, ckptVars>>
      BY <2>1 DEF ChainEffect, UnchangedByChain, runVars, InOrder, OneWorkerPerTask,
                  WorkersInOrder
    <2>3. \A t \in Tasks : status'[t] = "MARKED_AXIOM" => status[t] = "MARKED_AXIOM"
      BY <2>1, <2>2 DEF ChainEffect, InOrder, TypeOK
    <2>4. Escalations'
      BY <1>e, <2>2, <2>3 DEF Escalations
    <2> QED
      BY <1>s, <2>2, <2>4 DEF EarnedKept
  <1>2. ASSUME NEW w \in Workers, Take(w)
        PROVE  EarnedKept'
    <2>1. PICK t \in queue :
             /\ queue' = queue \ {t}
             /\ status' = [status EXCEPT ![t] = "IN_PROGRESS"]
             /\ wtask' = [wtask EXCEPT ![w] = t]
      BY <1>2 DEF Take, Popped
    <2>2. UNCHANGED <<runs, esc, ckptVars>>
      BY <1>2 DEF Take
    <2>3. Escalations'
      BY <1>0, <1>e, <2>1, <2>2 DEF Escalations
    <2>4. \A v \in Workers : wtask'[v] \in Tasks => esc'[wtask'[v]] < runs'
      BY <1>0, <2>1, <2>2 DEF EarnedKept
    <2> QED
      BY <1>s, <2>1, <2>2, <2>3, <2>4 DEF EarnedKept
  <1>3. ASSUME NEW w \in Workers, Account(w)
        PROVE  EarnedKept'
    <2>1. /\ wtask[w] \in Tasks \ queue
          /\ UNCHANGED <<runs, queue>>
          /\ wtask' = [wtask EXCEPT ![w] = NoTask]
          /\ UNCHANGED ckptVars \/ SaveCheckpoint
      BY <1>3, AccountEffect DEF runVars
    <2>2. ASSUME NEW t \in Tasks, t # wtask[w] PROVE status'[t] = status[t] /\ esc'[t] = esc[t]
      <3>1. \E st, r : Book(w, st, r)
        BY <1>3, AccountEffect
      <3>2. esc' = esc \/ esc' = [esc EXCEPT ![wtask[w]] = esc[wtask[w]] + 1]
        BY <1>3, AccountEffect
      <3> QED
        BY <1>0, <2>2, <3>1, <3>2 DEF Book
    <2>3. /\ esc'[wtask[w]] <= runs'
          /\ status'[wtask[w]] = "MARKED_AXIOM" => esc'[wtask[w]] >= EscalationThreshold
      <3>1. /\ esc[wtask[w]] < runs
            /\ status[wtask[w]] # "MARKED_AXIOM"
            /\ outcome[w].status # "MARKED_AXIOM"
        BY <2>1 DEF EarnedKept, InFlight
      <3>2. CASE UNCHANGED esc /\ \E r : \E st \in {"SOLVED", status[wtask[w]]} : Book(w, st, r)
        BY <1>0, <2>1, <3>1, <3>2 DEF Book
      <3>3. CASE /\ esc' = [esc EXCEPT ![wtask[w]] = esc[wtask[w]] + 1]
                 /\ esc[wtask[w]] + 1 >= EscalationThreshold
        BY <1>0, <2>1, <3>1, <3>3
      <3>4. CASE /\ esc' = [esc EXCEPT ![wtask[w]] = esc[wtask[w]] + 1]
                 /\ \E r : \E st \in {"FAILED_ALL", outcome[w].status} : Book(w, st, r)
        BY <1>0, <2>1, <3>1, <3>4 DEF Book
      <3> QED
        BY <1>3, <3>2, <3>3, <3>4, AccountEffect
    <2>4. Escalations'
      BY <1>e, <2>1, <2>2, <2>3 DEF Escalations
    <2>5. ASSUME NEW v \in Workers, wtask'[v] \in Tasks
          PROVE  esc'[wtask'[v]] < runs'
      <3>1. v # w /\ wtask'[v] = wtask[v] /\ wtask[v] # wtask[w]
        BY <1>0, <2>1, <2>5 DEF InOrder, OneWorkerPerTask
      <3> QED
        BY <2>1, <2>2, <2>5, <3>1 DEF EarnedKept
    <2>6. \A t \in queue' : esc'[t] < runs'
      BY <1>0, <2>1, <2>2 DEF EarnedKept
    <2> QED
      BY <1>s, <2>1, <2>4, <2>5, <2>6 DEF EarnedKept
  <1>4. ASSUME NEW S \in TaskSets, NEW resume \in ResumeModes, Start(S, resume)
        PROVE  EarnedKept'
    BY <1>4, StartKeepsEarned
  <1>5. CASE Crash
    <2>1. /\ esc' = [t \in Tasks |-> 0] /\ status' = [t \in Tasks |-> "OPEN"]
          /\ queue' = {} /\ wtask' = [w \in Workers |-> NoTask]
          /\ UNCHANGED <<runs, ckptVars>>
      BY <1>5 DEF Crash
    <2>2. Escalations'
      BY <1>0, <2>1 DEF Escalations
    <2> QED
      BY <1>0, <1>s, <2>1, <2>2 DEF EarnedKept
  <1>6. CASE Quiet
    <2>1. UNCHANGED <<esc, status, runs, wtask>> /\ queue' \subseteq queue
      BY <1>6 DEF Quiet, bookVars, taskVars
    <2>2. Escalations'
      BY <1>e, <2>1 DEF Escalations
    <2> QED
      BY <1>6, <1>s, <2>1, <2>2 DEF EarnedKept, Quiet
  <1> QED
    BY <1>1, <1>2, <1>3, <1>4, <1>5, <1>6, StepKinds

\* An axiom is earned: however many runs there are, whatever ends their chains and wherever
\* they crash, a task is escalated once per run at most, and none is marked as an axiom before
\* EscalationThreshold runs have failed at it.
THEOREM AxiomsTakeFailures == Spec => []AxiomsAreEarned
  <1>1. Init => InOrder /\ InFlight /\ EarnedKept
    <2>1. ASSUME Init PROVE EarnedKept
      <3>1. AxiomsAreEarned
        BY <2>1 DEF Init, AxiomsAreEarned, Absent, TaskRecord
      <3> QED
        BY <2>1, <3>1, ConstantsAssumption DEF ConstantsAssumption, Init, EarnedKept
    <2> QED
      BY <2>1, InitInOrder, InitInFlight
  <1>2. InOrder /\ InFlight /\ EarnedKept /\ [Next]_vars => (InOrder /\ InFlight /\ EarnedKept)'
    BY NextInOrder, NextInFlight, NextKeepsEarned
  <1>3. EarnedKept => AxiomsAreEarned
    BY DEF EarnedKept
  <1> QED
    BY <1>1, <1>2, <1>3, PTL DEF Spec

----------------------------------------------------------------------------
(* The two halves of the books                                             *)

\* A chain that is not a task of its own returns to its worker in one turn of the loop, so
\* that nothing is saved between its end and the accounting.
InTurn == \A w \in Workers : pc[w] = "return" => turn = w

LEMMA NextKeepsTurn ==
    ASSUME ChainInOwnTask = FALSE, InOrder, InFlight, InTurn, [Next]_vars
    PROVE  InTurn'
  <1>0. /\ pc \in [Workers -> {"new", "idle", "enter", "lemma", "phase", "recheck", "return",
                               "stopped"}]
        /\ NoWorker \notin Workers
    BY ConstantsAssumption DEF ConstantsAssumption, InOrder, TypeOK
  \* While a chain has returned, no other worker has its turn.
  <1>a. ASSUME NEW w \in Workers, NEW v \in Workers, pc[v] = "return",
               MayRun(w) \/ AtLoopHead(w)
        PROVE  v = w
    BY <1>0, <1>a DEF InTurn, MayRun, LoopIsFree, AtLoopHead
  <1>1. ASSUME NEW w \in Workers, ChainStep(w) \/ TimeOut(w)
        PROVE  InTurn'
    <2>1. ChainEffect(w) /\ MayRun(w) /\ pc[w] # "return"
      BY <1>1, ChainEffects DEF InOrder
    <2>2. SameTurn(w) = w
      BY DEF SameTurn
    <2>3. \A v \in Workers \ {w} : pc'[v] = pc[v] /\ pc[v] # "return"
      BY <1>a, <2>1 DEF ChainEffect
    <2> QED
      BY <2>1, <2>2, <2>3 DEF InTurn, ChainEffect
  <1>2. ASSUME NEW w \in Workers, NEW s \in {"enter", "idle", "stopped"},
               MayRun(w) \/ AtLoopHead(w), pc' = [pc EXCEPT ![w] = s]
        PROVE  InTurn'
    BY <1>0, <1>a, <1>2 DEF InTurn
  <1>3. ASSUME NEW w \in Workers, LoopHead(w) \/ TakeTooLate(w) \/ Account(w)
        PROVE  InTurn'
    <2>1. CASE Take(w)
      BY <1>2, <2>1 DEF Take
    <2>2. CASE TakeSentinel(w) \/ StopEarly(w) \/ TakeTooLate(w)
      BY <1>2, <2>2 DEF TakeSentinel, StopEarly, TakeTooLate, Stop
    <2>3. CASE Account(w)
      BY <1>2, <2>3 DEF Account
    <2> QED
      BY <1>3, <2>1, <2>2, <2>3 DEF LoopHead
  <1>4. CASE UNCHANGED <<turn, pc>>
    BY <1>4 DEF InTurn
  <1>5. CASE LaunchWorkers \/ Crash
    BY <1>5 DEF LaunchWorkers, Crash, InTurn
  <1>6. ASSUME NEW w \in Workers, LearnLemma(w)
        PROVE  InTurn'
    BY <1>4, <1>6 DEF LearnLemma
  <1>7. ASSUME NEW S \in TaskSets, NEW resume \in ResumeModes, Start(S, resume)
        PROVE  InTurn'
    BY <1>4, <1>7 DEF Start, workVars
  <1>8. CASE Signal \/ WallClockExpires \/ EmergencySave \/ Drain \/ Finish \/ UNCHANGED vars
    BY <1>4, <1>8 DEF Signal, WallClockExpires, EmergencySave, Drain, Finish, vars, workVars
  <1> QED
    BY <1>1, <1>3, <1>5, <1>6, <1>7, <1>8 DEF Next, WorkerStep, Interruption, RunStep

\* A task in the books of the run that is decided, and with no worker, has its result; one
\* that is undecided has no proof.
RunBooks ==
    \A t \in Tasks :
        /\ status[t] \notin TerminalSkip => proof[t] = NoProof
        /\ status[t] \in TerminalSkip /\ (\A w \in Workers : wtask[w] # t)
              => results[t] = Result(status[t], proof[t])

BooksKept ==
    /\ BooksAgree /\ RunBooks /\ InTurn
    /\ \A t \in queue : status[t] \notin TerminalSkip

LEMMA SaveKeepsBooks ==
    ASSUME BooksAgree, RunBooks',
           UNCHANGED ckptVars \/ SaveCheckpoint,
           SaveCheckpoint => \A w \in Workers : wtask'[w] \in Tasks
                                => status'[wtask'[w]] \notin TerminalSkip
    PROVE  BooksAgree'
  <1>1. CASE UNCHANGED ckptVars
    BY <1>1 DEF BooksAgree, ckptVars
  <1>2. CASE SaveCheckpoint
    <2> SUFFICES ASSUME NEW t \in Tasks, ckptTask'[t].status \in TerminalSkip
                 PROVE  ckptRes'[t] = Result(ckptTask'[t].status, ckptTask'[t].proof)
      BY DEF BooksAgree
    <2>1. /\ ckptTask'[t].status = status'[t] /\ ckptTask'[t].proof = proof'[t]
          /\ ckptRes' = results'
      BY <1>2 DEF SaveCheckpoint, TaskRecord, Absent, TerminalSkip
    <2>2. \A w \in Workers : wtask'[w] # t
      BY <1>2, <2>1
    <2> QED
      BY <2>1, <2>2 DEF RunBooks
  <1> QED
    BY <1>1, <1>2

LEMMA StartKeepsBooks ==
    ASSUME InOrder, BooksAgree, NEW S \in TaskSets, NEW resume \in ResumeModes, Start(S, resume)
    PROVE  BooksAgree' /\ RunBooks' /\ \A t \in queue' : status'[t] \notin TerminalSkip
  <1> DEFINE merged == IF resume THEN ckptRes ELSE [t \in Tasks |-> NoResult]
             loaded == [t \in Tasks |-> IF t \in S THEN Resumed(t, resume) ELSE Fresh]
             pending == {t \in S : loaded[t].status \notin TerminalSkip}
             due == {t \in pending : loaded[t].esc >= EscalationThreshold}
  <1>0. S \subseteq Tasks
    BY ConstantsAssumption DEF ConstantsAssumption
  <1>1. PICK axioms \in SUBSET due :
          /\ status' = [t \in Tasks |->
                CASE t \in axioms       -> "MARKED_AXIOM"
                  [] t \in due \ axioms -> "FAILED_ALL"
                  [] OTHER              -> loaded[t].status]
          /\ results' = [t \in Tasks |->
                CASE t \in axioms       -> Failure("MARKED_AXIOM")
                  [] t \in due \ axioms -> Failure("FAILED_ALL")
                  [] OTHER              -> merged[t]]
    BY DEF Start
  <1>2. /\ proof' = [t \in Tasks |-> loaded[t].proof]
        /\ queue' = pending \ due /\ UNCHANGED ckptVars
    BY DEF Start
  <1>3. ASSUME NEW t \in Tasks
        PROVE  /\ loaded[t].status \notin TerminalSkip => loaded[t].proof = NoProof
               /\ loaded[t].status \in TerminalSkip
                     => merged[t] = Result(loaded[t].status, loaded[t].proof)
    <2>1. CASE t \in S /\ resume /\ ckptTask[t].status \in TerminalSkip
      <3>1. loaded[t] = ckptTask[t] /\ merged[t] = ckptRes[t]
        BY <2>1 DEF Resumed, TerminalSkip
      <3> QED
        BY <2>1, <3>1 DEF BooksAgree
    <2>2. CASE ~(t \in S /\ resume /\ ckptTask[t].status \in TerminalSkip)
      BY <2>2 DEF Resumed, Fresh, TaskRecord, TerminalSkip
    <2> QED
      BY <2>1, <2>2
  <1>4. \A t \in due : t \in pending /\ t \in Tasks
    BY <1>0
  <1>5. \A t \in pending : t \in Tasks /\ loaded[t].status \notin TerminalSkip
    BY <1>0
  <1> HIDE DEF merged, loaded, pending, due
  <1>6. RunBooks'
    <2> SUFFICES ASSUME NEW t \in Tasks
                 PROVE  /\ status'[t] \notin TerminalSkip => proof'[t] = NoProof
                        /\ status'[t] \in TerminalSkip => results'[t] = Result(status'[t], proof'[t])
      BY DEF RunBooks
    <2>1. CASE t \in axioms
      BY <1>1, <1>2, <1>3, <1>4, <1>5, <2>1 DEF Failure
    <2>2. CASE t \in due \ axioms
      BY <1>1, <1>2, <1>3, <1>4, <1>5, <2>2 DEF TerminalSkip
    <2>3. CASE t \notin due
      BY <1>1, <1>2, <1>3, <2>3
    <2> QED
      BY <2>1, <2>2, <2>3
  <1>7. \A t \in queue' : status'[t] \notin TerminalSkip
    BY <1>1, <1>2, <1>5
  <1>8. BooksAgree'
    BY <1>2 DEF BooksAgree, ckptVars
  <1> QED
    BY <1>6, <1>7, <1>8

LEMMA NextKeepsBooks ==
    ASSUME ChainInOwnTask = FALSE, InOrder, InFlight, BooksKept, InOrder', InFlight', [Next]_vars
    PROVE  BooksKept'
  <1>0. /\ status \in [Tasks -> TaskStatuses] /\ proof \in [Tasks -> Proofs \cup {NoProof}]
        /\ results \in [Tasks -> Results] /\ queue \subseteq Tasks
        /\ wtask \in [Workers -> Tasks \cup {NoTask}] /\ NoTask \notin Tasks
        /\ NoWorker \notin Workers
    BY ConstantsAssumption DEF ConstantsAssumption, InOrder, TypeOK
  <1>t. InTurn'
    BY NextKeepsTurn DEF BooksKept
  \* A worker that has not returned has an undecided task.
  <1>u. ASSUME NEW w \in Workers, wtask[w] \in Tasks, pc[w] # "return"
        PROVE  status[wtask[w]] \notin TerminalSkip
    BY <1>u DEF InFlight, InOrder, OneWorkerPerTask, WorkersInOrder, NoResult, Failure, Result,
                TerminalSkip
  <1>1. ASSUME NEW w \in Workers, ChainStep(w) \/ TimeOut(w)
        PROVE  BooksKept'
    <2>1. ChainEffect(w) /\ Busy(w) /\ pc[w] # "return"
      BY <1>1, ChainEffects DEF InOrder
    <2>2. /\ wtask[w] \in Tasks \ queue /\ UNCHANGED <<results, queue, wtask, ckptVars>>
          /\ status[wtask[w]] \notin TerminalSkip
      BY <1>u, <2>1 DEF ChainEffect, UnchangedByChain, InOrder, OneWorkerPerTask, WorkersInOrder
    <2>3. \A t \in Tasks : t # wtask[w] => status'[t] = status[t] /\ proof'[t] = proof[t]
      BY <1>0, <2>1 DEF ChainEffect
    <2>4. status'[wtask[w]] \notin TerminalSkip => proof'[wtask[w]] = NoProof
      BY <1>0, <2>1, <2>2 DEF ChainEffect, BooksKept, RunBooks, TerminalSkip
    <2>5. RunBooks'
      BY <2>2, <2>3, <2>4 DEF BooksKept, RunBooks
    <2>6. BooksAgree'
      BY <2>2 DEF BooksKept, BooksAgree, ckptVars
    <2>7. \A t \in queue' : status'[t] \notin TerminalSkip
      BY <1>0, <2>2, <2>3 DEF BooksKept
    <2> QED
      BY <1>t, <2>5, <2>6, <2>7 DEF BooksKept
  <1>2. ASSUME NEW w \in Workers, Take(w)
        PROVE  BooksKept'
    <2>1. PICK t \in queue :
             /\ queue' = queue \ {t}
             /\ status' = [status EXCEPT ![t] = "IN_PROGRESS"]
             /\ wtask' = [wtask EXCEPT ![w] = t]
      BY <1>2 DEF Take, Popped
    <2>2. UNCHANGED <<proof, results, ckptVars>> /\ wtask[w] \notin Tasks
      BY <1>2 DEF Take, AtLoopHead, InOrder, OneWorkerPerTask, WorkersInOrder, Busy
    <2>3. t \in Tasks /\ status[t] \notin TerminalSkip
      BY <1>0 DEF BooksKept
    <2>4. RunBooks'
      <3> SUFFICES ASSUME NEW u \in Tasks
                   PROVE  /\ status'[u] \notin TerminalSkip => proof'[u] = NoProof
                          /\ status'[u] \in TerminalSkip /\ (\A v \in Workers : wtask'[v] # u)
                                => results'[u] = Result(status'[u], proof'[u])
        BY DEF RunBooks
      <3>1. CASE u = t
        BY <1>0, <2>1, <2>2, <2>3, <3>1 DEF BooksKept, RunBooks, TerminalSkip
      <3>2. CASE u # t
        <4>1. status'[u] = status[u]
          BY <1>0, <2>1, <3>2
        <4>2. (\A v \in Workers : wtask'[v] # u) => (\A v \in Workers : wtask[v] # u)
          BY <1>0, <2>1, <2>2, <3>2
        <4> QED
          BY <2>2, <4>1, <4>2 DEF BooksKept, RunBooks
      <3> QED
        BY <3>1, <3>2
    <2>5. BooksAgree'
      BY <2>2 DEF BooksKept, BooksAgree, ckptVars
    <2>6. \A u \in queue' : status'[u] \notin TerminalSkip
      BY <1>0, <2>1 DEF BooksKept
    <2> QED
      BY <1>t, <2>4, <2>5, <2>6 DEF BooksKept
  <1>3. ASSUME NEW w \in Workers, Account(w)
        PROVE  BooksKept'
    <2>1. /\ wtask[w] \in Tasks \ queue /\ pc[w] = "return" /\ MayRun(w)
          /\ UNCHANGED <<queue, proof>>
          /\ wtask' = [wtask EXCEPT ![w] = NoTask]
          /\ UNCHANGED ckptVars \/ SaveCheckpoint
      BY <1>3, AccountEffect
    <2>2. PICK st, r : /\ Book(w, st, r)
                       /\ st \in TerminalSkip => r = Result(st, proof[wtask[w]])
                       /\ st \notin TerminalSkip => proof[wtask[w]] = NoProof
      <3>1. CASE outcome[w].status = "SOLVED" /\ Book(w, "SOLVED", outcome[w])
        <4>1. outcome[w] \in Results /\ outcome[w].proof = proof[wtask[w]]
          BY <2>1, <3>1 DEF InOrder, TypeOK, InFlight
        <4>2. outcome[w] = Result("SOLVED", proof[wtask[w]])
          BY <3>1, <4>1 DEF Results, Result
        <4> QED
          BY <3>1, <4>2 DEF TerminalSkip
      <3>2. ASSUME outcome[w].status # "SOLVED"
            PROVE  status[wtask[w]] \notin TerminalSkip /\ proof[wtask[w]] = NoProof
        BY <2>1, <3>2 DEF InFlight, TerminalSkip, BooksKept, RunBooks
      <3>3. CASE outcome[w].status = "OPEN" /\ Book(w, status[wtask[w]], outcome[w])
        BY <3>2, <3>3
      <3>4. CASE outcome[w].status # "SOLVED" /\ Book(w, "MARKED_AXIOM", Failure("MARKED_AXIOM"))
        BY <3>2, <3>4 DEF TerminalSkip, Failure
      <3>5. CASE /\ outcome[w].status # "SOLVED"
                 /\ \E st \in {"FAILED_ALL", outcome[w].status} : Book(w, st, Failure(st))
        <4>1. PICK st \in {"FAILED_ALL", outcome[w].status} : Book(w, st, Failure(st))
          BY <3>5
        <4>2. st \notin TerminalSkip
          BY <2>1, <3>5 DEF InFlight, TerminalSkip
        <4> QED
          BY <3>2, <3>5, <4>1, <4>2
      <3> QED
        BY <1>3, <3>1, <3>3, <3>4, <3>5, AccountEffect
    <2>3. \A t \in Tasks : t # wtask[w] => status'[t] = status[t] /\ results'[t] = results[t]
      BY <1>0, <2>2 DEF Book
    <2>4. status'[wtask[w]] = st /\ results'[wtask[w]] = r
      BY <1>0, <2>1, <2>2 DEF Book
    <2>5. RunBooks'
      <3> SUFFICES ASSUME NEW u \in Tasks
                   PROVE  /\ status'[u] \notin TerminalSkip => proof'[u] = NoProof
                          /\ status'[u] \in TerminalSkip /\ (\A v \in Workers : wtask'[v] # u)
                                => results'[u] = Result(status'[u], proof'[u])
        BY DEF RunBooks
      <3>1. CASE u = wtask[w]
        BY <2>1, <2>2, <2>4, <3>1
      <3>2. CASE u # wtask[w]
        <4>1. (\A v \in Workers : wtask'[v] # u) => (\A v \in Workers : wtask[v] # u)
          BY <1>0, <2>1, <3>2
        <4> QED
          BY <2>1, <2>3, <3>2, <4>1 DEF BooksKept, RunBooks
      <3> QED
        BY <3>1, <3>2
    <2>6. ASSUME NEW v \in Workers, wtask'[v] \in Tasks
          PROVE  status'[wtask'[v]] \notin TerminalSkip
      <3>1. v # w /\ wtask'[v] = wtask[v] /\ wtask[v] # wtask[w] /\ wtask[v] \in Tasks
        BY <1>0, <2>1, <2>6 DEF InOrder, OneWorkerPerTask
      <3>2. pc[v] # "return"
        BY <1>0, <2>1, <3>1 DEF BooksKept, InTurn, MayRun, LoopIsFree
      <3> QED
        BY <1>u, <2>3, <3>1, <3>2
    <2>7. BooksAgree'
      BY <2>1, <2>5, <2>6, SaveKeepsBooks DEF BooksKept
    <2>8. \A t \in queue' : status'[t] \notin TerminalSkip
      BY <1>0, <2>1, <2>3 DEF BooksKept
    <2> QED
      BY <1>t, <2>5, <2>7, <2>8 DEF BooksKept
  <1>4. ASSUME NEW S \in TaskSets, NEW resume \in ResumeModes, Start(S, resume)
        PROVE  BooksKept'
    BY <1>t, <1>4, StartKeepsBooks DEF BooksKept
  <1>5. CASE Crash
    <2>1. /\ status' = [t \in Tasks |-> "OPEN"] /\ proof' = [t \in Tasks |-> NoProof]
          /\ queue' = {} /\ UNCHANGED ckptVars
      BY <1>5 DEF Crash
    <2>2. RunBooks'
      BY <2>1 DEF RunBooks, TerminalSkip
    <2> QED
      BY <1>t, <2>1, <2>2, SaveKeepsBooks DEF BooksKept, BooksAgree, ckptVars
  <1>6. CASE Quiet
    <2>1. UNCHANGED <<status, proof, results, wtask>> /\ queue' \subseteq queue
      BY <1>6 DEF Quiet, bookVars, taskVars
    <2>2. RunBooks'
      BY <2>1 DEF BooksKept, RunBooks
    <2>3. CASE UNCHANGED ckptVars
      BY <1>t, <2>1, <2>2, <2>3 DEF BooksKept, BooksAgree, ckptVars
    <2>4. CASE SaveCheckpoint /\ (LoopIsFree \/ mode = "draining")
      <3>1. \A w \in Workers : pc[w] # "return"
        BY <1>0, <2>4 DEF BooksKept, InTurn, LoopIsFree, InOrder, OneWorkerPerTask, WorkersInOrder
      <3>2. BooksAgree'
        BY <1>u, <2>1, <2>2, <2>4, <3>1, SaveKeepsBooks DEF BooksKept
      <3> QED
        BY <1>t, <2>1, <2>2, <3>2 DEF BooksKept
    <2> QED
      BY <1>6, <2>3, <2>4 DEF Quiet
  <1> QED
    BY <1>1, <1>2, <1>3, <1>4, <1>5, <1>6, StepKinds

\* The two halves of the checkpoint agree in every state of every run, where wait_for runs the
\* chain in the worker's own task (Python from 3.12 on): a task that the file calls solved or
\* an axiom has its result in the file, with the same proof.
THEOREM HalvesAgree ==
    ASSUME ChainInOwnTask = FALSE
    PROVE  Spec => []BooksAgree
  <1>1. Init => InOrder /\ InFlight /\ BooksKept
    <2>1. ASSUME Init PROVE BooksKept
      <3>1. BooksAgree
        BY <2>1 DEF Init, BooksAgree, Absent, TaskRecord, TerminalSkip
      <3> QED
        BY <2>1, <3>1 DEF Init, BooksKept, RunBooks, InTurn, TerminalSkip
    <2> QED
      BY <2>1, InitInOrder, InitInFlight
  <1>2. InOrder /\ InFlight /\ BooksKept /\ [Next]_vars => (InOrder /\ InFlight /\ BooksKept)'
    BY NextInOrder, NextInFlight, NextKeepsBooks
  <1>3. BooksKept => BooksAgree
    BY DEF BooksKept
  <1> QED
    BY <1>1, <1>2, <1>3, PTL DEF Spec

----------------------------------------------------------------------------
(* No decided task is started again                                        *)

\* With one task list for all runs, a task with a verdict in the results has one itself, in
\* the run and in the checkpoint, and none of the tasks in the queue has one.
ResultsDecided ==
    /\ mode # "down" => active = Tasks
    /\ mode = "down" => ~saving
    /\ \A t \in queue : status[t] \notin TerminalSkip
    /\ \A t \in Tasks : results[t].status \in TerminalSkip => status[t] \in TerminalSkip
    /\ \A t \in Tasks : ckptRes[t].status \in TerminalSkip => ckptTask[t].status \in TerminalSkip

\* The parts of it that speak of the run, and of the file.
BooksDecided ==
    \A t \in Tasks : results[t].status \in TerminalSkip => status[t] \in TerminalSkip

FileDecided ==
    \A t \in Tasks : ckptRes[t].status \in TerminalSkip => ckptTask[t].status \in TerminalSkip

LEMMA SaveKeepsDecided ==
    ASSUME FileDecided, BooksDecided',
           UNCHANGED ckptVars \/ (SaveCheckpoint /\ active = Tasks)
    PROVE  FileDecided'
  <1>1. CASE UNCHANGED ckptVars
    BY <1>1 DEF FileDecided, ckptVars
  <1>2. CASE SaveCheckpoint /\ active = Tasks
    <2> SUFFICES ASSUME NEW t \in Tasks, ckptRes'[t].status \in TerminalSkip
                 PROVE  ckptTask'[t].status \in TerminalSkip
      BY DEF FileDecided
    <2>1. ckptTask'[t] = TaskRecord(status'[t], esc'[t], proof'[t]) /\ ckptRes' = results'
      BY <1>2 DEF SaveCheckpoint
    <2>2. ckptTask'[t].status = status'[t]
      BY <2>1 DEF TaskRecord
    <2> QED
      BY <2>1, <2>2 DEF BooksDecided
  <1> QED
    BY <1>1, <1>2

LEMMA StartKeepsDecided ==
    ASSUME TaskSets = {Tasks}, ResultsDecided,
           NEW S \in TaskSets, NEW resume \in ResumeModes, Start(S, resume)
    PROVE  ResultsDecided'
  <1> DEFINE merged == IF resume THEN ckptRes ELSE [t \in Tasks |-> NoResult]
             loaded == [t \in Tasks |-> IF t \in S THEN Resumed(t, resume) ELSE Fresh]
             pending == {t \in S : loaded[t].status \notin TerminalSkip}
             due == {t \in pending : loaded[t].esc >= EscalationThreshold}
  <1>0. S = Tasks
    OBVIOUS
  <1>1. PICK axioms \in SUBSET due :
          /\ status' = [t \in Tasks |->
                CASE t \in axioms       -> "MARKED_AXIOM"
                  [] t \in due \ axioms -> "FAILED_ALL"
                  [] OTHER              -> loaded[t].status]
          /\ results' = [t \in Tasks |->
                CASE t \in axioms       -> Failure("MARKED_AXIOM")
                  [] t \in due \ axioms -> Failure("FAILED_ALL")
                  [] OTHER              -> merged[t]]
    BY DEF Start
  <1>2. /\ queue' = pending \ due /\ UNCHANGED ckptVars
        /\ mode' = "planning" /\ active' = S
    BY DEF Start
  <1>3. ASSUME NEW t \in Tasks, merged[t].status \in TerminalSkip
        PROVE  loaded[t].status \in TerminalSkip
    <2>1. resume /\ ckptRes[t].status \in TerminalSkip
      BY <1>3 DEF NoResult, Failure, Result, TerminalSkip
    <2>2. ckptTask[t].status \in TerminalSkip
      BY <2>1 DEF ResultsDecided
    <2>3. loaded[t] = ckptTask[t]
      BY <1>0, <2>1, <2>2 DEF Resumed, TerminalSkip
    <2> QED
      BY <2>2, <2>3
  <1>4. \A t \in pending : t \in Tasks /\ loaded[t].status \notin TerminalSkip
    BY <1>0
  <1>5. Failure("FAILED_ALL").status \notin TerminalSkip
    BY DEF Failure, Result, TerminalSkip
  <1> HIDE DEF merged, loaded, pending, due
  <1>6. ASSUME NEW t \in Tasks, results'[t].status \in TerminalSkip
        PROVE  status'[t] \in TerminalSkip
    <2>1. CASE t \in axioms
      BY <1>1, <2>1 DEF TerminalSkip
    <2>2. CASE t \in due \ axioms
      BY <1>1, <1>5, <1>6, <2>2
    <2>3. CASE t \notin axioms /\ t \notin due \ axioms
      BY <1>1, <1>3, <1>6, <2>3
    <2> QED
      BY <2>1, <2>2, <2>3
  <1>7. \A t \in queue' : status'[t] \notin TerminalSkip
    BY <1>1, <1>2, <1>4
  <1> QED
    BY <1>0, <1>2, <1>6, <1>7 DEF ResultsDecided, ckptVars

LEMMA NextKeepsDecided ==
    ASSUME TaskSets = {Tasks}, InOrder, InFlight, ResultsDecided, [Next]_vars
    PROVE  ResultsDecided'
  <1>0. /\ status \in [Tasks -> TaskStatuses] /\ results \in [Tasks -> Results]
        /\ queue \subseteq Tasks
    BY DEF InOrder, TypeOK
  <1>b. BooksDecided /\ FileDecided /\ \A t \in queue : status[t] \notin TerminalSkip
    BY DEF ResultsDecided, BooksDecided, FileDecided
  <1>s. ASSUME mode # "down", mode' # "down", active' = active, BooksDecided',
               UNCHANGED ckptVars \/ SaveCheckpoint,
               \A t \in queue' : status'[t] \notin TerminalSkip
        PROVE  ResultsDecided'
    <2>1. active = Tasks
      BY <1>s DEF ResultsDecided
    <2>2. FileDecided'
      BY <1>b, <1>s, <2>1, SaveKeepsDecided
    <2> QED
      BY <1>s, <2>1, <2>2 DEF ResultsDecided, BooksDecided, FileDecided
  <1>1. ASSUME NEW w \in Workers, ChainStep(w) \/ TimeOut(w)
        PROVE  ResultsDecided'
    <2>1. ChainEffect(w) /\ Busy(w) /\ pc[w] # "return"
      BY <1>1, ChainEffects DEF InOrder
    <2>2. /\ wtask[w] \in Tasks \ queue /\ outcome[w] = NoResult /\ mode = "working"
          /\ UNCHANGED <<mode, active, results, queue, ckptVars>>
      BY <2>1 DEF ChainEffect, UnchangedByChain, runVars, Busy, InOrder, OneWorkerPerTask,
                  WorkersInOrder
    <2>3. status[wtask[w]] \notin TerminalSkip
      BY <2>2 DEF InFlight, NoResult, Failure, Result, TerminalSkip
    <2>4. \A t \in Tasks : t # wtask[w] => status'[t] = status[t]
      BY <1>0, <2>1 DEF ChainEffect
    <2>5. BooksDecided'
      BY <1>b, <2>2, <2>3, <2>4 DEF BooksDecided
    <2>6. \A t \in queue' : status'[t] \notin TerminalSkip
      BY <1>0, <1>b, <2>2, <2>4
    <2> QED
      BY <1>s, <2>2, <2>5, <2>6
  <1>2. ASSUME NEW w \in Workers, Take(w)
        PROVE  ResultsDecided'
    <2>1. PICK t \in queue : queue' = queue \ {t} /\ status' = [status EXCEPT ![t] = "IN_PROGRESS"]
      BY <1>2 DEF Take, Popped
    <2>2. mode = "working" /\ UNCHANGED <<mode, active, results, ckptVars>>
      BY <1>2 DEF Take, AtLoopHead
    <2>3. BooksDecided'
      BY <1>0, <1>b, <2>1, <2>2 DEF BooksDecided
    <2>4. \A u \in queue' : status'[u] \notin TerminalSkip
      BY <1>0, <1>b, <2>1
    <2> QED
      BY <1>s, <2>2, <2>3, <2>4
  <1>3. ASSUME NEW w \in Workers, Account(w)
        PROVE  ResultsDecided'
    <2>1. /\ wtask[w] \in Tasks \ queue /\ mode = "working"
          /\ UNCHANGED <<mode, active, queue>>
          /\ UNCHANGED ckptVars \/ SaveCheckpoint
      BY <1>3, AccountEffect DEF runVars
    <2>2. PICK st, r : Book(w, st, r) /\ (r.status \in TerminalSkip => st \in TerminalSkip)
      <3>1. CASE Book(w, "SOLVED", outcome[w])
        BY <3>1 DEF TerminalSkip
      <3>2. CASE outcome[w].status = "OPEN" /\ Book(w, status[wtask[w]], outcome[w])
        BY <3>2 DEF TerminalSkip
      <3>3. CASE \E st : Book(w, st, Failure(st))
        BY <3>3 DEF Failure, Result
      <3> QED
        BY <1>3, <3>1, <3>2, <3>3, AccountEffect
    <2>3. /\ \A t \in Tasks : t # wtask[w] => status'[t] = status[t] /\ results'[t] = results[t]
          /\ status'[wtask[w]] = st /\ results'[wtask[w]] = r
      BY <1>0, <2>1, <2>2 DEF Book
    <2>4. BooksDecided'
      BY <1>b, <2>2, <2>3 DEF BooksDecided
    <2>5. \A t \in queue' : status'[t] \notin TerminalSkip
      BY <1>0, <1>b, <2>1, <2>3
    <2> QED
      BY <1>s, <2>1, <2>4, <2>5
  <1>4. ASSUME NEW S \in TaskSets, NEW resume \in ResumeModes, Start(S, resume)
        PROVE  ResultsDecided'
    BY <1>4, StartKeepsDecided
  <1>5. CASE Crash
    <2>1. /\ mode' = "down" /\ ~saving' /\ queue' = {} /\ UNCHANGED ckptVars
          /\ results' = [t \in Tasks |-> NoResult]
      BY <1>5 DEF Crash
    <2> QED
      BY <1>b, <2>1 DEF ResultsDecided, FileDecided, ckptVars, NoResult, Failure, Result,
                        TerminalSkip
  <1>6. CASE Quiet
    <2>1. UNCHANGED <<status, results, active>> /\ queue' \subseteq queue
      BY <1>6 DEF Quiet, bookVars, taskVars
    <2>2. BooksDecided' /\ \A t \in queue' : status'[t] \notin TerminalSkip
      BY <1>b, <2>1 DEF BooksDecided
    <2>3. CASE mode # "down"
      BY <1>6, <1>s, <2>1, <2>2, <2>3 DEF Quiet
    <2>4. CASE mode = "down"
      <3>1. mode' = "down" /\ ~saving' /\ UNCHANGED ckptVars
        BY <1>6, <2>4 DEF Quiet, ResultsDecided
      <3> QED
        BY <1>b, <2>2, <3>1 DEF ResultsDecided, BooksDecided, FileDecided, ckptVars
    <2> QED
      BY <2>3, <2>4
  <1> QED
    BY <1>1, <1>2, <1>3, <1>4, <1>5, <1>6, StepKinds

LEMMA InitDecided == Init => ResultsDecided
  BY DEF Init, ResultsDecided, NoResult, Failure, Result, Absent, TaskRecord, TerminalSkip

\* No work is done twice: when every run resumes with the whole task list, a task that the
\* tasks or the results of the checkpoint call solved or an axiom is never started again.
THEOREM DecidedAreSkipped ==
    ASSUME TaskSets = {Tasks}, ResumeModes = {TRUE}
    PROVE  Spec => DecidedNeverRestarted
  <1>1. Init => InOrder /\ InFlight /\ LedgerKept /\ ResultsDecided
    BY InitInOrder, InitInFlight, InitDecided
    DEF Init, LedgerKept, Absent, TaskRecord, TerminalSkip
  <1>2. InOrder /\ InFlight /\ LedgerKept /\ ResultsDecided /\ [Next]_vars
           => (InOrder /\ InFlight /\ LedgerKept /\ ResultsDecided)'
    BY NextInOrder, NextInFlight, NextKeepsLedger, NextKeepsDecided
  <1>3. ASSUME InOrder, LedgerKept, ResultsDecided, [Next]_vars, NEW t \in started' \ started
        PROVE  {ckptTask[t].status, ckptRes[t].status} \cap TerminalSkip = {}
    <2>1. PICK w \in Workers : Take(w)
      <3>1. ASSUME NEW w \in Workers, ChainStep(w) \/ TimeOut(w)
            PROVE  UNCHANGED started
        BY <1>3, <3>1, ChainEffects DEF InOrder, ChainEffect, UnchangedByChain, runVars
      <3>2. ASSUME NEW w \in Workers, Account(w)
            PROVE  UNCHANGED started
        BY <3>2 DEF Account, runVars
      <3>3. ASSUME NEW S \in TaskSets, NEW resume \in ResumeModes, Start(S, resume)
            PROVE  started' = {}
        BY <3>3 DEF Start
      <3>4. Crash => started' = {}
        BY DEF Crash
      <3>5. Quiet => UNCHANGED started
        BY DEF Quiet
      <3> QED
        BY <1>3, <3>1, <3>2, <3>3, <3>4, <3>5, StepKinds
    <2>2. t \in queue /\ mode = "working"
      BY <1>3, <2>1 DEF Take, AtLoopHead
    <2>3. t \in Tasks /\ status[t] \notin TerminalSkip
      BY <1>3, <2>2 DEF InOrder, TypeOK, LedgerKept
    <2>4. ckptTask[t].status \notin TerminalSkip
      BY <1>3, <2>2, <2>3 DEF LedgerKept
    <2>5. ckptRes[t].status \notin TerminalSkip
      BY <1>3, <2>3, <2>4 DEF ResultsDecided
    <2> QED
      BY <2>4, <2>5
  <1>4. InOrder /\ LedgerKept /\ ResultsDecided /\ [Next]_vars
           => [\A t \in started' \ started :
                  {ckptTask[t].status, ckptRes[t].status} \cap TerminalSkip = {}]_vars
    BY <1>3
  <1> QED
    BY <1>1, <1>2, <1>4, PTL DEF Spec, DecidedNeverRestarted

----------------------------------------------------------------------------
(* The report is true                                                      *)

Stopping == shutdown \/ expired
Ended    == mode \in {"draining", "finished"}

\* Nothing that has been started is in the queue or reported as untouched, a task in progress
\* is with a worker, and only a run that is being stopped leaves a task open outside the
\* queue, or a worker the queue.
Reported ==
    /\ started \cap queue = {}
    /\ ~Ended => untouched = {}
    /\ Ended => queue = {}
    /\ \A t \in untouched : t \in Tasks \ started /\ results[t].status \notin TerminalSkip
    /\ \A t \in Tasks : status[t] = "IN_PROGRESS" => \E w \in Workers : wtask[w] = t
    /\ \A t \in active : status[t] = "OPEN" => t \in queue \/ Stopping
    /\ mode = "working" /\ (\E w \in Workers : pc[w] = "stopped") => queue = {} \/ Stopping
    /\ \A w \in Workers :
          /\ outcome[w].status \in {"NONE", "OPEN", "SOLVED", "FAILED_ALL", "BUDGET_EXHAUSTED"}
          /\ outcome[w].status = "OPEN" => shutdown /\ status[wtask[w]] = "OPEN"

LEMMA ChainKeepsReport ==
    ASSUME InOrder, Reported, NEW w \in Workers, ChainStep(w) \/ TimeOut(w)
    PROVE  Reported'
  <1>1. ChainEffect(w) /\ Busy(w) /\ pc[w] # "return"
    BY ChainEffects DEF InOrder
  <1>2. /\ wtask[w] \in Tasks \ queue /\ outcome[w] = NoResult /\ mode = "working"
        /\ UNCHANGED <<mode, active, started, untouched, results, queue, wtask, shutdown, expired>>
    BY <1>1 DEF ChainEffect, UnchangedByChain, runVars, stopVars, Busy, InOrder,
                OneWorkerPerTask, WorkersInOrder
  <1>3. /\ status \in [Tasks -> TaskStatuses] /\ active \subseteq Tasks
        /\ outcome \in [Workers -> Results]
        /\ \A v \in Workers : wtask[v] \in Tasks /\ v # w => wtask[v] # wtask[w]
    BY DEF InOrder, TypeOK, OneWorkerPerTask
  <1>4. /\ \A t \in Tasks : t # wtask[w] => status'[t] = status[t]
        /\ status'[wtask[w]] = "IN_PROGRESS" => status[wtask[w]] = "IN_PROGRESS"
        /\ status'[wtask[w]] = "OPEN" => status[wtask[w]] = "OPEN" \/ shutdown
        /\ outcome'[w].status \in {"NONE", "OPEN", "SOLVED", "FAILED_ALL", "BUDGET_EXHAUSTED"}
        /\ outcome'[w].status = "OPEN" => shutdown /\ status'[wtask[w]] = "OPEN"
    <2>1. \A s, q : Failure(s).status = s /\ Result(s, q).status = s
      BY DEF Failure, Result
    <2>2. CASE outcome'[w] = outcome[w] /\ UNCHANGED status
      BY <1>2, <2>1, <2>2 DEF NoResult
    <2>3. CASE /\ outcome'[w] \in {Failure("FAILED_ALL"), Failure("BUDGET_EXHAUSTED")}
               /\ UNCHANGED status
      BY <2>1, <2>3
    <2>4. CASE /\ outcome'[w] = Failure("OPEN") /\ shutdown
               /\ status' = [status EXCEPT ![wtask[w]] = "OPEN"]
      BY <1>2, <1>3, <2>1, <2>4
    <2>5. CASE /\ \E p : outcome'[w] = Result("SOLVED", p)
               /\ status' = [status EXCEPT ![wtask[w]] = "SOLVED"]
      BY <1>2, <1>3, <2>1, <2>5
    <2> QED
      BY <1>1, <2>2, <2>3, <2>4, <2>5 DEF ChainEffect
  <1>5. ASSUME NEW v \in Workers
        PROVE  /\ outcome'[v].status \in {"NONE", "OPEN", "SOLVED", "FAILED_ALL",
                                          "BUDGET_EXHAUSTED"}
               /\ outcome'[v].status = "OPEN" => shutdown' /\ status'[wtask'[v]] = "OPEN"
    <2>1. CASE v = w
      BY <1>2, <1>4, <2>1
    <2>2. CASE v # w
      <3>1. outcome'[v] = outcome[v]
        BY <1>1, <2>2 DEF ChainEffect
      <3>2. ASSUME outcome[v].status = "OPEN" PROVE status'[wtask[v]] = "OPEN"
        <4>1. status[wtask[v]] = "OPEN" /\ wtask[v] \in Tasks
          BY <3>2 DEF Reported, InOrder, OneWorkerPerTask, WorkersInOrder, Busy, NoResult,
                      Failure, Result
        <4> QED
          BY <1>3, <1>4, <2>2, <4>1
      <3> QED
        BY <1>2, <3>1, <3>2 DEF Reported
    <2> QED
      BY <2>1, <2>2
  <1>6. \A t \in Tasks : status'[t] = "IN_PROGRESS" => \E v \in Workers : wtask'[v] = t
    BY <1>2, <1>4 DEF Reported
  <1>7. \A t \in active' : status'[t] = "OPEN" => t \in queue' \/ Stopping'
    BY <1>2, <1>3, <1>4 DEF Reported, Stopping
  <1>8. \A v \in Workers : pc'[v] = "stopped" => pc[v] = "stopped"
    BY <1>1 DEF ChainEffect
  <1> QED
    BY <1>2, <1>5, <1>6, <1>7, <1>8 DEF Reported, Ended, Stopping

LEMMA LoopHeadKeepsReport ==
    ASSUME InOrder, Reported, NEW w \in Workers, LoopHead(w) \/ TakeTooLate(w)
    PROVE  Reported'
  <1>0. /\ status \in [Tasks -> TaskStatuses] /\ queue \subseteq Tasks
        /\ wtask \in [Workers -> Tasks \cup {NoTask}]
        /\ active \subseteq Tasks
    BY DEF InOrder, TypeOK
  <1>1. /\ mode = "working" /\ UNCHANGED <<mode, active, untouched, results, outcome, shutdown>>
        /\ untouched = {} /\ wtask[w] \notin Tasks /\ queue' \subseteq queue
        /\ outcome[w] = NoResult
    <2>1. /\ AtLoopHead(w) /\ queue' \subseteq queue
          /\ UNCHANGED <<mode, active, untouched, results, outcome, shutdown>>
      BY DEF LoopHead, Take, Popped, TakeSentinel, StopEarly, TakeTooLate, runVars, bookVars,
             stopVars
    <2> QED
      BY <2>1 DEF AtLoopHead, Reported, Ended, InOrder, OneWorkerPerTask, WorkersInOrder, Busy
  <1>2. CASE Take(w)
    <2>1. PICK t \in queue :
             /\ queue' = queue \ {t}
             /\ started' = started \cup {t}
             /\ status' = [status EXCEPT ![t] = "IN_PROGRESS"]
             /\ wtask' = [wtask EXCEPT ![w] = t]
      BY <1>2 DEF Take, Popped
    <2>2. UNCHANGED expired /\ pc' = [pc EXCEPT ![w] = "enter"]
      BY <1>2 DEF Take, stopVars
    <2>3. t \in Tasks /\ wtask'[w] = t
      BY <1>0, <2>1
    <2>4. ASSUME NEW u \in Tasks, status'[u] = "IN_PROGRESS"
          PROVE  \E v \in Workers : wtask'[v] = u
      <3>1. CASE u = t
        BY <2>3, <3>1
      <3>2. CASE u # t
        <4>1. PICK v \in Workers : wtask[v] = u
          BY <1>0, <2>1, <2>4, <3>2 DEF Reported
        <4>2. v # w
          BY <1>1, <4>1
        <4> QED
          BY <1>0, <2>1, <4>1, <4>2
      <3> QED
        BY <3>1, <3>2
    <2>5. \A u \in active' : status'[u] = "OPEN" => u \in queue' \/ Stopping'
      BY <1>0, <1>1, <2>1, <2>2, <2>3 DEF Reported, Stopping
    <2>6. ASSUME NEW v \in Workers, outcome[v].status = "OPEN"
          PROVE  status'[wtask'[v]] = "OPEN"
      <3>1. v # w
        BY <1>1, <2>6 DEF NoResult, Failure, Result
      <3>2. status[wtask[v]] = "OPEN" /\ wtask[v] \in Tasks \ queue
        BY <2>6 DEF Reported, InOrder, OneWorkerPerTask, WorkersInOrder, Busy, NoResult,
                    Failure, Result
      <3> QED
        BY <1>0, <2>1, <3>1, <3>2
    <2>7. \A v \in Workers : pc'[v] = "stopped" => pc[v] = "stopped"
      BY <2>2 DEF InOrder, TypeOK
    <2>8. started' \cap queue' = {}
      BY <2>1 DEF Reported
    <2>9. queue = {} => queue' = {}
      BY <1>1
    <2> QED
      BY <1>1, <2>2, <2>4, <2>5, <2>6, <2>7, <2>8, <2>9 DEF Reported, Ended, Stopping
  <1>3. CASE TakeTooLate(w) \/ TakeSentinel(w) \/ StopEarly(w)
    <2>1. UNCHANGED <<status, started, wtask>>
      BY <1>3 DEF TakeTooLate, TakeSentinel, StopEarly, runVars, bookVars, taskVars
    <2>2. /\ Stopping => Stopping'
          /\ queue' = {} \/ Stopping'
          /\ queue' = queue \/ Stopping'
      BY <1>3 DEF TakeTooLate, TakeSentinel, SentinelIsNext, StopEarly, Stopping, stopVars
    <2>3. \A t \in active' : status'[t] = "OPEN" => t \in queue' \/ Stopping'
      BY <1>1, <2>1, <2>2 DEF Reported
    <2> QED
      BY <1>1, <2>1, <2>2, <2>3 DEF Reported, Ended
  <1> QED
    BY <1>2, <1>3 DEF LoopHead

LEMMA AccountKeepsReport ==
    ASSUME InOrder, InFlight, Reported, NEW w \in Workers, Account(w)
    PROVE  Reported'
  <1>0. /\ status \in [Tasks -> TaskStatuses] /\ results \in [Tasks -> Results]
        /\ wtask \in [Workers -> Tasks \cup {NoTask}] /\ active \subseteq Tasks
        /\ outcome \in [Workers -> Results] /\ pc[w] = "return"
        /\ \A v \in Workers : wtask[v] \in Tasks /\ v # w => wtask[v] # wtask[w]
    BY DEF InOrder, TypeOK, OneWorkerPerTask, Account
  <1>1. /\ wtask[w] \in Tasks \ queue /\ mode = "working"
        /\ UNCHANGED <<mode, active, started, untouched, queue, shutdown, expired>>
        /\ pc' = [pc EXCEPT ![w] = "idle"]
        /\ wtask' = [wtask EXCEPT ![w] = NoTask]
        /\ outcome' = [outcome EXCEPT ![w] = NoResult]
    BY AccountEffect DEF runVars, stopVars
  <1>2. untouched = {}
    BY <1>1 DEF Reported, Ended
  <1>3. PICK st, r : /\ Book(w, st, r) /\ st # "IN_PROGRESS"
                     /\ st = "OPEN" => shutdown
    <2>1. CASE Book(w, "SOLVED", outcome[w])
      BY <2>1
    <2>2. CASE outcome[w].status = "OPEN" /\ Book(w, status[wtask[w]], outcome[w])
      BY <2>2 DEF Reported
    <2>3. CASE Book(w, "MARKED_AXIOM", Failure("MARKED_AXIOM"))
      BY <2>3
    <2>4. CASE /\ outcome[w].status \notin {"SOLVED", "OPEN"}
               /\ \E st \in {"FAILED_ALL", outcome[w].status} : Book(w, st, Failure(st))
      <3>1. PICK st \in {"FAILED_ALL", outcome[w].status} : Book(w, st, Failure(st))
        BY <2>4
      <3>2. st \notin {"OPEN", "IN_PROGRESS"}
        BY <2>4 DEF Reported
      <3> QED
        BY <3>1, <3>2
    <2> QED
      BY <2>1, <2>2, <2>3, <2>4, AccountEffect
  <1>4. /\ \A t \in Tasks : t # wtask[w] => status'[t] = status[t]
        /\ status'[wtask[w]] = st
    BY <1>0, <1>1, <1>3 DEF Book
  <1>5. ASSUME NEW t \in Tasks, status'[t] = "IN_PROGRESS"
        PROVE  \E v \in Workers : wtask'[v] = t
    <2>1. t # wtask[w] /\ status[t] = "IN_PROGRESS"
      BY <1>3, <1>4, <1>5
    <2>2. PICK v \in Workers : wtask[v] = t
      BY <2>1 DEF Reported
    <2> QED
      BY <1>0, <1>1, <2>1, <2>2
  <1>6. \A t \in active' : status'[t] = "OPEN" => t \in queue' \/ Stopping'
    BY <1>0, <1>1, <1>3, <1>4 DEF Reported, Stopping
  <1>7. ASSUME NEW v \in Workers
        PROVE  /\ outcome'[v].status \in {"NONE", "OPEN", "SOLVED", "FAILED_ALL",
                                          "BUDGET_EXHAUSTED"}
               /\ outcome'[v].status = "OPEN" => shutdown' /\ status'[wtask'[v]] = "OPEN"
    <2>1. CASE v = w
      BY <1>0, <1>1, <2>1 DEF NoResult, Failure, Result
    <2>2. CASE v # w
      <3>1. outcome'[v] = outcome[v] /\ wtask'[v] = wtask[v]
        BY <1>0, <1>1, <2>2
      <3>2. ASSUME outcome[v].status = "OPEN" PROVE status'[wtask[v]] = "OPEN"
        <4>1. status[wtask[v]] = "OPEN" /\ wtask[v] \in Tasks
          BY <3>2 DEF Reported, InOrder, OneWorkerPerTask, WorkersInOrder, Busy, NoResult,
                      Failure, Result
        <4> QED
          BY <1>0, <1>4, <2>2, <4>1
      <3> QED
        BY <1>1, <3>1, <3>2 DEF Reported
    <2> QED
      BY <2>1, <2>2
  <1>8. \A v \in Workers : pc'[v] = "stopped" => pc[v] = "stopped"
    BY <1>1 DEF InOrder, TypeOK
  <1> QED
    BY <1>1, <1>2, <1>5, <1>6, <1>7, <1>8 DEF Reported, Ended, Stopping

LEMMA StartKeepsReport ==
    ASSUME InOrder, TaskSets = {Tasks}, NEW S \in TaskSets, NEW resume \in ResumeModes,
           Start(S, resume)
    PROVE  Reported'
  <1> DEFINE merged == IF resume THEN ckptRes ELSE [t \in Tasks |-> NoResult]
             loaded == [t \in Tasks |-> IF t \in S THEN Resumed(t, resume) ELSE Fresh]
             pending == {t \in S : loaded[t].status \notin TerminalSkip}
             due == {t \in pending : loaded[t].esc >= EscalationThreshold}
  <1>0. S = Tasks
    OBVIOUS
  <1>1. PICK axioms \in SUBSET due :
          status' = [t \in Tasks |->
                CASE t \in axioms       -> "MARKED_AXIOM"
                  [] t \in due \ axioms -> "FAILED_ALL"
                  [] OTHER              -> loaded[t].status]
    BY DEF Start
  <1>2. /\ queue' = pending \ due /\ mode' = "planning" /\ active' = S
        /\ started' = {} /\ untouched' = {} /\ UNCHANGED <<pc, wtask, outcome>>
        /\ mode \in {"down", "finished"}
    BY DEF Start, workVars
  <1>3. ASSUME NEW t \in Tasks
        PROVE  /\ loaded[t].status # "IN_PROGRESS"
               /\ loaded[t].status = "OPEN" => t \in pending
    BY <1>0 DEF Resumed, Fresh, TaskRecord, TerminalSkip
  <1>4. \A t \in due : t \in pending
    OBVIOUS
  <1> HIDE DEF merged, loaded, pending, due
  <1>5. \A t \in Tasks : /\ status'[t] # "IN_PROGRESS"
                         /\ status'[t] = "OPEN" => t \in queue'
    BY <1>1, <1>2, <1>3
  <1>6. \A w \in Workers : outcome'[w] = NoResult
    BY <1>2 DEF InOrder, OneWorkerPerTask, WorkersInOrder
  <1> QED
    BY <1>0, <1>2, <1>5, <1>6 DEF Reported, Ended, NoResult, Failure, Result

LEMMA RunKeepsReport ==
    ASSUME InOrder, ResultsDecided, Reported,
           RunStep \/ Signal \/ WallClockExpires \/ Crash
    PROVE  Reported'
  <1>0. Workers # {} /\ queue \subseteq Tasks
    BY ConstantsAssumption DEF ConstantsAssumption, InOrder, TypeOK
  <1>1. CASE LaunchWorkers
    <2>1. /\ UNCHANGED <<active, started, untouched, status, results, queue, shutdown, expired,
                         wtask, outcome>>
          /\ mode = "planning" /\ mode' = "working"
          /\ \A w \in Workers : pc'[w] = "new"
      BY <1>1 DEF LaunchWorkers, runVars, bookVars, taskVars, stopVars
    <2> QED
      BY <2>1 DEF Reported, Ended, Stopping
  <1>2. CASE Drain
    <2>1. /\ mode = "working" /\ mode' = "draining"
          /\ untouched' = {t \in queue : status[t] \notin TerminalSkip}
          /\ queue' = {}
          /\ UNCHANGED <<active, started, status, results, shutdown, expired, wtask, outcome>>
          /\ \A w \in Workers : pc[w] = "stopped"
      BY <1>2 DEF Drain, bookVars, taskVars, stopVars, workVars
    <2>2. queue = {} \/ Stopping
      BY <1>0, <2>1 DEF Reported
    <2>3. \A t \in untouched' : t \in Tasks \ started' /\ results'[t].status \notin TerminalSkip
      BY <1>0, <2>1 DEF Reported, ResultsDecided
    <2>4. \A t \in active' : status'[t] = "OPEN" => t \in queue' \/ Stopping'
      BY <2>1, <2>2 DEF Reported, Stopping
    <2> QED
      BY <2>1, <2>3, <2>4 DEF Reported, Ended
  <1>3. CASE Finish
    <2>1. /\ mode = "draining" /\ mode' = "finished"
          /\ UNCHANGED <<active, started, untouched, status, results, queue, shutdown, expired,
                         wtask, outcome>>
      BY <1>3 DEF Finish, runVars, bookVars, taskVars, stopVars, workVars
    <2> QED
      BY <2>1 DEF Reported, Ended, Stopping
  <1>4. CASE EmergencySave \/ Signal \/ WallClockExpires
    <2>1. /\ UNCHANGED <<mode, active, started, untouched, status, results, queue, pc, wtask,
                         outcome>>
          /\ shutdown => shutdown'
          /\ Stopping => Stopping'
      BY <1>4 DEF EmergencySave, Signal, WallClockExpires, runVars, bookVars, taskVars, workVars,
                  Stopping
    <2> QED
      BY <2>1 DEF Reported, Ended
  <1>5. CASE Crash
    <2>1. /\ mode' = "down" /\ active' = {} /\ queue' = {} /\ started' = {} /\ untouched' = {}
          /\ status' = [t \in Tasks |-> "OPEN"]
          /\ outcome' = [w \in Workers |-> NoResult]
      BY <1>5 DEF Crash
    <2> QED
      BY <2>1 DEF Reported, Ended, NoResult, Failure, Result
  <1> QED
    BY <1>1, <1>2, <1>3, <1>4, <1>5 DEF RunStep

LEMMA NextKeepsReport ==
    ASSUME TaskSets = {Tasks}, InOrder, InFlight, ResultsDecided, Reported, [Next]_vars
    PROVE  Reported'
  <1>1. ASSUME NEW w \in Workers, LearnLemma(w)
        PROVE  Reported'
    <2>1. /\ UNCHANGED <<mode, active, started, untouched, status, results, queue, shutdown,
                         expired, pc, wtask, outcome>>
      BY <1>1 DEF LearnLemma, UnchangedByChain, runVars, taskVars, stopVars
    <2> QED
      BY <2>1 DEF Reported, Ended, Stopping
  <1>2. CASE UNCHANGED vars
    BY <1>2 DEF vars, runVars, bookVars, taskVars, stopVars, workVars, Reported, Ended, Stopping
  <1> QED
    BY <1>1, <1>2, ChainKeepsReport, LoopHeadKeepsReport, AccountKeepsReport, StartKeepsReport,
       RunKeepsReport
    DEF Next, WorkerStep, Interruption

LEMMA InitReported == Init => Reported
  BY DEF Init, Reported, Ended, NoResult, Failure, Result

\* What a run ends with is true, whatever stopped it: no task is in progress, one that is
\* still open was left by a run that a signal or the clock cut short, and the tasks reported
\* as untouched were never started and have no verdict of any run.
THEOREM ReportsAreTrue ==
    ASSUME TaskSets = {Tasks}
    PROVE  Spec => []ReportIsTrue
  <1>1. Init => InOrder /\ InFlight /\ ResultsDecided /\ Reported
    BY InitInOrder, InitInFlight, InitDecided, InitReported
  <1>2. InOrder /\ InFlight /\ ResultsDecided /\ Reported /\ [Next]_vars
           => (InOrder /\ InFlight /\ ResultsDecided /\ Reported)'
    BY NextInOrder, NextInFlight, NextKeepsDecided, NextKeepsReport
  <1>3. InOrder /\ Reported => ReportIsTrue
    <2> SUFFICES ASSUME InOrder, Reported PROVE ReportIsTrue
      OBVIOUS
    <2>1. ASSUME Ended, NEW t \in active
          PROVE  status[t] # "IN_PROGRESS" /\ (~shutdown /\ ~expired => status[t] # "OPEN")
      <3>1. \A w \in Workers : wtask[w] \notin Tasks
        BY <2>1 DEF Ended, InOrder, OneWorkerPerTask, WorkersInOrder, Busy
      <3>2. t \in Tasks
        BY DEF InOrder, TypeOK
      <3> QED
        BY <2>1, <3>1, <3>2 DEF Reported, Stopping
    <2> QED
      BY <2>1 DEF ReportIsTrue, Reported, Ended
  <1> QED
    BY <1>1, <1>2, <1>3, PTL DEF Spec

----------------------------------------------------------------------------
(* A crash loses few results                                               *)

\* The results a crash would lose, the tasks the workers have, and how many tasks have been
\* taken since the last multiple of the interval.
Unsaved == {t \in started : results[t] # ckptRes[t]}
InHand  == {t \in Tasks : \E w \in Workers : wtask[w] = t}
Since   == IF CheckpointDue THEN CheckpointEvery ELSE processed % CheckpointEvery

\* What has no result of this run yet has the one of the file; an idle worker is in the turn
\* that has just booked and, when due, saved; the workers' first turns, which may all fall on
\* due counts, book nothing.  The tasks that are unsaved or in hand are then at most those of
\* the other workers, and one for each task taken since the last save.
Lossless ==
    /\ \A t \in queue \cup InHand : results[t] = ckptRes[t]
    /\ mode = "planning" => started = {}
    /\ \A w \in Workers : pc[w] = "idle" => turn = w /\ (CheckpointDue => Unsaved = {})
    /\ \A w \in Workers : pc[w] = "new" =>
          /\ Unsaved = {}
          /\ \A v \in Workers : pc[v] \in {"new", "enter", "lemma", "phase", "stopped"}
    /\ \A w \in Workers : pc[w] = "enter" /\ turn = w => ~shutdown
    /\ CheckpointDue /\ InHand = {} => Unsaved = {}
    /\ Unsaved = {} \/ Cardinality(Unsaved \cup InHand) <= Cardinality(Workers) - 1 + Since

\* How a remainder grows.
LEMMA Quotient ==
    ASSUME NEW n \in Nat, NEW m \in Nat \ {0}
    PROVE  n = m * (n \div m) + (n % m) /\ n \div m \in Int /\ n % m \in 0..m - 1
  OBVIOUS

LEMMA NextRemainder ==
    ASSUME NEW n \in Nat, NEW m \in Nat \ {0}
    PROVE  (n + 1) % m = IF (n % m) + 1 = m THEN 0 ELSE (n % m) + 1
  <1>1. PICK a \in Int, r \in 0..m - 1 : n = m * a + r /\ r = n % m
    BY Quotient
  <1>2. PICK k \in Nat : k = n + 1
    OBVIOUS
  <1>3. PICK b \in Int, s \in 0..m - 1 : k = m * b + s /\ s = k % m
    BY Quotient
  <1>4. m * (b - a) = 1 - (s - r)
    <2>1. m * (b - a) = m * b - m * a
      OBVIOUS
    <2>2. m * b = n + 1 - s /\ m * a = n - r
      BY <1>1, <1>2, <1>3
    <2> QED
      BY <2>1, <2>2
  <1>5. (n + 1) % m = s /\ n % m = r /\ s \in 0..m - 1 /\ r \in 0..m - 1
    BY <1>1, <1>2, <1>3
  <1>6. b - a = 0 \/ b - a = 1
    <2>1. PICK c \in Int : c = b - a
      OBVIOUS
    <2>2. CASE c >= 2
      <3>1. m * c >= m * 2
        BY <2>2
      <3> QED
        BY <1>4, <2>1, <3>1
    <2>3. CASE c <= -1
      <3>1. m * c <= m * (-1)
        BY <2>3
      <3> QED
        BY <1>4, <2>1, <3>1
    <2> QED
      BY <2>1, <2>2, <2>3
  <1>7. CASE b - a = 0
    <2>1. s = r + 1
      BY <1>4, <1>7
    <2>2. r + 1 # m
      BY <2>1
    <2> QED
      BY <1>5, <2>1, <2>2
  <1>8. CASE b - a = 1
    <2>1. s = r + 1 - m
      BY <1>4, <1>8
    <2>2. r = m - 1 /\ s = 0
      BY <2>1
    <2> QED
      BY <1>5, <2>2
  <1> QED
    BY <1>6, <1>7, <1>8

\* A task more since the last save, when none was due.
LEMMA SinceGrows ==
    ASSUME InOrder, ~CheckpointDue, processed' = processed + 1
    PROVE  Since \in Nat /\ Since' = Since + 1
  <1>1. processed \in Nat /\ CheckpointEvery \in Nat \ {0}
    BY ConstantsAssumption DEF ConstantsAssumption, InOrder, TypeOK
  <1>2. PICK r \in 0..CheckpointEvery - 1 : r = processed % CheckpointEvery
    BY <1>1, Quotient
  <1>3. Since = r
    BY <1>2 DEF Since, CheckpointDue
  <1>4. processed' % CheckpointEvery = IF r + 1 = CheckpointEvery THEN 0 ELSE r + 1
    BY <1>1, <1>2, NextRemainder
  <1>5. Since' = IF processed' % CheckpointEvery = 0 THEN CheckpointEvery
                                                     ELSE processed' % CheckpointEvery
    BY DEF Since, CheckpointDue
  <1>6. Since' = r + 1
    BY <1>1, <1>2, <1>4, <1>5
  <1> QED
    BY <1>2, <1>3, <1>6

LEMMA SinceIs ==
    ASSUME InOrder
    PROVE  /\ Since \in 1..CheckpointEvery /\ CheckpointEvery \in Nat \ {0}
           /\ ~CheckpointDue => Since < CheckpointEvery
  <1>1. processed \in Nat /\ CheckpointEvery \in Nat \ {0}
    BY ConstantsAssumption DEF ConstantsAssumption, InOrder, TypeOK
  <1>2. PICK r \in 0..CheckpointEvery - 1 : r = processed % CheckpointEvery
    BY <1>1, Quotient
  <1> QED
    BY <1>1, <1>2 DEF Since, CheckpointDue

\* Sets of tasks are finite, and the workers have no more tasks than they are.
LEMMA SetsOfTasks ==
    ASSUME NEW A, NEW B, A \subseteq Tasks, B \subseteq A
    PROVE  /\ IsFiniteSet(A) /\ Cardinality(A) \in Nat
           /\ IsFiniteSet(B) /\ Cardinality(B) \in Nat
           /\ Cardinality(B) <= Cardinality(A)
  <1>1. IsFiniteSet(A)
    BY FS_Subset, ConstantsAssumption DEF ConstantsAssumption
  <1> QED
    BY <1>1, FS_Subset, FS_CardinalityType

LEMMA InHandIs ==
    ASSUME InOrder
    PROVE  /\ InHand \subseteq Tasks
           /\ Cardinality(InHand) \in Nat /\ Cardinality(Workers) \in Nat \ {0}
           /\ Cardinality(InHand) <= Cardinality(Workers)
  <1>1. IsFiniteSet(Workers) /\ Workers # {}
    BY ConstantsAssumption DEF ConstantsAssumption
  <1> DEFINE f == [t \in InHand |-> CHOOSE w \in Workers : wtask[w] = t]
  <1>2. \A t \in InHand : f[t] \in Workers /\ wtask[f[t]] = t
    BY DEF InHand
  <1>3. f \in [InHand -> Workers]
    BY <1>2
  <1> HIDE DEF f
  <1>4. f \in Injection(InHand, Workers)
    BY <1>2, <1>3 DEF Injection, IsInjective
  <1>5. Cardinality(InHand) <= Cardinality(Workers)
    BY <1>1, <1>4, FS_Injection
  <1>6. InHand \subseteq Tasks
    BY DEF InHand
  <1>7. Cardinality(Workers) \in Nat /\ Cardinality(Workers) # 0
    BY <1>1, FS_CardinalityType, FS_EmptySet
  <1> QED
    BY <1>5, <1>6, <1>7, SetsOfTasks

\* Saved books lose nothing.
LEMMA SavedIsKept ==
    ASSUME SaveCheckpoint
    PROVE  Unsaved' = {} /\ \A t : results'[t] = ckptRes'[t]
  BY DEF SaveCheckpoint, Unsaved

LEMMA ChainKeepsLossless ==
    ASSUME PhaseOrder # <<>>, InOrder, Lossless, NEW w \in Workers, ChainStep(w) \/ TimeOut(w)
    PROVE  Lossless'
  <1>0. NoWorker \notin Workers /\ pc \in [Workers -> {"new", "idle", "enter", "lemma", "phase",
                                                       "recheck", "return", "stopped"}]
    BY ConstantsAssumption DEF ConstantsAssumption, InOrder, TypeOK
  <1>1. ChainEffect(w) /\ Busy(w) /\ pc[w] # "return" /\ MayRun(w)
    BY ChainEffects DEF InOrder
  <1>2. /\ mode = "working"
        /\ UNCHANGED <<mode, started, processed, results, queue, wtask, shutdown, ckptRes>>
    BY <1>1 DEF ChainEffect, UnchangedByChain, runVars, stopVars, ckptVars, Busy, InOrder,
                OneWorkerPerTask, WorkersInOrder
  <1>3. Unsaved' = Unsaved /\ InHand' = InHand /\ Since' = Since /\ CheckpointDue' = CheckpointDue
    BY <1>2 DEF Unsaved, InHand, Since, CheckpointDue
  <1>4. \A v \in Workers : /\ v # w => pc'[v] = pc[v]
                           /\ pc'[w] \in {"lemma", "phase", "recheck", "return"}
                           /\ pc[v] # "idle"
    <2>1. ASSUME NEW v \in Workers, pc[v] = "idle" PROVE FALSE
      <3>1. turn = v /\ v # w
        BY <1>1, <2>1 DEF Lossless, Busy
      <3> QED
        BY <1>0, <1>1, <3>1 DEF MayRun, LoopIsFree
    <2> QED
      BY <1>1, <2>1 DEF ChainEffect
  <1>5. ASSUME NEW v \in Workers, pc'[v] = "new"
        PROVE  /\ Unsaved' = {}
               /\ \A u \in Workers : pc'[u] \in {"new", "enter", "lemma", "phase", "stopped"}
    <2>1. pc[v] = "new" /\ v # w
      BY <1>4, <1>5
    <2>2. turn = w /\ ~LoopIsFree
      BY <1>1, <2>1 DEF MayRun, LoopIsFree
    <2>3. pc[w] = "enter" /\ BeginChain(w)
      <3>1. ~TimeOut(w) /\ ~LemmaVerdict(w) /\ ~PhaseEnds(w) /\ ~RecheckVerdict(w)
        BY <2>2 DEF TimeOut, LemmaVerdict, PhaseEnds, RecheckVerdict
      <3> QED
        BY <3>1 DEF ChainStep, BeginChain
    <2>4. ~shutdown
      BY <2>2, <2>3 DEF Lossless
    <2>5. 1 <= Len(PhaseOrder)
      BY ConstantsAssumption DEF ConstantsAssumption
    <2>6. pc'[w] \in {"lemma", "phase"}
      <3>1. CASE pc' = [pc EXCEPT ![w] = "lemma"]
        BY <1>0, <3>1
      <3>2. CASE EnterPhase(w, 1, FALSE)
        <4>1. Len(PhaseOrder) \in Nat
          BY ConstantsAssumption DEF ConstantsAssumption
        <4>2. pc' = [pc EXCEPT ![w] = "phase"]
          BY <2>4, <2>5, <3>2, <4>1 DEF EnterPhase
        <4> QED
          BY <1>0, <4>2
      <3> QED
        BY <2>3, <3>1, <3>2 DEF BeginChain
    <2> QED
      BY <1>3, <1>4, <2>1, <2>6 DEF Lossless
  <1>6. \A v \in Workers : pc'[v] = "enter" => turn' # v
    BY <1>0, <1>1, <1>4 DEF ChainEffect, SameTurn
  <1> QED
    BY <1>2, <1>3, <1>4, <1>5, <1>6 DEF Lossless

LEMMA TakeKeepsLossless ==
    ASSUME InOrder, Lossless, NEW w \in Workers, Take(w)
    PROVE  Lossless'
  <1>0. /\ NoWorker \notin Workers /\ queue \subseteq Tasks /\ started \subseteq Tasks
        /\ wtask \in [Workers -> Tasks \cup {NoTask}]
        /\ pc \in [Workers -> {"new", "idle", "enter", "lemma", "phase", "recheck", "return",
                               "stopped"}]
    BY ConstantsAssumption DEF ConstantsAssumption, InOrder, TypeOK
  <1>1. PICK t \in queue :
           /\ queue' = queue \ {t}
           /\ started' = started \cup {t}
           /\ wtask' = [wtask EXCEPT ![w] = t]
    BY DEF Take, Popped
  <1>2. /\ processed' = processed + 1 /\ pc' = [pc EXCEPT ![w] = "enter"]
        /\ mode = "working" /\ ~shutdown
        /\ pc[w] = "new" \/ (pc[w] = "idle" /\ turn = w)
        /\ UNCHANGED <<mode, results, shutdown, ckptRes>>
    BY DEF Take, AtLoopHead, stopVars, ckptVars
  <1>3. t \in Tasks /\ results[t] = ckptRes[t]
    BY <1>0 DEF Lossless
  <1>4. Unsaved' = Unsaved /\ InHand' = InHand \cup {t}
    <2>1. Unsaved' = Unsaved
      BY <1>1, <1>2, <1>3 DEF Unsaved
    <2>2. wtask[w] \notin Tasks
      BY <1>2 DEF InOrder, OneWorkerPerTask, WorkersInOrder, Busy
    <2>3. \A u \in Tasks : (\E v \in Workers : wtask'[v] = u)
                               <=> (\E v \in Workers : wtask[v] = u) \/ u = t
      BY <1>0, <1>1, <1>3, <2>2
    <2> QED
      BY <1>3, <2>1, <2>3 DEF InHand
  <1>5. ASSUME NEW v \in Workers, v # w PROVE pc[v] # "idle" /\ pc'[v] = pc[v]
    <2>1. pc[w] = "new" => pc[v] # "idle"
      BY DEF Lossless
    <2>2. pc[w] = "idle" => pc[v] # "idle"
      BY <1>5 DEF Lossless
    <2> QED
      BY <1>0, <1>2, <1>5, <2>1, <2>2
  <1>6. ASSUME NEW v \in Workers, pc'[v] = "new"
        PROVE  /\ Unsaved' = {}
               /\ \A u \in Workers : pc'[u] \in {"new", "enter", "lemma", "phase", "stopped"}
    <2>1. v # w /\ pc[v] = "new"
      BY <1>0, <1>2, <1>6
    <2> QED
      BY <1>0, <1>2, <1>4, <2>1 DEF Lossless
  <1>7. Unsaved' = {} \/ Cardinality(Unsaved' \cup InHand') <= Cardinality(Workers) - 1 + Since'
    <2>1. CASE Unsaved = {}
      BY <1>4, <2>1
    <2>2. CASE Unsaved # {}
      <3>1. ~CheckpointDue
        BY <1>2, <2>2 DEF Lossless
      <3>2. Since \in Nat /\ Since' = Since + 1
        BY <1>2, <3>1, SinceGrows
      <3> DEFINE A == Unsaved \cup InHand
      <3>3. A \subseteq Tasks
        BY <1>0 DEF Unsaved, InHand
      <3>4. Cardinality(A) <= Cardinality(Workers) - 1 + Since
        BY <2>2 DEF Lossless
      <3>5. Unsaved' \cup InHand' = A \cup {t}
        BY <1>4
      <3> HIDE DEF A
      <3>6. IsFiniteSet(A) /\ Cardinality(A) \in Nat
        BY <3>3, SetsOfTasks
      <3>7. Cardinality(A \cup {t}) <= Cardinality(A) + 1
        <4>1. Cardinality(A \cup {t}) = IF t \in A THEN Cardinality(A) ELSE Cardinality(A) + 1
          BY <3>6, FS_AddElement
        <4> QED
          BY <3>6, <4>1
      <3>8. Cardinality(A \cup {t}) \in Nat
        BY <1>3, <3>3, SetsOfTasks
      <3>9. Cardinality(Workers) \in Nat
        BY InHandIs
      <3>10. PICK n \in Nat : n = Cardinality(Workers) - 1 + (Since + 1)
        BY <3>2, <3>9, InHandIs
      <3>11. Cardinality(A \cup {t}) <= n
        BY <3>2, <3>4, <3>6, <3>7, <3>8, <3>9, <3>10
      <3>12. Cardinality(Workers) - 1 + Since' = n
        BY <3>2, <3>10
      <3> QED
        BY <3>5, <3>11, <3>12
    <2> QED
      BY <2>1, <2>2
  <1>8. \A u \in queue' \cup InHand' : results'[u] = ckptRes'[u]
    BY <1>1, <1>2, <1>3, <1>4 DEF Lossless
  <1>9. pc'[w] = "enter" /\ InHand' # {}
    BY <1>0, <1>2, <1>4
  <1> QED
    BY <1>2, <1>5, <1>6, <1>7, <1>8, <1>9 DEF Lossless

LEMMA LeavingKeepsLossless ==
    ASSUME InOrder, Lossless, NEW w \in Workers,
           TakeTooLate(w) \/ TakeSentinel(w) \/ StopEarly(w)
    PROVE  Lossless'
  <1>0. /\ NoWorker \notin Workers
        /\ pc \in [Workers -> {"new", "idle", "enter", "lemma", "phase", "recheck", "return",
                               "stopped"}]
    BY ConstantsAssumption DEF ConstantsAssumption, InOrder, TypeOK
  <1>1. /\ queue' \subseteq queue /\ pc' = [pc EXCEPT ![w] = "stopped"] /\ turn' = NoWorker
        /\ pc[w] = "new" \/ (pc[w] = "idle" /\ turn = w)
        /\ UNCHANGED <<mode, started, processed, results, wtask, shutdown, ckptRes>>
    BY DEF TakeTooLate, Popped, TakeSentinel, StopEarly, Stop, AtLoopHead, runVars, bookVars,
           stopVars, ckptVars
  <1>2. Unsaved' = Unsaved /\ InHand' = InHand /\ Since' = Since /\ CheckpointDue' = CheckpointDue
    BY <1>1 DEF Unsaved, InHand, Since, CheckpointDue
  <1>3. ASSUME NEW v \in Workers, v # w PROVE pc[v] # "idle" /\ pc'[v] = pc[v]
    <2>1. pc[w] = "new" => pc[v] # "idle"
      BY DEF Lossless
    <2>2. pc[w] = "idle" => pc[v] # "idle"
      BY <1>3 DEF Lossless
    <2> QED
      BY <1>0, <1>1, <1>3, <2>1, <2>2
  <1>4. pc'[w] = "stopped"
    BY <1>0, <1>1
  <1>5. \A v \in Workers : pc'[v] # "idle"
    BY <1>3, <1>4
  <1>6. ASSUME NEW v \in Workers, pc'[v] = "new"
        PROVE  /\ Unsaved' = {}
               /\ \A u \in Workers : pc'[u] \in {"new", "enter", "lemma", "phase", "stopped"}
    <2>1. v # w /\ pc[v] = "new"
      BY <1>3, <1>4, <1>6
    <2> QED
      BY <1>2, <1>3, <1>4, <2>1 DEF Lossless
  <1> QED
    BY <1>0, <1>1, <1>2, <1>5, <1>6 DEF Lossless

LEMMA AccountKeepsLossless ==
    ASSUME InOrder, InFlight, Lossless, NEW w \in Workers, Account(w)
    PROVE  Lossless'
  <1>0. /\ NoWorker \notin Workers /\ NoTask \notin Tasks /\ started \subseteq Tasks
        /\ wtask \in [Workers -> Tasks \cup {NoTask}] /\ results \in [Tasks -> Results]
        /\ pc \in [Workers -> {"new", "idle", "enter", "lemma", "phase", "recheck", "return",
                               "stopped"}]
        /\ \A v \in Workers : wtask[v] \in Tasks /\ v # w => wtask[v] # wtask[w]
    BY ConstantsAssumption DEF ConstantsAssumption, InOrder, TypeOK, OneWorkerPerTask
  <1>1. /\ wtask[w] \in Tasks \ queue /\ pc[w] = "return" /\ mode = "working" /\ MayRun(w)
        /\ UNCHANGED <<mode, started, processed, queue, shutdown>>
        /\ pc' = [pc EXCEPT ![w] = "idle"] /\ turn' = w
        /\ wtask' = [wtask EXCEPT ![w] = NoTask]
        /\ IF CheckpointDue THEN SaveCheckpoint ELSE UNCHANGED ckptVars
        /\ \E st, r : Book(w, st, r)
    BY AccountEffect DEF runVars, stopVars
  <1>2. CheckpointDue' = CheckpointDue /\ Since' = Since
    BY <1>1 DEF CheckpointDue, Since
  <1>3. \A t \in Tasks : t # wtask[w] => results'[t] = results[t]
    BY <1>0, <1>1 DEF Book
  <1>4. InHand' = InHand \ {wtask[w]} /\ wtask[w] \in InHand
    <2>1. \A u \in Tasks : (\E v \in Workers : wtask'[v] = u)
                               <=> (\E v \in Workers : wtask[v] = u) /\ u # wtask[w]
      BY <1>0, <1>1
    <2> QED
      BY <1>1, <2>1 DEF InHand
  <1>5. \A v \in Workers : pc[v] \notin {"idle", "new"}
    <2>1. ASSUME NEW v \in Workers, pc[v] = "idle" PROVE FALSE
      <3>1. turn = v /\ v # w
        BY <1>1, <2>1 DEF Lossless
      <3> QED
        BY <1>0, <1>1, <3>1 DEF MayRun, LoopIsFree
    <2> QED
      BY <1>1, <2>1 DEF Lossless
  <1>6. \A v \in Workers : /\ pc'[v] = "idle" => v = w
                           /\ pc'[v] # "new"
                           /\ pc'[v] = "enter" => turn' # v
    BY <1>0, <1>1, <1>5
  <1>7. CASE CheckpointDue
    BY <1>1, <1>2, <1>6, <1>7, SavedIsKept DEF Lossless
  <1>8. CASE ~CheckpointDue
    <2>1. UNCHANGED ckptRes
      BY <1>1, <1>8 DEF ckptVars
    <2>2. \A t \in queue' \cup InHand' : results'[t] = ckptRes'[t]
      <3>1. queue \subseteq Tasks /\ InHand \subseteq Tasks
        BY DEF InOrder, TypeOK, InHand
      <3> QED
        BY <1>1, <1>3, <1>4, <2>1, <3>1 DEF Lossless
    <2>3. Unsaved' \cup InHand' \subseteq Unsaved \cup InHand
      BY <1>0, <1>1, <1>3, <1>4, <2>1 DEF Unsaved
    <2>4. Unsaved' = {} \/ Cardinality(Unsaved' \cup InHand') <= Cardinality(Workers) - 1 + Since'
      <3> DEFINE A == Unsaved \cup InHand
                 B == Unsaved' \cup InHand'
      <3>1. A \subseteq Tasks /\ B \subseteq A
        BY <1>0, <2>3 DEF Unsaved, InHand
      <3>2. A = Unsaved \cup InHand /\ B = Unsaved' \cup InHand'
        OBVIOUS
      <3> HIDE DEF A, B
      <3>3. Cardinality(A) \in Nat /\ Cardinality(B) \in Nat /\ Cardinality(B) <= Cardinality(A)
        BY <3>1, SetsOfTasks
      <3>4. Since \in Nat \ {0}
        BY SinceIs
      <3>5. /\ Cardinality(InHand) \in Nat /\ Cardinality(Workers) \in Nat
            /\ Cardinality(InHand) <= Cardinality(Workers)
        BY InHandIs
      <3>6. Cardinality(A) <= Cardinality(Workers) - 1 + Since
        <4>1. CASE Unsaved = {}
          <5>1. A = InHand
            BY <3>2, <4>1
          <5> QED
            BY <3>4, <3>5, <5>1
        <4>2. CASE Unsaved # {}
          BY <3>2, <4>2 DEF Lossless
        <4> QED
          BY <4>1, <4>2
      <3>7. Cardinality(B) <= Cardinality(Workers) - 1 + Since
        BY <3>3, <3>4, <3>5, <3>6
      <3> QED
        BY <1>2, <3>2, <3>7
    <2> QED
      BY <1>1, <1>2, <1>6, <1>8, <2>2, <2>4 DEF Lossless
  <1> QED
    BY <1>7, <1>8

LEMMA StartKeepsLossless ==
    ASSUME InOrder, ResumeModes = {TRUE}, NEW S \in TaskSets, NEW resume \in ResumeModes,
           Start(S, resume)
    PROVE  Lossless'
  <1> DEFINE merged == IF resume THEN ckptRes ELSE [t \in Tasks |-> NoResult]
             loaded == [t \in Tasks |-> IF t \in S THEN Resumed(t, resume) ELSE Fresh]
             pending == {t \in S : loaded[t].status \notin TerminalSkip}
             due == {t \in pending : loaded[t].esc >= EscalationThreshold}
  <1>0. resume = TRUE /\ S \subseteq Tasks
    BY ConstantsAssumption DEF ConstantsAssumption
  <1>1. PICK axioms \in SUBSET due :
          results' = [t \in Tasks |->
                CASE t \in axioms       -> Failure("MARKED_AXIOM")
                  [] t \in due \ axioms -> Failure("FAILED_ALL")
                  [] OTHER              -> merged[t]]
    BY DEF Start
  <1>2. /\ queue' = pending \ due /\ started' = {}
        /\ UNCHANGED <<pc, wtask, ckptRes>> /\ mode \in {"down", "finished"}
    BY DEF Start, workVars, ckptVars
  <1>3. pending \subseteq Tasks /\ merged = ckptRes
    BY <1>0
  <1> HIDE DEF merged, loaded, pending, due
  <1>4. \A t \in queue' : results'[t] = ckptRes'[t]
    BY <1>1, <1>2, <1>3
  <1>5. \A w \in Workers : pc'[w] = "stopped" /\ wtask'[w] \notin Tasks
    BY <1>2 DEF InOrder, OneWorkerPerTask, WorkersInOrder, Busy
  <1>6. InHand' = {} /\ Unsaved' = {}
    BY <1>2, <1>5 DEF InHand, Unsaved
  <1> QED
    BY <1>2, <1>4, <1>5, <1>6 DEF Lossless

LEMMA RunKeepsLossless ==
    ASSUME InOrder, Lossless, RunStep \/ Signal \/ WallClockExpires \/ Crash
    PROVE  Lossless'
  <1>0. NoWorker \notin Workers /\ NoTask \notin Tasks
    BY ConstantsAssumption DEF ConstantsAssumption
  <1>1. CASE LaunchWorkers
    <2>1. /\ UNCHANGED <<started, processed, results, queue, wtask, ckptRes>>
          /\ mode = "planning" /\ mode' = "working"
          /\ \A w \in Workers : pc'[w] = "new"
      BY <1>1 DEF LaunchWorkers, runVars, bookVars, ckptVars
    <2>2. InHand' = InHand /\ Unsaved' = {}
      BY <2>1 DEF InHand, Unsaved, Lossless
    <2> QED
      BY <2>1, <2>2 DEF Lossless
  <1>2. CASE EmergencySave \/ Finish
    <2>1. /\ UNCHANGED <<started, processed, wtask, shutdown, turn, pc>>
          /\ mode' = "planning" => mode = "planning"
          /\ SaveCheckpoint
      BY <1>2 DEF EmergencySave, Finish, runVars, stopVars, workVars
    <2>2. Unsaved' = {} /\ \A t : results'[t] = ckptRes'[t]
      BY <2>1, SavedIsKept
    <2> QED
      BY <2>1, <2>2 DEF Lossless
  <1>3. CASE Drain \/ WallClockExpires
    <2>1. /\ UNCHANGED <<started, processed, results, wtask, shutdown, turn, pc, ckptRes>>
          /\ mode' = "planning" => mode = "planning"
          /\ queue' \subseteq queue
      BY <1>3 DEF Drain, WallClockExpires, runVars, bookVars, stopVars, workVars, ckptVars
    <2>2. Unsaved' = Unsaved /\ InHand' = InHand /\ Since' = Since /\ CheckpointDue' = CheckpointDue
      BY <2>1 DEF Unsaved, InHand, Since, CheckpointDue
    <2> QED
      BY <2>1, <2>2 DEF Lossless
  <1>4. CASE Signal
    <2>1. /\ UNCHANGED <<mode, started, processed, results, queue, wtask, turn, pc, ckptRes>>
          /\ turn = NoWorker
      BY <1>4 DEF Signal, LoopIsFree, runVars, bookVars, workVars, ckptVars
    <2>2. Unsaved' = Unsaved /\ InHand' = InHand /\ Since' = Since /\ CheckpointDue' = CheckpointDue
      BY <2>1 DEF Unsaved, InHand, Since, CheckpointDue
    <2> QED
      BY <1>0, <2>1, <2>2 DEF Lossless
  <1>5. CASE Crash
    <2>1. /\ started' = {} /\ queue' = {} /\ mode' = "down"
          /\ \A w \in Workers : pc'[w] = "stopped" /\ wtask'[w] = NoTask
      BY <1>5 DEF Crash
    <2>2. InHand' = {} /\ Unsaved' = {}
      BY <1>0, <2>1 DEF InHand, Unsaved
    <2> QED
      BY <2>1, <2>2 DEF Lossless
  <1> QED
    BY <1>1, <1>2, <1>3, <1>4, <1>5 DEF RunStep

LEMMA NextKeepsLossless ==
    ASSUME PhaseOrder # <<>>, ResumeModes = {TRUE}, InOrder, InFlight, Lossless, [Next]_vars
    PROVE  Lossless'
  <1>1. ASSUME UNCHANGED <<mode, started, processed, results, queue, wtask, shutdown, turn, pc,
                           ckptRes>>
        PROVE  Lossless'
    <2>1. Unsaved' = Unsaved /\ InHand' = InHand /\ Since' = Since /\ CheckpointDue' = CheckpointDue
      BY <1>1 DEF Unsaved, InHand, Since, CheckpointDue
    <2> QED
      BY <1>1, <2>1 DEF Lossless
  <1>2. ASSUME NEW w \in Workers, LearnLemma(w)
        PROVE  Lossless'
    BY <1>1, <1>2 DEF LearnLemma, UnchangedByChain, runVars, stopVars, ckptVars
  <1>3. CASE UNCHANGED vars
    BY <1>1, <1>3 DEF vars, runVars, bookVars, stopVars, workVars, ckptVars
  <1> QED
    BY <1>2, <1>3, ChainKeepsLossless, TakeKeepsLossless, LeavingKeepsLossless,
       AccountKeepsLossless, StartKeepsLossless, RunKeepsLossless
    DEF Next, WorkerStep, LoopHead, Interruption

\* A crash loses few results, for every interval and number of workers: when every run
\* resumes, and strategies have a phase to run, the results that are booked and not saved are
\* always fewer than the interval plus one for each other worker.
THEOREM LossIsBounded ==
    ASSUME PhaseOrder # <<>>, ResumeModes = {TRUE}
    PROVE  Spec => []BoundedLoss
  <1>1. Init => InOrder /\ InFlight /\ Lossless
    <2>1. ASSUME Init PROVE Lossless
      <3>1. /\ started = {} /\ queue = {} /\ NoTask \notin Tasks
            /\ \A w \in Workers : pc[w] = "stopped" /\ wtask[w] = NoTask
        BY <2>1, ConstantsAssumption DEF ConstantsAssumption, Init
      <3>2. InHand = {} /\ Unsaved = {}
        BY <3>1 DEF InHand, Unsaved
      <3> QED
        BY <3>1, <3>2 DEF Lossless
    <2> QED
      BY <2>1, InitInOrder, InitInFlight
  <1>2. InOrder /\ InFlight /\ Lossless /\ [Next]_vars => (InOrder /\ InFlight /\ Lossless)'
    BY NextInOrder, NextInFlight, NextKeepsLossless
  <1>3. InOrder /\ Lossless => BoundedLoss
    <2> SUFFICES ASSUME InOrder, Lossless PROVE BoundedLoss
      OBVIOUS
    <2>1. Since \in 1..CheckpointEvery /\ CheckpointEvery \in Nat \ {0}
          /\ (~CheckpointDue => Since < CheckpointEvery)
      BY SinceIs
    <2>2. /\ Cardinality(InHand) \in Nat /\ Cardinality(Workers) \in Nat \ {0}
      BY InHandIs
    <2> DEFINE A == Unsaved \cup InHand
    <2>3. A \subseteq Tasks /\ Unsaved \subseteq A /\ InHand \subseteq A /\ Unsaved \cap InHand = {}
      BY DEF Unsaved, InHand, Lossless, InOrder, TypeOK
    <2>4. /\ IsFiniteSet(Unsaved) /\ IsFiniteSet(InHand)
          /\ Cardinality(Unsaved) \in Nat /\ Cardinality(A) \in Nat
      BY <2>3, SetsOfTasks
    <2>5. Cardinality(A) = Cardinality(Unsaved) + Cardinality(InHand)
      <3>1. Cardinality(Unsaved \cap InHand) = 0
        BY <2>3, FS_EmptySet, Zenon
      <3>2. Cardinality(A)
              = Cardinality(Unsaved) + Cardinality(InHand) - Cardinality(Unsaved \cap InHand)
        BY <2>4, FS_Union
      <3> QED
        BY <2>2, <2>4, <3>1, <3>2
    <2> HIDE DEF A
    <2>6. CASE Unsaved = {}
      <3>1. Cardinality(Unsaved) = 0
        BY <2>6, FS_EmptySet, Zenon
      <3> QED
        BY <2>1, <2>2, <3>1 DEF BoundedLoss, Unsaved
    <2>7. CASE Unsaved # {}
      <3>1. Cardinality(A) <= Cardinality(Workers) - 1 + Since
        BY <2>7 DEF A, Lossless
      <3>2. Cardinality(Unsaved) < CheckpointEvery + Cardinality(Workers) - 1
        <4>1. CASE InHand = {}
          <5>1. ~CheckpointDue /\ Cardinality(InHand) = 0
            BY <2>4, <2>7, <4>1, FS_EmptySet DEF Lossless
          <5> QED
            BY <2>1, <2>2, <2>4, <2>5, <3>1, <5>1
        <4>2. CASE InHand # {}
          <5>1. Cardinality(InHand) # 0
            BY <2>4, <4>2, FS_EmptySet
          <5> QED
            BY <2>1, <2>2, <2>4, <2>5, <3>1, <5>1
        <4> QED
          BY <4>1, <4>2
      <3> QED
        BY <3>2 DEF BoundedLoss, Unsaved
    <2> QED
      BY <2>6, <2>7
  <1> QED
    BY <1>1, <1>2, <1>3, PTL DEF Spec
=============================================================================
