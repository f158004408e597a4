----------------------------- MODULE MCPipeline -----------------------------
(* Instances of Pipeline for TLC. *)
EXTENDS Pipeline, TLC
CONSTANTS t1, t2, t3, t4, t5, w1, w2, p1, p2, g1

\* Two tasks with the same goal.  In their contexts p1 proves both and p2 only
\* the first, so that a proof from the lemma cache may be wrong for the second.
TwoTasks   == {t1, t2}
SameGoal   == [t \in TwoTasks |-> g1]
TwoAccepts == [t \in TwoTasks |-> IF t = t1 THEN {p1, p2} ELSE {p1}]
TwoRank    == [t \in TwoTasks |-> IF t = t1 THEN 1 ELSE 2]
ShortChain == <<"rfl", "direct">>
WithAgents == <<"rfl", "agentic">>
AllTasks   == {TwoTasks}
WithoutSecond == {TwoTasks, {t1}}

\* Five tasks that nothing proves: only the counting of results matters.
FiveTasks   == {t1, t2, t3, t4, t5}
NoGoals     == [t \in FiveTasks |-> NoGoal]
NoneAccepts == [t \in FiveTasks |-> {}]
FiveRank    == t1 :> 1 @@ t2 :> 2 @@ t3 :> 3 @@ t4 :> 4 @@ t5 :> 5
OnePhase    == <<"direct">>
AllFive     == {FiveTasks}

WorkerSymmetry == Permutations(Workers)
=============================================================================
