--------------------------- MODULE StrategyControl ---------------------------
(***************************************************************************)
(* Who sets the strategy: the orchestrator's plan before the workers start *)
(* and its evaluations while they run, each a question to an LLM that is   *)
(* put with the strategy of that moment and stored when it is answered     *)
(* (engine/agents.py, engine/orchestrator.py).  The share of the explorer  *)
(* is in tenths.                                                           *)
(***************************************************************************)
EXTENDS Integers, Sequences, SequencesExt

CONSTANTS
    Knobs,       \* the names of the integer knobs and of the share
    KnobRange,   \* KnobRange[k]: <<low, high>>, _CLAMP_RANGES and _SHARE_RANGE
    BaseConfigs, \* the strategies the configuration may give
    EvalEvery    \* _EVAL_EVERY_TASKS

ASSUME StrategyControlAssumption ==
    /\ \A k \in Knobs : KnobRange[k] \in Nat \X Nat /\ KnobRange[k][1] <= KnobRange[k][2]
    /\ BaseConfigs \subseteq [Knobs -> Nat] /\ EvalEvery \in Nat \ {0}

VARIABLES
    strategy,   \* self.strategy
    adjusted,   \* self._strategy_adjusted: the workers leave the presets of the tiers
    asking,     \* evaluations underway, in order: the strategy each was put with
    planned,    \* plan() is over and the workers run
    sinceEval,  \* _completed_since_eval
    ended       \* the run is over

strategyVars == <<strategy, adjusted, asking, planned, sinceEval, ended>>

Lo(k) == KnobRange[k][1]
Hi(k) == KnobRange[k][2]
Least(a, b) == IF a < b THEN a ELSE b
Greatest(a, b) == IF a < b THEN b ELSE a

\* _apply_adjustment: the answer is brought into the range, then within one step of the
\* strategy the question was put with.
Adjustment(old, answer) ==
    [k \in Knobs |->
        LET v == Greatest(Lo(k), Least(Hi(k), answer[k]))
        IN  Greatest(old[k] - 1, Least(old[k] + 1, v))]

\* What the LLM may answer: below the range, around the present value, above the range.
\* Answers that are no JSON change nothing, like a value left out.
Answers(old) ==
    {[k \in Knobs |-> CASE d[k] = "low" -> Lo(k) - 1 [] d[k] = "high" -> Hi(k) + 1
                        [] d[k] = "less" -> old[k] - 1 [] d[k] = "same" -> old[k]] :
        d \in [Knobs -> {"low", "less", "same", "high"}]}

StrategyInit ==
    /\ strategy \in BaseConfigs /\ adjusted = FALSE /\ asking = <<>> /\ planned = FALSE
    /\ sinceEval = 0 /\ ended = FALSE

Stores(new) ==
    /\ adjusted' = (adjusted \/ new # strategy)
    /\ strategy' = new

Plan(answer) ==
    /\ ~planned /\ planned' = TRUE
    /\ Stores(Adjustment(strategy, answer))
    /\ UNCHANGED <<asking, sinceEval, ended>>

\* Mutant: evaluations overlap.
AlwaysEvaluates == TRUE
\* A task is done, or ten minutes are over; one evaluation at a time.
MayEvaluate == asking = <<>>

TaskDone(timeIsUp) ==
    /\ planned /\ ~ended
    /\ IF (sinceEval + 1 >= EvalEvery \/ timeIsUp) /\ MayEvaluate
       THEN sinceEval' = 0 /\ asking' = Append(asking, strategy)
       ELSE sinceEval' = Least(sinceEval + 1, EvalEvery) /\ UNCHANGED asking
    /\ UNCHANGED <<strategy, adjusted, planned, ended>>

Evaluated(j, answer) ==
    /\ asking' = RemoveAt(asking, j)
    /\ Stores(Adjustment(asking[j], answer))
    /\ UNCHANGED <<planned, sinceEval, ended>>

\* The run waits 30 s for an evaluation that is still underway.
RunEnds ==
    /\ planned /\ ~ended /\ ended' = TRUE
    /\ UNCHANGED <<strategy, adjusted, asking, planned, sinceEval>>

EvaluationDropped ==
    /\ ended /\ asking # <<>> /\ asking' = <<>>
    /\ UNCHANGED <<strategy, adjusted, planned, sinceEval, ended>>

Settled == ended /\ asking = <<>> /\ UNCHANGED strategyVars

StrategyNext ==
    \/ \E a \in Answers(strategy) : Plan(a)
    \/ \E t \in BOOLEAN : TaskDone(t)
    \/ \E j \in DOMAIN asking : \E a \in Answers(asking[j]) : Evaluated(j, a)
    \/ RunEnds \/ EvaluationDropped \/ Settled

StrategySpec == StrategyInit /\ [][StrategyNext]_strategyVars

----------------------------------------------------------------------------
\* The types: no knob becomes negative, and one evaluation at most is underway.
StrategyTypeOK ==
    /\ \A k \in Knobs : strategy[k] \in Nat
    /\ adjusted \in BOOLEAN /\ planned \in BOOLEAN /\ ended \in BOOLEAN
    /\ sinceEval \in 0..EvalEvery /\ Len(asking) <= 1

Off(k, v) == Greatest(0, Greatest(Lo(k) - v, v - Hi(k)))

\* Whatever the LLM answers and however late, no knob moves by more than one step from the
\* value in force, or further away from its range.
OneStepAtATime ==
    [][\A k \in Knobs : /\ strategy'[k] - strategy[k] \in -1..1
                        /\ Off(k, strategy'[k]) <= Off(k, strategy[k])]_strategyVars
=============================================================================
