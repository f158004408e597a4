------------------------------ MODULE MCAgents ------------------------------
(* A task keeps the strategy it began with, and its search is over before its agentic     *)
(* phase begins: the three share no state while they run, so the run takes each alone.     *)
(* Earlier runs have left at most one proof in the lemma cache.                            *)
EXTENDS Axprover, TacticSearch, StrategyControl

SearchReports == {-1, 0, 1}
KnobRanges == [depth |-> <<2, 6>>, width |-> <<1, 4>>, share |-> <<0, 6>>]
Standard == [depth |-> 4, width |-> 2, share |-> 3]
OutOfRange == [depth |-> 1, width |-> 5, share |-> 3]
Bases == {Standard, OutOfRange}
SearchShapes == {<<2, 2, 3>>, <<2, 1, 6>>, <<3, 1, 3>>}

VARIABLE part

mcVars == <<part, agentVars, searchVars, strategyVars>>

Init ==
    /\ part \in {"strategy", "search", "agentic"}
    /\ StrategyInit /\ SearchInit /\ AgentInit
    /\ part # "strategy" => strategy = Standard
    /\ part # "search" => shape = <<2, 1, 6>>
    /\ part # "agentic" => \A g \in Goals : cache[g] = None
    /\ Cardinality({g \in Goals : cache[g] # None}) <= 1

Next ==
    \/ part = "strategy" /\ StrategyNext /\ UNCHANGED <<part, agentVars, searchVars>>
    \/ part = "search" /\ SearchNext /\ UNCHANGED <<part, agentVars, strategyVars>>
    \/ part = "agentic" /\ AgentNext /\ UNCHANGED <<part, searchVars, strategyVars>>

Spec == Init /\ [][Next]_mcVars
Alike == Permutations(Subgoals) \cup Permutations(Proofs) \cup Permutations(Tactics)

\* The types of the three loops, and what their rounds hand to each other: lemmas that were
\* proved in this attempt, fresh lessons, and no end before its time.
LoopsInOrder ==
    /\ AgentTypeOK /\ SearchTypeOK /\ StrategyTypeOK
    /\ SlotsAreProved /\ FeedbackIsFresh /\ GivesUpLate

\* Neither loop asks the prover or the verifier for more than its strategy allows.
BudgetsAreKept == AsksAreBounded /\ SearchStaysInBudget
=============================================================================
