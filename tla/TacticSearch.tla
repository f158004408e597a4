---------------------------- MODULE TacticSearch ----------------------------
(***************************************************************************)
(* The beam search of engine/tactic_search.py: every state of the beam is  *)
(* given to the prover and the explorer for a next tactic, every new proof *)
(* is verified, and the proofs with the fewest remaining sorries make the  *)
(* next beam.  A proof is the sequence of its tactics.  Between proofs of  *)
(* equal rank the length decides, and then the age: here either may.       *)
(***************************************************************************)
EXTENDS Integers, Sequences, FiniteSets, SequencesExt

CONSTANTS
    Tactics,      \* what a reply may propose
    Shapes,       \* <<depth, width, explorer_share in tenths>>
    BudgetFactor, \* _EXPANSION_BUDGET_FACTOR
    Reports       \* remaining_sorries the verifier may report, -1: it does not say

ASSUME TacticSearchAssumption ==
    /\ Shapes \subseteq (Nat \ {0}) \X (Nat \ {0}) \X (0..10)
    /\ BudgetFactor \in Nat \ {0} /\ Reports \subseteq -1..49

VARIABLES
    shape,       \* the strategy of the task
    sought,      \* "propose", "verify", "solved", "failed"
    depth,       \* the tactics in a proof of this round
    beam, at,    \* the states of the round, and the one in hand
    replies,     \* the tactics proposed for it that are still to be tried
    visited,     \* the proofs seen
    expanded,    \* nodes_expanded
    candidates,  \* rank -> proofs, for the next beam
    least,       \* best_remaining, -1 for none
    verified     \* history: the calls of the verifier

searchVars == <<shape, sought, depth, beam, at, replies, visited, expanded, candidates, least,
                verified>>

MaxDepth == shape[1]
Width    == shape[2]
Budget   == MaxDepth * Width * BudgetFactor

\* round(width * share): halves go to the even side.
Rounded(tenths) ==
    LET q == tenths \div 10  r == tenths % 10
    IN  IF r > 5 \/ (r = 5 /\ q % 2 = 1) THEN q + 1 ELSE q

\* The replies asked for one state: the explorer's share, and one of the prover at least.
Asked ==
    LET explorer == Rounded(Width * shape[3])
    IN  explorer + (IF Width > explorer THEN Width - explorer ELSE 1)

Unknown == 50
Ranks == {IF r = -1 THEN Unknown ELSE r : r \in Reports}

SearchInit ==
    /\ shape \in Shapes /\ sought = "propose" /\ depth = 1
    /\ beam = <<<<>>>> /\ at = 1 /\ replies = <<>> /\ visited = {} /\ expanded = 0
    /\ candidates = [r \in Ranks |-> {}] /\ least = -1 /\ verified = 0

----------------------------------------------------------------------------
\* Mutant: the budget is not tested.
NeverStops == at > Len(beam)
\* The head of the inner loop: no more states once the budget is used.
StopsRound == at > Len(beam) \/ expanded >= Budget

\* _propose_next: replies that fail or hold no tactic are left out.
ProposeNext(ts) ==
    /\ sought = "propose" /\ ~StopsRound
    /\ replies' = ts /\ sought' = "verify"
    /\ UNCHANGED <<shape, depth, beam, at, visited, expanded, candidates, least, verified>>

NewProof == Append(beam[at], Head(replies))
Seen == NewProof \in visited

SkipSeen ==
    /\ sought = "verify" /\ replies # <<>> /\ Seen
    /\ replies' = Tail(replies)
    /\ UNCHANGED <<shape, sought, depth, beam, at, visited, expanded, candidates, least, verified>>

Expands ==
    /\ sought = "verify" /\ replies # <<>> /\ ~Seen
    /\ visited' = visited \cup {NewProof} /\ expanded' = expanded + 1
    /\ verified' = verified + 1
    /\ replies' = Tail(replies)

\* The verifier accepts the proof; or raises, which forgets it; or ranks it.
Solves ==
    /\ Expands /\ sought' = "solved"
    /\ UNCHANGED <<shape, depth, beam, at, candidates, least>>

VerifierRaises ==
    /\ Expands
    /\ UNCHANGED <<shape, sought, depth, beam, at, candidates, least>>

Ranked(rem) ==
    LET rank == IF rem = -1 THEN Unknown ELSE rem IN
    /\ Expands
    /\ candidates' = [candidates EXCEPT ![rank] = @ \cup {NewProof}]
    /\ least' = IF rem >= 0 /\ (least = -1 \/ rem < least) THEN rem ELSE least
    /\ UNCHANGED <<shape, sought, depth, beam, at>>

NextState ==
    /\ sought = "verify" /\ replies = <<>>
    /\ at' = at + 1 /\ sought' = "propose"
    /\ UNCHANGED <<shape, depth, beam, replies, visited, expanded, candidates, least, verified>>

Pool == UNION {candidates[r] : r \in Ranks}
RankOf(p) == CHOOSE r \in Ranks : p \in candidates[r]

Cut == IF Cardinality(Pool) < Width THEN Cardinality(Pool) ELSE Width

\* heapq.nsmallest(width, candidates)
AreSmallest(kept) == \A p \in kept, q \in Pool \ kept : RankOf(p) <= RankOf(q)

NextRound(kept) ==
    /\ sought = "propose" /\ StopsRound /\ Pool # {}
    /\ kept \subseteq Pool /\ AreSmallest(kept)
    /\ Cardinality(kept) = Cut
    /\ IF depth = MaxDepth
       THEN sought' = "failed" /\ UNCHANGED <<depth, beam, at, candidates>>
       ELSE /\ \E b \in SetToSeqs(kept) :
                  (\A j \in 1..Len(b) - 1 : RankOf(b[j]) <= RankOf(b[j + 1])) /\ beam' = b
            /\ depth' = depth + 1 /\ at' = 1
            /\ candidates' = [r \in Ranks |-> {}]
            /\ UNCHANGED sought
    /\ UNCHANGED <<shape, replies, visited, expanded, least, verified>>

Exhausted ==
    /\ sought = "propose" /\ StopsRound /\ Pool = {}
    /\ sought' = "failed"
    /\ UNCHANGED <<shape, depth, beam, at, replies, visited, expanded, candidates, least, verified>>

Searched == sought \in {"solved", "failed"} /\ UNCHANGED searchVars

SearchNext ==
    \/ \E ts \in SeqOf(Tactics, Asked) : ProposeNext(ts)
    \/ SkipSeen \/ Solves \/ VerifierRaises \/ (\E rem \in Reports : Ranked(rem))
    \/ NextState \/ (\E kept \in SUBSET Pool : NextRound(kept)) \/ Exhausted \/ Searched

----------------------------------------------------------------------------
\* The types; the beam is not wider than asked, and a round adds one tactic to each proof.
SearchTypeOK ==
    /\ shape \in Shapes /\ sought \in {"propose", "verify", "solved", "failed"}
    /\ depth \in 1..MaxDepth /\ Len(beam) \in 1..Width /\ at \in 1..Len(beam) + 1
    /\ \A j \in DOMAIN beam : Len(beam[j]) = depth - 1
    /\ \A p \in visited : Len(p) <= depth
    /\ least \in Reports \cup {-1}

\* The search pays for a proof once, and overruns its budget by less than one state's
\* replies, wherever the replies of the two roles repeat each other.
SearchStaysInBudget ==
    /\ verified = Cardinality(visited)
    /\ expanded < Budget + Asked
=============================================================================
