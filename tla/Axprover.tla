------------------------------ MODULE Axprover ------------------------------
(***************************************************************************)
(* The agentic loop of engine/axprover.py with the critic of               *)
(* engine/agents.py and the decomposer (Apollo) as its subroutine: cached  *)
(* proof first, then rounds of propose, verify, review; lessons for the    *)
(* next round; one decomposition after two failures; a new plan when the   *)
(* rounds bring no improvement, and an end when there are no plans left.   *)
(* The per-task time budget may cancel it anywhere; the lemma cache stays. *)
(***************************************************************************)
EXTENDS Apollo

CONSTANTS
    MaxIters,    \* strategy.agentic_max_iterations: the values tried
    Patience,    \* cfg.agentic_stall_patience
    ReplanMax,   \* cfg.replan_max
    MaxLessons,  \* _MAX_LESSONS
    Sorries,     \* remaining_sorries the verifier may report; -1: it does not say
    MaxSolves,   \* bound: solves in a run, one after the other
    Unbuildable  \* bound: the solves, by number, whose isolated files may fail to be built

ASSUME AxproverAssumption ==
    /\ MaxIters \subseteq Nat \ {0} /\ Patience \in Nat \ {0} /\ ReplanMax \in Nat
    /\ MaxLessons \in Nat \ {0} /\ MaxSolves \in Nat /\ Sorries \subseteq Int

VARIABLES
    pc,           \* "idle", "cached", "round", "apollo", "propose", "verify", "review",
                  \* "solved", "failed", "cancelled"
    maxIter, i,   \* iterations of this solve; the loop's counter, from 0
    candidate,    \* the proof under verification or review
    via,          \* "cache", "apollo" or "round": where the candidate comes from
    best,         \* best_remaining, None at first
    lastImprove,  \* last_improve_iter
    consecFail, apolloTried, replans,
    notebook,     \* the lessons, each by the round that brought it
    result,       \* the proof of a success, or None
    approved,     \* history: proofs the critic approved in this solve
    solves        \* history: solves begun

loopVars  == <<i, best, lastImprove, consecFail, replans, notebook>>
solveVars == <<pc, maxIter, builds, loopVars, candidate, via, apolloTried, result, approved,
               solves>>
agentVars == <<apolloVars, solveVars>>

AgentInit ==
    /\ ApolloInit
    /\ pc = "idle" /\ maxIter = 1 /\ i = 0 /\ candidate = None /\ via = "round"
    /\ best = None /\ lastImprove = 0 /\ consecFail = 0 /\ apolloTried = FALSE
    /\ replans = 0 /\ notebook = <<>> /\ result = None /\ approved = {} /\ solves = 0

----------------------------------------------------------------------------
\* The locals of a solve, and its histories, as they are before it begins.
Fresh ==
    /\ i' = 0 /\ best' = None /\ lastImprove' = 0 /\ consecFail' = 0
    /\ apolloTried' = FALSE /\ replans' = 0 /\ notebook' = <<>>
    /\ result' = None /\ approved' = {} /\ via' = "cache"
    /\ stage' = "off" /\ frames' = <<>> /\ proposal' = None
    /\ accepted' = {} /\ asked' = 0

\* solve(): a task with the same goal, after whatever ended the solve before.
Begin(m) ==
    /\ pc \in {"idle", "solved", "failed", "cancelled"} /\ solves < MaxSolves
    /\ solves' = solves + 1 /\ maxIter' = m /\ builds' \in {TRUE, solves' \notin Unbuildable}
    /\ Fresh /\ UNCHANGED cache
    /\ candidate' = cache[Whole]
    /\ pc' = IF cache[Whole] = None THEN "round" ELSE "cached"

\* The proof in hand is given up.
Drops == candidate' = None /\ via' = "round"

\* Mutant: the cached proof is reviewed but not verified.
TakesCached ==
    /\ pc = "cached" /\ pc' = "review"
    /\ UNCHANGED <<maxIter, builds, loopVars, candidate, via, apolloTried, result, approved,
                   solves, apolloVars>>

\* _try_cached_proof: verified again, and reviewed; else the goal is solved afresh.
TryCached ==
    /\ pc = "cached"
    /\ \/ pc' = "review" /\ Accepts(Whole, candidate) /\ UNCHANGED <<candidate, via>>
       \/ pc' = "round" /\ Drops /\ UNCHANGED accepted
    /\ UNCHANGED <<maxIter, builds, loopVars, apolloTried, result, approved, solves,
                   stage, frames, proposal, cache, asked>>

\* Mutant: the oldest lessons stay.
KeepsOldest(notes, n) ==
    LET all == notes \o [j \in 1..n |-> i]
    IN  SubSeq(all, 1, IF Len(all) > MaxLessons THEN MaxLessons ELSE Len(all))
\* _push_lesson: the newest MaxLessons stay.
PushLessons(notes, n) ==
    LET all == notes \o [j \in 1..n |-> i]
        cut == IF Len(all) > MaxLessons THEN Len(all) - MaxLessons ELSE 0
    IN  SubSeq(all, cut + 1, Len(all))

StalledAt(last) == i - last >= Patience

\* The end of a round that failed with one lesson: a new plan if it is time for one and
\* there is one left; over, if there is none; and the loop's own limit.
RoundFails(last) ==
    LET stalled == StalledAt(last)
        replan  == stalled /\ replans < ReplanMax
        over    == (stalled /\ ~replan) \/ i + 1 = maxIter
    IN
    /\ notebook' = PushLessons(notebook, IF replan THEN 2 ELSE 1)
    /\ replans' = IF replan THEN replans + 1 ELSE replans
    /\ lastImprove' = IF replan THEN i ELSE last
    /\ i' = IF over THEN i ELSE i + 1
    /\ pc' = IF over THEN "failed" ELSE "round"
    /\ Drops

\* The head of a round: the decomposition, once, after two failures.
TimeForApollo == ~apolloTried /\ consecFail >= 2

RoundHead ==
    /\ pc = "round"
    /\ IF TimeForApollo
       THEN pc' = "apollo" /\ apolloTried' = TRUE /\ stage' = "skeleton" /\ frames' = <<>>
       ELSE pc' = "propose" /\ UNCHANGED <<apolloTried, stage, frames>>
    /\ UNCHANGED <<maxIter, builds, loopVars, candidate, via, result, approved, solves,
                   proposal, cache, accepted, asked>>

DuringApollo == pc = "apollo" /\ ApolloStep /\ UNCHANGED solveVars

ApolloReturns ==
    /\ pc = "apollo" /\ stage \in {"won", "lost"}
    /\ IF stage = "won"
       THEN pc' = "review" /\ candidate' = proposal /\ via' = "apollo" /\ UNCHANGED notebook
       ELSE pc' = "propose" /\ notebook' = PushLessons(notebook, 1) /\ UNCHANGED <<candidate, via>>
    /\ stage' = "off" /\ frames' = <<>> /\ proposal' = None
    /\ UNCHANGED <<maxIter, builds, i, best, lastImprove, consecFail, replans, apolloTried,
                   result, approved, solves, cache, accepted, asked>>

\* The prover fails, answers with no proof in it, or proposes one.
ProposeFails ==
    /\ pc = "propose" /\ Asks
    /\ consecFail' = consecFail + 1 /\ RoundFails(lastImprove)
    /\ UNCHANGED <<maxIter, builds, best, apolloTried, result, approved, solves,
                   stage, frames, proposal, cache, accepted>>

Propose(p) ==
    /\ pc = "propose" /\ Asks
    /\ candidate' = p /\ via' = "round" /\ pc' = "verify"
    /\ UNCHANGED <<maxIter, builds, loopVars, apolloTried, result, approved, solves,
                   stage, frames, proposal, cache, accepted>>

\* The verifier raises, and reports nothing.
VerifyRaises ==
    /\ pc = "verify"
    /\ consecFail' = consecFail + 1 /\ RoundFails(lastImprove)
    /\ UNCHANGED <<maxIter, builds, best, apolloTried, result, approved, solves, apolloVars>>

Improves(rem) == rem >= 0 /\ (best = None \/ rem < best)
Noted(rem) == best' = IF Improves(rem) THEN rem ELSE best
SinceImproved(rem) == IF Improves(rem) THEN i ELSE lastImprove
FailsSince(rem) == IF Improves(rem) THEN 0 ELSE consecFail

Rejected(rem) ==
    /\ pc = "verify" /\ Noted(rem)
    /\ consecFail' = FailsSince(rem) + 1 /\ RoundFails(SinceImproved(rem))
    /\ UNCHANGED <<maxIter, builds, apolloTried, result, approved, solves, apolloVars>>

Verified(rem) ==
    /\ pc = "verify" /\ Noted(rem)
    /\ consecFail' = FailsSince(rem) /\ lastImprove' = SinceImproved(rem)
    /\ pc' = "review" /\ Accepts(Whole, candidate)
    /\ UNCHANGED <<maxIter, builds, i, replans, notebook, candidate, via, apolloTried, result,
                   approved, solves, stage, frames, proposal, cache, asked>>

\* review_proof: the critic says yes, or its answer is lost or unreadable, which counts as
\* yes.  A proof of a round goes into the cache now; one of the decomposer is there already.
Approve ==
    /\ pc = "review"
    /\ approved' = approved \cup {candidate} /\ result' = candidate /\ pc' = "solved"
    /\ IF via = "round" THEN Caches(Whole, candidate) ELSE UNCHANGED cache
    /\ UNCHANGED <<maxIter, builds, loopVars, candidate, via, apolloTried, solves,
                   stage, frames, proposal, accepted, asked>>

\* The critic says no: a cached proof is dropped, after a decomposition the same round goes
\* on with a proposal, a proposal has cost its round.
Disapprove ==
    /\ pc = "review"
    /\ \/ /\ via = "cache" /\ pc' = "round" /\ Drops
          /\ UNCHANGED loopVars
       \/ /\ via = "apollo" /\ pc' = "propose" /\ Drops
          /\ notebook' = PushLessons(notebook, 1)
          /\ UNCHANGED <<i, best, lastImprove, consecFail, replans>>
       \/ /\ via = "round" /\ consecFail' = consecFail + 1
          /\ RoundFails(lastImprove) /\ UNCHANGED best
    /\ UNCHANGED <<maxIter, builds, apolloTried, result, approved, solves, apolloVars>>

\* The task's time is up, or the run ends: the locals are gone, nothing is returned.
Cancelled ==
    /\ pc \notin {"idle", "solved", "failed", "cancelled"}
    /\ pc' = "cancelled" /\ candidate' = None
    /\ Fresh /\ UNCHANGED <<maxIter, builds, solves, cache>>

Spent == /\ pc \in {"solved", "failed", "cancelled"} /\ solves = MaxSolves
         /\ UNCHANGED agentVars

AgentNext ==
    \/ \E m \in MaxIters : Begin(m)
    \/ TryCached \/ RoundHead \/ DuringApollo \/ ApolloReturns
    \/ ProposeFails \/ (\E p \in Proofs : Propose(p))
    \/ VerifyRaises \/ (\E rem \in Sorries : Rejected(rem) \/ Verified(rem))
    \/ Approve \/ Disapprove \/ Cancelled \/ Spent

AgentSpec == AgentInit /\ [][AgentNext]_agentVars

----------------------------------------------------------------------------
(* Properties                                                              *)

\* The shape of the state.
AgentTypeOK ==
    /\ ApolloTypeOK
    /\ pc \in {"idle", "cached", "round", "apollo", "propose", "verify", "review", "solved",
               "failed", "cancelled"}
    /\ i < maxIter /\ best \in Sorries \cup {None} /\ lastImprove \in 0..i
    /\ consecFail \in 0..maxIter /\ apolloTried \in BOOLEAN /\ replans \in 0..ReplanMax
    /\ Len(notebook) <= MaxLessons
    /\ {candidate, result} \subseteq Proofs \cup {None}
    /\ via \in {"cache", "apollo", "round"}
    /\ (pc \in {"verify", "review"}) => candidate # None

\* A success is returned with a proof that in this solve the verifier accepted for the
\* theorem itself and the critic let pass, whichever of the three ways it came.
SolvedIsEarned ==
    (pc = "solved") = (result # None)
    /\ (result # None => <<Whole, result>> \in accepted /\ result \in approved)

\* The prover is asked at most once a round, and by one decomposition: what a task can cost
\* is bounded by its strategy, however rounds, plans and retries follow each other.
AsksAreBounded ==
    asked <= i + 1 + (IF apolloTried THEN MaxAsked ELSE 0)

\* The loop gives up early only with every plan used and Patience rounds behind the last.
GivesUpLate ==
    pc = "failed" => i + 1 = maxIter \/ (replans = ReplanMax /\ i - lastImprove >= Patience)

\* A round starts with the lesson of the round before it in the notebook.
FeedbackIsFresh ==
    pc \in {"round", "propose"} /\ i > 0 => notebook # <<>> /\ Last(notebook) >= i - 1

\* What is written into the shared cache, at whatever moment the task is stopped, was
\* accepted by the verifier for that goal, or, if the task's isolated files cannot be built
\* (and only for a sub-lemma then), for the theorem of the task.
CacheIsEarned ==
    [][\A g \in Goals : cache'[g] # cache[g] => Earned(g, cache[g])']_agentVars
=============================================================================
