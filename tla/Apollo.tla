------------------------------- MODULE Apollo -------------------------------
(***************************************************************************)
(* The decomposer of engine/decompose.py: asks the prover for a skeleton   *)
(* of sub-lemmas, proves them one after the other, each verified alone,    *)
(* takes a stubborn one apart once more, puts the proof together, has the  *)
(* whole verified, and records what was accepted in the lemma cache that   *)
(* all workers share.                                                      *)
(*                                                                         *)
(* A proof is a name.  What the prover writes and what the verifier thinks *)
(* of it are left open: a verdict also depends on the sub-lemmas proved    *)
(* before, which an isolated file repeats, and may be lost to a timeout.   *)
(* Where no isolated file can be built the proof of a sub-lemma is tried   *)
(* at the task's own hole instead, and taken if it fits there.             *)
(***************************************************************************)
EXTENDS Integers, Sequences, FiniteSets, SequencesExt

CONSTANTS
    Subgoals,      \* what a skeleton may ask to prove
    Proofs,        \* what the prover may write
    Whole,         \* the goal of the task
    None,
    MaxSublemmas,  \* cfg.apollo_max_sublemmas
    Retries,       \* cfg.apollo_sublemma_retries
    Recursive      \* cfg.apollo_recursive

ASSUME ApolloAssumption ==
    /\ MaxSublemmas \in Nat \ {0} /\ Retries \in Nat /\ Recursive \in BOOLEAN
    /\ Whole \notin Subgoals /\ None \notin Proofs

VARIABLES
    stage,     \* "off", "skeleton", "lookup", "direct", "deeper", "close", "assemble",
               \* "won", "lost"
    frames,    \* the skeletons under work, the outer one first:
               \* [slots: goals, done: their proofs so far, tries: direct attempts]
    proposal,  \* the proof of the theorem that attempt() returns
    cache,     \* the lemma cache: goal -> proof or None
    builds,    \* this task's files and name let every isolated file be built; constant
               \* during an attempt
    accepted,  \* history: <<goal, proof>> pairs the verifier accepted, alone or whole
    asked      \* history: proofs and skeletons asked of the prover for this task

apolloVars == <<stage, frames, proposal, cache, accepted, asked>>

Goals     == Subgoals \cup {Whole}
Attempts  == IF Retries = 0 THEN 1 ELSE Retries
Skeletons == SeqOf(Subgoals, MaxSublemmas) \ {<<>>}
Frame(s)  == [slots |-> s, done |-> <<>>, tries |-> 0]

Depth == Len(frames) - 1
Top   == Last(frames)
Goal  == Top.slots[Len(Top.done) + 1]
WithTop(f) == Front(frames) \o <<f>>

Asks     == asked' = asked + 1
Fails    == stage' = "lost" /\ UNCHANGED <<frames, proposal>>
Caches(g, p) == cache' = [cache EXCEPT ![g] = p]

\* Mutant: the fallback is taken also where the goal's own file could be built.
FallsBack(g)  == {g, Whole}
\* What the verifier may have judged when the proof of a goal is checked alone: the goal in
\* a file of its own, or, if that cannot be built (a theorem with no name or not found by
\* its name, a file or directory out of reach), the theorem at the hole of the task.
Judged(g)     == IF builds THEN {g} ELSE {g, Whole}
Accepts(g, p) == \E h \in Judged(g) : accepted' = accepted \cup {<<h, p>>}

\* The sub-lemma at hand counts as proved by p: on to the next slot, or out of this skeleton.
Proven(p) ==
    LET f == [Top EXCEPT !.done = Append(@, p), !.tries = 0] IN
    /\ frames' = WithTop(f)
    /\ stage' = IF Len(f.done) < Len(f.slots) THEN "lookup"
                ELSE IF Depth > 0 THEN "close" ELSE "assemble"
    /\ UNCHANGED proposal

ApolloInit ==
    /\ stage = "off" /\ frames = <<>> /\ proposal = None
    /\ cache \in [Goals -> Proofs \cup {None}]    \* of earlier runs and other workers
    /\ builds = TRUE /\ accepted = {} /\ asked = 0

----------------------------------------------------------------------------
\* attempt(): the prover writes a skeleton, or nothing that parses as one.
RequestSkeleton ==
    /\ stage = "skeleton" /\ Asks
    /\ \/ Fails
       \/ \E s \in Skeletons : frames' = <<Frame(s)>> /\ stage' = "lookup" /\ UNCHANGED proposal
    /\ UNCHANGED <<cache, accepted>>

\* A cached proof is a candidate only: it is verified like any other.
TriesCached(p) ==
    \/ Proven(p) /\ Accepts(Goal, p)
    \/ stage' = "direct" /\ UNCHANGED <<frames, proposal, accepted>>
    \/ Fails /\ UNCHANGED accepted    \* the verifier raises

Lookup ==
    /\ stage = "lookup"
    /\ IF cache[Goal] = None
       THEN stage' = "direct" /\ UNCHANGED <<frames, proposal, accepted>>
       ELSE TriesCached(cache[Goal])
    /\ UNCHANGED <<cache, asked>>

CountsTry == frames' = WithTop([Top EXCEPT !.tries = @ + 1])

\* A direct attempt: nothing usable, a proof that is accepted, or one that is not.
Direct ==
    /\ stage = "direct" /\ Top.tries < Attempts /\ Asks
    /\ \/ CountsTry /\ UNCHANGED <<stage, proposal, cache, accepted>>
       \/ \E p \in Proofs : Proven(p) /\ Accepts(Goal, p) /\ Caches(Goal, p)
       \/ Fails /\ UNCHANGED <<cache, accepted>>

MayGoDeeper == Recursive /\ Depth < 1

DirectFailed ==
    /\ stage = "direct" /\ Top.tries = Attempts
    /\ IF MayGoDeeper THEN stage' = "deeper" /\ UNCHANGED <<frames, proposal>> ELSE Fails
    /\ UNCHANGED <<cache, accepted, asked>>

RecursiveDecompose ==
    /\ stage = "deeper" /\ Asks
    /\ \/ Fails
       \/ \E s \in Skeletons :
             frames' = Append(frames, Frame(s)) /\ stage' = "lookup" /\ UNCHANGED proposal
    /\ UNCHANGED <<cache, accepted>>

\* The inner proof is put together, by the names of the slots, and verified like a direct
\* one for the sub-lemma it was to prove.
CloseInner ==
    LET outer == frames[Len(frames) - 1]
        g == outer.slots[Len(outer.done) + 1]
    IN
    /\ stage = "close"
    /\ \/ \E p \in Proofs :
             LET f == [outer EXCEPT !.done = Append(@, p), !.tries = 0] IN
             /\ frames' = <<f>>
             /\ stage' = IF Len(f.done) < Len(f.slots) THEN "lookup" ELSE "assemble"
             /\ Accepts(g, p) /\ Caches(g, p) /\ UNCHANGED proposal
       \/ Fails /\ UNCHANGED <<cache, accepted>>
    /\ UNCHANGED asked

\* The reassembled proof is some text: the parts go in by the names of the slots, so that
\* two slots of one name get the same part.  It is returned, and cached, only if the
\* verifier takes the whole.
ChecksWhole ==
    \/ \E p \in Proofs :
          /\ stage' = "won" /\ proposal' = p /\ UNCHANGED frames
          /\ Accepts(Whole, p) /\ Caches(Whole, p)
    \/ Fails /\ UNCHANGED <<cache, accepted>>

Assemble == stage = "assemble" /\ ChecksWhole /\ UNCHANGED asked

ApolloStep ==
    \/ RequestSkeleton \/ Lookup \/ Direct \/ DirectFailed
    \/ RecursiveDecompose \/ CloseInner \/ Assemble

\* What one attempt may ask at most: a skeleton, and for each sub-lemma the direct
\* attempts, one inner skeleton, and the attempts at its sub-lemmas.
MaxAsked ==
    LET inner == MaxSublemmas * Attempts IN
    1 + MaxSublemmas * (Attempts + (IF Recursive THEN 1 + inner ELSE 0))

----------------------------------------------------------------------------
\* The types; a skeleton within a skeleton at most.
ApolloTypeOK ==
    /\ stage \in {"off", "skeleton", "lookup", "direct", "deeper", "close", "assemble",
                  "won", "lost"}
    /\ Len(frames) \in 0..2
    /\ \A i \in DOMAIN frames :
          /\ frames[i].slots \in Skeletons /\ frames[i].tries \in 0..Attempts
          /\ Len(frames[i].done) <= Len(frames[i].slots)
          /\ \A j \in DOMAIN frames[i].done : frames[i].done[j] \in Proofs
    /\ proposal \in Proofs \cup {None} /\ cache \in [Goals -> Proofs \cup {None}]
    /\ builds \in BOOLEAN /\ accepted \subseteq Goals \X Proofs /\ asked \in Nat

\* The verifier took p in this very attempt for g, or, only if isolated files cannot be
\* built for this task, for the theorem itself.
Earned(g, p) == <<g, p>> \in accepted \/ (~builds /\ <<Whole, p>> \in accepted)

\* Every sub-lemma that counts as proved was earned in this attempt, whatever the cache said.
SlotsAreProved ==
    \A i \in DOMAIN frames : \A j \in DOMAIN frames[i].done :
        Earned(frames[i].slots[j], frames[i].done[j])
=============================================================================
