----------------------------- MODULE AgentProofs -----------------------------
(***************************************************************************)
(* Theorems about what one task's worker does - the agentic loop with its  *)
(* decomposer, the tactic search, the control of the strategy - for any    *)
(* goals, proofs, tactics, knobs and limits, and whatever the prover, the  *)
(* verifier, the critic and the evaluating LLM answer and however late.    *)
(***************************************************************************)
EXTENDS MCAgents, FiniteSetTheorems, SequenceTheorems, TLAPS

----------------------------------------------------------------------------
(* The agentic loop: what is returned and what is cached was accepted.     *)

\* What is on its way to a result was accepted for the theorem: under review, in the hands
\* of the decomposer that is about to return it, or returned.  A solve may take what the
\* cache holds for a proof, so it must hold nothing else.
OnItsWay ==
    /\ cache \in [Goals -> Proofs \cup {None}]
    /\ pc \in {"cached", "verify", "review"} => candidate \in Proofs
    /\ pc = "review" => <<Whole, candidate>> \in accepted
    /\ stage = "won" => proposal \in Proofs /\ <<Whole, proposal>> \in accepted
    /\ pc = "solved" <=> result # None
    /\ result # None => <<Whole, result>> \in accepted /\ result \in approved

\* Earned after the step, for a goal and a proof named before it.
EarnedThen(g, p) == <<g, p>> \in accepted' \/ (~builds' /\ <<Whole, p>> \in accepted')

CacheStep == \A g \in Goals : cache'[g] # cache[g] => Earned(g, cache[g])'

LEMMA InitOnItsWay == AgentInit => OnItsWay
  BY DEF AgentInit, ApolloInit, OnItsWay

\* What the verifier takes is earned, for the theorem itself in every task, and stays so.
LEMMA AcceptsEarns ==
    ASSUME NEW g, NEW p, Accepts(g, p), builds' = builds
    PROVE  /\ EarnedThen(g, p) /\ accepted \subseteq accepted'
           /\ g = Whole => <<Whole, p>> \in accepted'
  <1>1. PICK h \in Judged(g) : accepted' = accepted \cup {<<h, p>>}
    BY DEF Accepts
  <1>2. h = g \/ (~builds /\ h = Whole)
    BY <1>1 DEF Judged
  <1> QED
    BY <1>1, <1>2 DEF Earned, EarnedThen

\* One entry of the cache is written, with a proof that was earned for its goal.
LEMMA CachesAccepted ==
    ASSUME cache \in [Goals -> Proofs \cup {None}],
           NEW g, NEW p \in Proofs, Caches(g, p), EarnedThen(g, p)
    PROVE  cache' \in [Goals -> Proofs \cup {None}] /\ CacheStep
  <1>1. cache' = [cache EXCEPT ![g] = p]
    BY DEF Caches
  <1>2. \A h \in Goals : cache'[h] # cache[h] => h = g /\ cache'[h] = p
    BY <1>1
  <1>3. ASSUME NEW h \in Goals, cache'[h] # cache[h]
        PROVE  Earned(h, cache[h])'
    BY <1>2, <1>3 DEF Earned, EarnedThen
  <1> QED
    BY <1>1, <1>3 DEF CacheStep

\* A step of the decomposer: it wins with a proof of the whole only.
LEMMA ApolloStepKeeps ==
    ASSUME cache \in [Goals -> Proofs \cup {None}], ApolloStep, builds' = builds
    PROVE  /\ cache' \in [Goals -> Proofs \cup {None}] /\ CacheStep
           /\ accepted \subseteq accepted'
           /\ stage' = "won" => proposal' \in Proofs /\ <<Whole, proposal'>> \in accepted'
  <1> DEFINE Kept == /\ cache' \in [Goals -> Proofs \cup {None}] /\ CacheStep
                     /\ accepted \subseteq accepted'
                     /\ stage' = "won" => proposal' \in Proofs
                                          /\ <<Whole, proposal'>> \in accepted'
  <1>1. ASSUME cache' = cache, accepted \subseteq accepted', stage' # "won"
        PROVE  Kept
    BY <1>1 DEF CacheStep
  <1>2. ASSUME NEW p \in Proofs, Proven(p)
        PROVE  stage' # "won"
    BY <1>2 DEF Proven
  <1>3. CASE RequestSkeleton
    BY <1>1, <1>3 DEF RequestSkeleton, Fails
  <1>4. CASE Lookup
    <2>1. cache' = cache
      BY <1>4 DEF Lookup
    <2>2. CASE cache[Goal] = None
      BY <1>1, <1>4, <2>1, <2>2 DEF Lookup
    <2>0. CASE cache[Goal] # None /\ TriesCached(cache[Goal])
      <3>1. CASE stage' = "direct" /\ UNCHANGED <<frames, proposal, accepted>>
        BY <1>1, <2>1, <3>1
      <3>2. CASE Fails /\ UNCHANGED accepted
        BY <1>1, <2>1, <3>2 DEF Fails
      <3>3. CASE Proven(cache[Goal]) /\ Accepts(Goal, cache[Goal])
        <4>1. accepted \subseteq accepted'
          BY <3>3, AcceptsEarns
        <4>2. stage' # "won"
          BY <3>3 DEF Proven
        <4> QED
          BY <1>1, <2>1, <4>1, <4>2
      <3> QED
        BY <2>0, <3>1, <3>2, <3>3 DEF TriesCached
    <2> QED
      BY <1>4, <2>0, <2>2 DEF Lookup
  <1>5. CASE Direct
    <2>1. CASE CountsTry /\ UNCHANGED <<stage, proposal, cache, accepted>>
      BY <1>1, <1>5, <2>1 DEF Direct
    <2>2. ASSUME NEW p \in Proofs, Proven(p) /\ Accepts(Goal, p) /\ Caches(Goal, p)
          PROVE  Kept
      <3>1. EarnedThen(Goal, p) /\ accepted \subseteq accepted'
        BY <2>2, AcceptsEarns
      <3> QED
        BY <1>2, <2>2, <3>1, CachesAccepted
    <2>3. CASE Fails /\ UNCHANGED <<cache, accepted>>
      BY <1>1, <2>3 DEF Fails
    <2> QED
      BY <1>5, <2>1, <2>2, <2>3 DEF Direct
  <1>6. CASE DirectFailed
    BY <1>1, <1>6 DEF DirectFailed, Fails
  <1>7. CASE RecursiveDecompose
    BY <1>1, <1>7 DEF RecursiveDecompose, Fails
  <1>8. CASE CloseInner
    <2>1. CASE Fails /\ UNCHANGED <<cache, accepted>>
      BY <1>1, <2>1 DEF Fails
    <2>2. PICK g : \/ \E p \in Proofs : Accepts(g, p) /\ Caches(g, p) /\ stage' # "won"
                   \/ Fails /\ UNCHANGED <<cache, accepted>>
      BY <1>8 DEF CloseInner
    <2>3. ASSUME NEW p \in Proofs, Accepts(g, p), Caches(g, p), stage' # "won"
          PROVE  Kept
      <3>1. EarnedThen(g, p) /\ accepted \subseteq accepted'
        BY <2>3, AcceptsEarns
      <3> QED
        BY <2>3, <3>1, CachesAccepted
    <2> QED
      BY <2>1, <2>2, <2>3
  <1>9. CASE Assemble
    <2>1. CASE Fails /\ UNCHANGED <<cache, accepted>>
      BY <1>1, <2>1 DEF Fails
    <2>2. ASSUME NEW p \in Proofs, proposal' = p, Accepts(Whole, p), Caches(Whole, p)
          PROVE  Kept
      <3>1. /\ EarnedThen(Whole, p) /\ accepted \subseteq accepted'
            /\ <<Whole, p>> \in accepted'
        BY <2>2, AcceptsEarns
      <3> QED
        BY <2>2, <3>1, CachesAccepted
    <2> QED
      BY <1>9, <2>1, <2>2 DEF Assemble, ChecksWhole
  <1> QED
    BY <1>3, <1>4, <1>5, <1>6, <1>7, <1>8, <1>9 DEF ApolloStep

\* The end of a round returns nothing and reviews nothing.
LEMMA RoundFailsEnds ==
    ASSUME NEW last, RoundFails(last)
    PROVE  pc' \in {"failed", "round"}
  BY DEF RoundFails

LEMMA StepKeeps ==
    ASSUME OnItsWay, [AgentNext]_agentVars
    PROVE  OnItsWay' /\ CacheStep
  <1> USE DEF OnItsWay
  <1>1. ASSUME cache' = cache
        PROVE  CacheStep /\ cache' \in [Goals -> Proofs \cup {None}]
    BY <1>1 DEF CacheStep
  <1>2. ASSUME NEW m \in MaxIters, Begin(m)
        PROVE  OnItsWay' /\ CacheStep
    <2>1. pc' = "cached" => candidate' \in Proofs
      BY <1>2 DEF Begin, Goals
    <2> QED
      BY <1>1, <1>2, <2>1 DEF Begin, Fresh
  <1>3. CASE TryCached
    <2>1. CASE pc' = "review"
      <3>1. Accepts(Whole, candidate) /\ builds' = builds
        BY <1>3, <2>1 DEF TryCached
      <3>2. accepted \subseteq accepted' /\ <<Whole, candidate>> \in accepted'
        BY <3>1, AcceptsEarns
      <3> QED
        BY <1>1, <1>3, <2>1, <3>2 DEF TryCached
    <2>2. CASE pc' = "round"
      BY <1>1, <1>3, <2>2 DEF TryCached
    <2> QED
      BY <1>3, <2>1, <2>2 DEF TryCached
  <1>4. CASE RoundHead
    BY <1>1, <1>4 DEF RoundHead, loopVars
  <1>5. CASE DuringApollo
    BY <1>5, ApolloStepKeeps DEF DuringApollo, solveVars
  <1>6. CASE ApolloReturns
    BY <1>1, <1>6 DEF ApolloReturns
  <1>7. CASE ProposeFails
    BY <1>1, <1>7, RoundFailsEnds DEF ProposeFails
  <1>8. ASSUME NEW p \in Proofs, Propose(p)
        PROVE  OnItsWay' /\ CacheStep
    BY <1>1, <1>8 DEF Propose
  <1>9. CASE VerifyRaises
    BY <1>1, <1>9, RoundFailsEnds DEF VerifyRaises, apolloVars
  <1>10. ASSUME NEW rem \in Sorries, Rejected(rem)
         PROVE  OnItsWay' /\ CacheStep
    BY <1>1, <1>10, RoundFailsEnds DEF Rejected, apolloVars
  <1>11. ASSUME NEW rem \in Sorries, Verified(rem)
         PROVE  OnItsWay' /\ CacheStep
    <2>1. Accepts(Whole, candidate) /\ builds' = builds
      BY <1>11 DEF Verified
    <2>2. accepted \subseteq accepted' /\ <<Whole, candidate>> \in accepted'
      BY <2>1, AcceptsEarns
    <2> QED
      BY <1>1, <1>11, <2>2 DEF Verified
  <1>12. CASE Approve
    <2>1. /\ candidate \in Proofs /\ <<Whole, candidate>> \in accepted'
          /\ EarnedThen(Whole, candidate)
      BY <1>12 DEF Approve, Earned, EarnedThen
    <2>2. cache' \in [Goals -> Proofs \cup {None}] /\ CacheStep
      BY <1>1, <1>12, <2>1, CachesAccepted DEF Approve
    <2> QED
      BY <1>12, <2>1, <2>2, AxproverAssumption, ApolloAssumption DEF Approve
  <1>13. CASE Disapprove
    BY <1>1, <1>13, RoundFailsEnds DEF Disapprove, apolloVars
  <1>14. CASE Cancelled
    BY <1>1, <1>14 DEF Cancelled, Fresh
  <1>15. CASE Spent \/ UNCHANGED agentVars
    BY <1>1, <1>15 DEF Spent, agentVars, apolloVars, solveVars
  <1> QED
    BY <1>2, <1>3, <1>4, <1>5, <1>6, <1>7, <1>8, <1>9, <1>10, <1>11, <1>12, <1>13, <1>14,
       <1>15 DEF AgentNext

LEMMA AlwaysOnItsWay == AgentSpec => []OnItsWay
  <1>1. OnItsWay /\ [AgentNext]_agentVars => OnItsWay'
    BY StepKeeps
  <1> QED
    BY <1>1, InitOnItsWay, PTL DEF AgentSpec

\* A success is returned with a proof that the verifier accepted for the theorem in this
\* solve and the critic let pass: from the cache, the decomposer or a round.
THEOREM ResultsAreEarned == AgentSpec => []SolvedIsEarned
  <1>1. OnItsWay => SolvedIsEarned
    BY DEF OnItsWay, SolvedIsEarned
  <1> QED
    BY <1>1, AlwaysOnItsWay, PTL

\* Nothing is written into the shared lemma cache, by the loop or by its decomposer, that
\* the verifier did not accept for that goal, also when the solve is cancelled later; or, where
\* no file with the sublemma can be made (decompose.py:376-378), for the theorem of the task.
THEOREM CacheTakesAccepted == AgentSpec => CacheIsEarned
  <1>1. OnItsWay /\ [AgentNext]_agentVars => [CacheStep]_agentVars
    BY StepKeeps
  <1>2. AgentSpec => [][CacheStep]_agentVars
    BY <1>1, AlwaysOnItsWay, PTL DEF AgentSpec
  <1> QED
    BY <1>2 DEF CacheIsEarned, CacheStep

----------------------------------------------------------------------------
(* The decomposer: its skeletons, and what it has asked of the prover.     *)

Frames == [slots : Skeletons, done : Seq(Proofs), tries : 0..Attempts]
Stages == {"off", "skeleton", "lookup", "direct", "deeper", "close", "assemble", "won", "lost"}
Unfinished(f) == Len(f.done) < Len(f.slots)
Within(f)     == Len(f.done) <= Len(f.slots)

\* Where the decomposer is in its skeletons: the stages on a sub-lemma have one to prove, a
\* finished skeleton is closed or assembled with no attempt counted, and only one that may
\* go deeper has a second skeleton, for a slot of the first that is still open.
FramesInOrder ==
    /\ stage \in Stages /\ frames \in Seq(Frames) /\ Len(frames) <= 2
    /\ \A n \in DOMAIN frames : Within(frames[n])
    /\ Len(frames) = 2 => Recursive /\ Unfinished(frames[1])
    /\ stage \in {"off", "skeleton"} => frames = <<>>
    /\ stage \in {"lookup", "direct", "deeper"} =>
          frames # <<>> /\ Unfinished(frames[Len(frames)])
    /\ stage = "deeper" => Len(frames) = 1 /\ Recursive
    /\ stage = "close" => Len(frames) = 2 /\ frames[2].tries = 0
    /\ stage = "assemble" => Len(frames) = 1 /\ frames[1].tries = 0
    /\ stage = "won" => proposal # None

\* What the shared cache, the history of the verifier and the proof returned may be.
HistoriesAreTyped ==
    /\ proposal \in Proofs \cup {None} /\ cache \in [Goals -> Proofs \cup {None}]
    /\ accepted \subseteq Goals \X Proofs /\ asked \in Nat /\ builds \in BOOLEAN

Work == FramesInOrder /\ HistoriesAreTyped /\ SlotsAreProved

\* What one slot of the outer skeleton may cost beyond its direct attempts.
InnerCost == IF Recursive THEN 1 + MaxSublemmas * Attempts ELSE 0
SlotCost  == Attempts + InnerCost

\* What the decomposer may have asked for where it is, and when it has returned.
UsedOuter(f) == 1 + Len(f.done) * SlotCost + f.tries
UsedInner(f) == 1 + Len(f.done) * Attempts + f.tries
Used ==
    IF Len(frames) = 0 THEN 0
    ELSE IF Len(frames) = 1 THEN UsedOuter(frames[1])
    ELSE UsedOuter(frames[1]) + UsedInner(frames[2])
Due == IF stage \in {"won", "lost"} THEN MaxAsked ELSE Used

LEMMA AttemptsAreSome == Attempts \in Nat /\ Attempts >= 1
  BY ApolloAssumption DEF Attempts

\* More slots cost more.
LEMMA Grows ==
    ASSUME NEW d \in Nat, NEW m \in Nat, NEW k \in Nat, d < m
    PROVE  d * k \in Nat /\ m * k \in Nat /\ d * k + k <= m * k /\ (d + 1) * k = d * k + k
  <1>1. PICK e \in Nat : m = d + 1 + e
    <2>1. m - d - 1 \in Nat /\ m = d + 1 + (m - d - 1)
      OBVIOUS
    <2> QED
      BY <2>1
  <1>2. d * k \in Nat /\ e * k \in Nat
    OBVIOUS
  <1>3. (d + 1 + e) * k = d * k + k + e * k /\ (d + 1) * k = d * k + k
    OBVIOUS
  <1> QED
    BY <1>1, <1>2, <1>3

\* The costs are numbers, and MaxAsked pays for a skeleton and for all its slots.
LEMMA CostsAre ==
    /\ InnerCost \in Nat /\ SlotCost \in Nat /\ SlotCost >= Attempts
    /\ Recursive => SlotCost = Attempts + 1 + MaxSublemmas * Attempts
    /\ MaxAsked = 1 + MaxSublemmas * SlotCost
    /\ MaxSublemmas * SlotCost \in Nat /\ MaxSublemmas * Attempts \in Nat
  <1>1. MaxSublemmas \in Nat /\ Attempts \in Nat /\ Recursive \in BOOLEAN
    BY ApolloAssumption, AttemptsAreSome
  <1>2. MaxSublemmas * Attempts \in Nat
    BY <1>1
  <1>3. InnerCost \in Nat /\ SlotCost \in Nat /\ SlotCost >= Attempts
    BY <1>1, <1>2 DEF InnerCost, SlotCost
  <1>4. MaxSublemmas * SlotCost \in Nat
    BY <1>1, <1>3
  <1>5. MaxAsked = 1 + MaxSublemmas * SlotCost
    BY <1>1 DEF MaxAsked, SlotCost, InnerCost
  <1>6. Recursive => SlotCost = Attempts + 1 + MaxSublemmas * Attempts
    BY <1>1, <1>2 DEF InnerCost, SlotCost
  <1> QED
    BY <1>2, <1>3, <1>4, <1>5, <1>6

\* A skeleton is a sequence of one to MaxSublemmas goals.
LEMMA SkeletonsAreShort ==
    ASSUME NEW s \in Skeletons
    PROVE  s \in Seq(Subgoals) /\ Len(s) \in 1..MaxSublemmas
  <1>1. PICK m \in 0..MaxSublemmas : s \in [1..m -> Subgoals]
    BY DEF Skeletons, SeqOf
  <1>2. s # <<>>
    BY DEF Skeletons
  <1>3. s \in Seq(Subgoals) /\ Len(s) = m
    BY <1>1, ApolloAssumption
  <1>4. m # 0
    BY <1>2, <1>3
  <1> QED
    BY <1>3, <1>4, ApolloAssumption

\* The sub-lemma at hand, and what replacing the skeleton at hand leaves alone.
LEMMA TopIs ==
    ASSUME frames \in Seq(Frames), Len(frames) <= 2, frames # <<>>
    PROVE  /\ Len(frames) \in 1..2 /\ Top = frames[Len(frames)] /\ Top \in Frames
           /\ Len(Top.done) \in Nat /\ Len(Top.slots) \in 1..MaxSublemmas
           /\ Unfinished(Top) => Goal \in Subgoals
           /\ \A g \in Frames :
                 /\ WithTop(g) \in Seq(Frames) /\ Len(WithTop(g)) = Len(frames)
                 /\ WithTop(g)[Len(frames)] = g
                 /\ Len(frames) = 2 => WithTop(g)[1] = frames[1]
  <1>1. Len(frames) \in 1..2
    <2>1. ASSUME NEW n \in Nat, n # 0, n <= 2
          PROVE  n \in 1..2
      BY <2>1
    <2>2. Len(frames) \in Nat /\ Len(frames) # 0
      BY EmptySeq
    <2> QED
      BY <2>1, <2>2
  <1>2. Top = frames[Len(frames)] /\ Top \in Frames
    BY <1>1 DEF Top, Last
  <1>3. Top.done \in Seq(Proofs) /\ Top.slots \in Skeletons
    BY <1>2 DEF Frames
  <1>4. Len(Top.done) \in Nat /\ Len(Top.slots) \in 1..MaxSublemmas
    BY <1>3, SkeletonsAreShort
  <1>5. Unfinished(Top) => Goal \in Subgoals
    BY <1>3, <1>4, SkeletonsAreShort, ApolloAssumption DEF Unfinished, Goal
  <1>6. ASSUME NEW g \in Frames
        PROVE  /\ WithTop(g) \in Seq(Frames) /\ Len(WithTop(g)) = Len(frames)
               /\ WithTop(g)[Len(frames)] = g
               /\ Len(frames) = 2 => WithTop(g)[1] = frames[1]
    <2>1. /\ Front(frames) \in Seq(Frames) /\ Len(Front(frames)) = Len(frames) - 1
          /\ Len(frames) = 2 => Front(frames)[1] = frames[1]
      BY <1>1 DEF Front
    <2> QED
      BY <1>1, <2>1 DEF WithTop
  <1> QED
    BY <1>1, <1>2, <1>4, <1>5, <1>6

LEMMA FramesAreFew ==
    ASSUME FramesInOrder
    PROVE  Len(frames) = 0 \/ Len(frames) = 1 \/ Len(frames) = 2
  <1>1. ASSUME NEW n \in Nat, n <= 2
        PROVE  n = 0 \/ n = 1 \/ n = 2
    BY <1>1
  <1>2. Len(frames) \in Nat /\ Len(frames) <= 2
    BY DEF FramesInOrder
  <1> QED
    BY <1>1, <1>2

\* The books of a skeleton are numbers within those of the whole attempt.
LEMMA UsedIs ==
    ASSUME FramesInOrder
    PROVE  /\ \A n \in DOMAIN frames :
                 /\ Len(frames[n].done) \in Nat /\ Len(frames[n].slots) \in 1..MaxSublemmas
                 /\ frames[n].tries \in 0..Attempts /\ frames[n] \in Frames
                 /\ UsedOuter(frames[n]) \in Nat /\ UsedInner(frames[n]) \in Nat
           /\ Used \in Nat
  <1>1. ASSUME NEW n \in DOMAIN frames
        PROVE  /\ Len(frames[n].done) \in Nat /\ Len(frames[n].slots) \in 1..MaxSublemmas
               /\ frames[n].tries \in 0..Attempts /\ frames[n] \in Frames
               /\ UsedOuter(frames[n]) \in Nat /\ UsedInner(frames[n]) \in Nat
    <2>1. frames[n] \in Frames
      BY <1>1 DEF FramesInOrder
    <2>2. frames[n].done \in Seq(Proofs) /\ frames[n].slots \in Skeletons
          /\ frames[n].tries \in 0..Attempts
      BY <2>1 DEF Frames
    <2>3. Len(frames[n].done) \in Nat /\ Len(frames[n].slots) \in 1..MaxSublemmas
      BY <2>2, SkeletonsAreShort
    <2>4. SlotCost \in Nat /\ Attempts \in Nat
      BY CostsAre, AttemptsAreSome
    <2>5. Len(frames[n].done) * SlotCost \in Nat /\ Len(frames[n].done) * Attempts \in Nat
      BY <2>3, <2>4
    <2>6. frames[n].tries \in Nat
      BY <2>2, <2>4
    <2>7. UsedOuter(frames[n]) \in Nat /\ UsedInner(frames[n]) \in Nat
      BY <2>5, <2>6 DEF UsedOuter, UsedInner
    <2> QED
      BY <2>1, <2>2, <2>3, <2>7
  <1>2. Len(frames) = 0 \/ Len(frames) = 1 \/ Len(frames) = 2
    BY FramesAreFew
  <1>3. Len(frames) = 1 => 1 \in DOMAIN frames
    BY DEF FramesInOrder
  <1>4. Len(frames) = 2 => 1 \in DOMAIN frames /\ 2 \in DOMAIN frames
    BY DEF FramesInOrder
  <1> QED
    BY <1>1, <1>2, <1>3, <1>4 DEF Used

\* Wherever an attempt is given up, it has not asked for more than MaxAsked: one request
\* more where there is an open slot with an attempt left, or where it may go deeper.
LEMMA UsedIsBounded ==
    ASSUME FramesInOrder
    PROVE  /\ stage \notin {"won", "lost"} => Used <= MaxAsked
           /\ stage = "skeleton" => Used + 1 <= MaxAsked
           /\ stage = "direct" /\ Top.tries < Attempts => Used + 1 <= MaxAsked
           /\ stage = "deeper" => Used + 1 <= MaxAsked
  <1> DEFINE m == MaxSublemmas
             k == SlotCost
             a == Attempts
  <1>1. m \in Nat /\ m >= 1 /\ k \in Nat /\ a \in Nat /\ a >= 1 /\ k >= a
        /\ MaxAsked = 1 + m * k /\ m * k \in Nat /\ m * a \in Nat
        /\ (Recursive => k = a + 1 + m * a)
    BY CostsAre, AttemptsAreSome, ApolloAssumption
  <1> HIDE DEF m, k, a
  <1>2. CASE Len(frames) = 0
    <2>1. Used = 0 /\ frames = <<>>
      BY <1>2, EmptySeq DEF Used, FramesInOrder
    <2> QED
      BY <1>1, <2>1 DEF FramesInOrder
  <1>3. CASE Len(frames) = 1
    <2> DEFINE d == Len(frames[1].done)
               t == frames[1].tries
    <2>1. /\ d \in Nat /\ Len(frames[1].slots) \in 1..m /\ t \in 0..a
          /\ d <= Len(frames[1].slots)
      BY <1>3, UsedIs DEF FramesInOrder, Within, m, a
    <2>2. Used = 1 + d * k + t
      BY <1>3 DEF Used, UsedOuter, k
    <2>3. Top = frames[1] /\ frames # <<>>
      BY <1>3 DEF Top, Last
    <2>4. stage \notin {"off", "skeleton"}
      BY <2>3 DEF FramesInOrder
    <2> HIDE DEF d, t
    <2>5. CASE d < Len(frames[1].slots)
      <3>1. d < m
        BY <2>1, <2>5, <1>1
      <3>2. d * k \in Nat /\ d * k + k <= m * k
        BY <3>1, <2>1, <1>1, Grows
      <3>3. stage = "deeper" => k >= a + 1
        BY <1>1 DEF FramesInOrder
      <3>4. stage = "direct" /\ Top.tries < Attempts => t + 1 <= a
        BY <2>1, <2>3, <1>1 DEF t, a
      <3> QED
        BY <1>1, <2>1, <2>2, <2>4, <3>2, <3>3, <3>4
    <2>6. CASE d = Len(frames[1].slots)
      <3>1. stage \notin {"lookup", "direct", "deeper", "close"}
        BY <2>6, <1>3, <2>1 DEF FramesInOrder, Unfinished, d
      <3>0. stage = "assemble" => t = 0
        BY <1>3 DEF FramesInOrder, t
      <3>3. stage \in {"assemble", "won", "lost"}
        BY <2>4, <3>1 DEF FramesInOrder, Stages
      <3>2. d * k <= m * k /\ d * k \in Nat
        <4>1. CASE d = m
          BY <4>1, <1>1
        <4>2. CASE d < m
          BY <4>2, <2>1, <1>1, Grows
        <4> QED
          BY <4>1, <4>2, <2>1, <2>6, <1>1
      <3> QED
        BY <1>1, <2>1, <2>2, <3>0, <3>2, <3>3
    <2> QED
      BY <2>1, <2>5, <2>6
  <1>4. CASE Len(frames) = 2
    <2> DEFINE d == Len(frames[1].done)
               t == frames[1].tries
               e == Len(frames[2].done)
               u == frames[2].tries
    <2>1. /\ d \in Nat /\ t \in 0..a /\ e \in Nat /\ u \in 0..a
          /\ Len(frames[1].slots) \in 1..m /\ Len(frames[2].slots) \in 1..m
          /\ e <= Len(frames[2].slots)
      BY <1>4, UsedIs DEF FramesInOrder, Within, m, a
    <2>2. d < Len(frames[1].slots) /\ Recursive
      BY <1>4 DEF FramesInOrder, Unfinished, d
    <2>3. Used = 1 + d * k + t + (1 + e * a + u)
      BY <1>4 DEF Used, UsedOuter, UsedInner, k, a
    <2>4. Top = frames[2] /\ frames # <<>>
      BY <1>4 DEF Top, Last
    <2>5. stage \in {"lookup", "direct", "close", "won", "lost"}
      BY <2>4, <1>4 DEF FramesInOrder, Stages
    <2>6. stage = "close" => u = 0
      BY DEF FramesInOrder
    <2>7. stage = "direct" /\ Top.tries < Attempts => u + 1 <= a
      BY <2>1, <2>4, <1>1 DEF a
    <2>8. stage \in {"lookup", "direct"} => e < m
      BY <1>4, <2>1, <1>1 DEF FramesInOrder, Unfinished, e
    <2> HIDE DEF d, t, e, u
    <2>9. d < m
      BY <2>1, <2>2, <1>1
    <2>10. d * k \in Nat /\ d * k + k <= m * k
      BY <2>1, <2>9, <1>1, Grows
    <2>11. e * a \in Nat /\ e * a <= m * a /\ (e < m => e * a + a <= m * a)
      <3>1. CASE e = m
        BY <3>1, <1>1
      <3>2. CASE e < m
        BY <3>2, <2>1, <1>1, Grows
      <3> QED
        BY <3>1, <3>2, <2>1, <1>1
    <2>12. k = a + 1 + m * a
      BY <1>1, <2>2
    <2> QED
      BY <1>1, <2>1, <2>3, <2>5, <2>6, <2>7, <2>8, <2>10, <2>11, <2>12
  <1> QED
    BY <1>2, <1>3, <1>4, FramesAreFew


\* A step that leaves the skeletons alone, and one that gives the attempt up.
LEMMA StageKeeps ==
    ASSUME Work, NEW s \in {"direct", "deeper"}, stage' = s, frames' = frames,
           stage \in {"lookup", "direct"}, s = "deeper" => Len(frames) = 1 /\ Recursive,
           UNCHANGED <<proposal, cache, accepted, asked, builds>>
    PROVE  Work' /\ Due' = Due
  <1>1. SlotsAreProved'
    BY DEF Work, SlotsAreProved, Earned
  <1>2. FramesInOrder' /\ HistoriesAreTyped'
    BY DEF Work, FramesInOrder, HistoriesAreTyped, Stages
  <1>3. Due' = Due
    BY DEF Due, Used, UsedOuter, UsedInner
  <1> QED
    BY <1>1, <1>2, <1>3 DEF Work

LEMMA DueIs == Work => Due \in Int
  BY UsedIs, CostsAre DEF Due, Work

LEMMA NextDueIs == Work' => (Due \in Int)'
  BY DueIs, PTL

\* What is left of the attempts pays for the request.
LEMMA LeftPays ==
    ASSUME NEW a \in Nat, NEW t \in Nat, NEW d \in Int, NEW e \in Int, a - t <= e - d
    PROVE  /\ t <= a => 0 <= e - d
           /\ t < a => 1 <= e - d
  OBVIOUS

LEMMA FailKeeps ==
    ASSUME Work, Fails, stage \notin {"off", "won", "lost"},
           UNCHANGED <<cache, accepted, builds>>, asked' \in {asked, asked + 1},
           asked' = asked + 1 => \/ stage \in {"skeleton", "deeper"}
                                 \/ stage = "direct" /\ Top.tries < Attempts
    PROVE  Work' /\ asked' - asked <= Due' - Due
  <1>1. SlotsAreProved'
    BY DEF Work, SlotsAreProved, Fails, Earned
  <1>2. asked \in Nat /\ asked' \in Nat
    BY DEF Work, HistoriesAreTyped
  <1>3. FramesInOrder' /\ HistoriesAreTyped'
    BY <1>2 DEF Work, FramesInOrder, HistoriesAreTyped, Stages, Fails
  <1>4. Due' = MaxAsked /\ Due = Used
    BY DEF Fails, Due
  <1>5. Used \in Nat /\ MaxAsked \in Nat /\ Used <= MaxAsked
        /\ (asked' = asked + 1 => Used + 1 <= MaxAsked)
    BY UsedIs, UsedIsBounded, CostsAre DEF Work
  <1>6. asked' = asked \/ asked' = asked + 1
    OBVIOUS
  <1>7. asked' - asked <= Due' - Due
    <2>1. ASSUME NEW a \in Nat PROVE a - a = 0 /\ a + 1 - a = 1
      OBVIOUS
    <2>2. CASE asked' = asked
      BY <1>2, <1>4, <1>5, <2>1, <2>2
    <2>3. CASE asked' = asked + 1
      BY <1>2, <1>4, <1>5, <2>1, <2>3
    <2> QED
      BY <1>6, <2>2, <2>3
  <1> QED
    BY <1>1, <1>3, <1>7 DEF Work

\* One slot further, and one attempt further.
LEMMA FrameAdvances ==
    ASSUME NEW g \in Frames, NEW p \in Proofs
    PROVE  LET f == [g EXCEPT !.done = Append(@, p), !.tries = 0]
           IN  /\ f \in Frames
               /\ f.slots = g.slots /\ f.done = Append(g.done, p) /\ f.tries = 0
  <1>1. Append(g.done, p) \in Seq(Proofs) /\ 0 \in 0..Attempts
    BY AttemptsAreSome DEF Frames
  <1> QED
    BY <1>1 DEF Frames

LEMMA TryAdvances ==
    ASSUME NEW g \in Frames, g.tries < Attempts
    PROVE  LET f == [g EXCEPT !.tries = @ + 1]
           IN  /\ f \in Frames
               /\ f.slots = g.slots /\ f.done = g.done /\ f.tries = g.tries + 1
  <1>1. g.tries + 1 \in 0..Attempts
    BY AttemptsAreSome DEF Frames
  <1> QED
    BY <1>1 DEF Frames

\* A slot more is proved, and paid for.
LEMMA ProvenKeeps ==
    ASSUME Work, stage \in {"lookup", "direct"}, NEW p \in Proofs, Proven(p),
           Accepts(Goal, p), builds' = builds, asked' \in Nat,
           cache' \in [Goals -> Proofs \cup {None}]
    PROVE  Work' /\ Attempts - Top.tries <= Due' - Due
  <1> DEFINE n == Len(frames)
             f == [Top EXCEPT !.done = Append(@, p), !.tries = 0]
  <1>1. frames \in Seq(Frames) /\ n <= 2 /\ frames # <<>> /\ Unfinished(frames[n])
    BY DEF Work, FramesInOrder
  <1>2. /\ n \in 1..2 /\ Top = frames[n] /\ Top \in Frames /\ Goal \in Subgoals
        /\ Len(Top.done) \in Nat /\ Len(Top.slots) \in 1..MaxSublemmas
    BY <1>1, TopIs
  <1>3. /\ f.slots = Top.slots /\ f.done = Append(Top.done, p) /\ f.tries = 0
        /\ f \in Frames /\ Top.done \in Seq(Proofs)
    <2>1. /\ Top.done \in Seq(Proofs) /\ Top.slots \in Skeletons
          /\ Top = [slots |-> Top.slots, done |-> Top.done, tries |-> Top.tries]
      BY <1>2 DEF Frames
    <2>2. f \in Frames /\ f.slots = Top.slots /\ f.done = Append(Top.done, p) /\ f.tries = 0
      BY <1>2, FrameAdvances
    <2> HIDE DEF f
    <2> QED
      BY <2>1, <2>2
  <1>4. Len(f.done) = Len(Top.done) + 1 /\ Len(Top.done) < Len(Top.slots)
    BY <1>1, <1>2, <1>3 DEF Unfinished
  <1> HIDE DEF f
  <1>5. /\ frames' \in Seq(Frames) /\ Len(frames') = n /\ frames'[n] = f
        /\ n = 2 => frames'[1] = frames[1]
    <2>1. frames' = WithTop(f)
      BY DEF Proven, f
    <2> QED
      BY <1>1, <1>3, <2>1, TopIs
  <1>6. stage' = IF Len(f.done) < Len(f.slots) THEN "lookup"
                 ELSE IF Len(frames) - 1 > 0 THEN "close" ELSE "assemble"
    BY DEF Proven, f, Depth
  <1>a. /\ EarnedThen(Goal, p) /\ \A h, q : Earned(h, q) => EarnedThen(h, q)
        /\ accepted' \subseteq Goals \X Proofs /\ builds' \in BOOLEAN
    <2>1. PICK h \in Judged(Goal) : accepted' = accepted \cup {<<h, p>>}
      BY DEF Accepts
    <2>2. h \in Goals
      BY <1>2, <2>1 DEF Judged, Goals
    <2> QED
      BY <2>1, <2>2, AcceptsEarns DEF Work, HistoriesAreTyped, Earned, EarnedThen
  <1>7. \A j \in DOMAIN f.done : EarnedThen(f.slots[j], f.done[j])
    <2>1. SUFFICES ASSUME NEW j \in DOMAIN f.done
                   PROVE  EarnedThen(f.slots[j], f.done[j])
      OBVIOUS
    <2>2. CASE j \in DOMAIN Top.done
      <3>1. f.done[j] = Top.done[j]
        BY <1>3, <2>2
      <3>2. Earned(Top.slots[j], Top.done[j])
        BY <1>1, <1>2, <2>2 DEF Work, SlotsAreProved
      <3> QED
        BY <1>a, <1>3, <3>1, <3>2 DEF Earned, EarnedThen
    <2>3. CASE j \notin DOMAIN Top.done
      <3>1. j = Len(Top.done) + 1 /\ f.done[j] = p
        BY <1>3, <2>1, <2>3
      <3> QED
        BY <1>a, <1>3, <3>1 DEF Goal, Earned, EarnedThen
    <2> QED
      BY <2>2, <2>3
  <1>8. SlotsAreProved'
    <2>1. SUFFICES ASSUME NEW k \in DOMAIN frames', NEW j \in DOMAIN frames'[k].done
                   PROVE  EarnedThen(frames'[k].slots[j], frames'[k].done[j])
      BY DEF SlotsAreProved, Earned, EarnedThen
    <2>2. CASE k = n
      BY <1>5, <1>7, <2>1, <2>2 DEF Earned, EarnedThen
    <2>3. CASE k # n
      <3>1. k = 1 /\ n = 2
        BY <1>2, <1>5, <2>3
      <3>2. frames'[k] = frames[k] /\ k \in DOMAIN frames
        BY <1>1, <1>5, <3>1
      <3> QED
        BY <1>a, <2>1, <3>2 DEF Work, SlotsAreProved, Earned, EarnedThen
    <2> QED
      BY <2>2, <2>3
  <1>9. HistoriesAreTyped'
    BY <1>a DEF Work, HistoriesAreTyped, Proven
  <1>10. FramesInOrder'
    <2>1. /\ stage' \in {"lookup", "close", "assemble"}
          /\ stage' = "lookup" => Unfinished(f)
          /\ stage' = "close" => n = 2
          /\ stage' = "assemble" => n = 1
      <3>1. CASE Len(f.done) < Len(f.slots)
        BY <1>6, <3>1 DEF Unfinished
      <3>2. CASE ~(Len(f.done) < Len(f.slots)) /\ n = 2
        <4>1. stage' = "close"
          BY <1>6, <3>2
        <4> QED
          BY <3>2, <4>1
      <3>3. CASE ~(Len(f.done) < Len(f.slots)) /\ n = 1
        <4>1. stage' = "assemble"
          BY <1>6, <3>3
        <4> QED
          BY <3>3, <4>1
      <3>4. n = 1 \/ n = 2
        BY <1>2
      <3> QED
        BY <3>1, <3>2, <3>3, <3>4
    <2>2. Within(f) /\ \A k \in DOMAIN frames' : Within(frames'[k])
      <3>1. Within(f)
        BY <1>2, <1>3, <1>4 DEF Within
      <3>2. ASSUME NEW k \in DOMAIN frames' PROVE Within(frames'[k])
        <4>1. CASE k = n
          BY <1>5, <3>1, <4>1
        <4>2. CASE k # n
          <5>1. k = 1 /\ n = 2
            BY <1>2, <1>5, <3>2, <4>2
          <5>2. frames'[k] = frames[k] /\ k \in DOMAIN frames
            BY <1>1, <1>5, <5>1
          <5> QED
            BY <5>2 DEF Work, FramesInOrder
        <4> QED
          BY <4>1, <4>2
      <3> QED
        BY <3>1, <3>2
    <2>3. n = 2 => Recursive /\ Unfinished(frames[1])
      BY DEF Work, FramesInOrder
    <2>4. frames' # <<>>
      BY <1>2, <1>5
    <2> QED
      BY SMTT(30), <1>2, <1>3, <1>5, <2>1, <2>2, <2>3, <2>4 DEF FramesInOrder, Stages
  <1>11. Attempts - Top.tries <= Due' - Due
    <2> DEFINE d == Len(Top.done)
    <2>1. /\ SlotCost \in Nat /\ Attempts \in Nat /\ SlotCost >= Attempts
          /\ Top.tries \in 0..Attempts /\ d \in Nat
      BY <1>2, CostsAre, AttemptsAreSome DEF Frames
    <2>2. /\ (d + 1) * SlotCost = d * SlotCost + SlotCost /\ d * SlotCost \in Nat
          /\ (d + 1) * Attempts = d * Attempts + Attempts /\ d * Attempts \in Nat
      <3>1. d + 1 \in Nat /\ d < d + 1
        BY <2>1
      <3> HIDE DEF d
      <3> QED
        BY <2>1, <3>1, Grows
    <2>3. Due = Used /\ Due' = Used'
      BY <1>6 DEF Due
    <2>4. CASE n = 1
      <3>1. Used = UsedOuter(Top) /\ Used' = UsedOuter(f)
        BY <1>2, <1>5, <2>4 DEF Used, UsedOuter
      <3>2. UsedOuter(Top) = 1 + d * SlotCost + Top.tries
            /\ UsedOuter(f) = 1 + (d + 1) * SlotCost + 0
        BY <1>3, <1>4 DEF UsedOuter
      <3> HIDE DEF d
      <3> QED
        BY <2>1, <2>2, <2>3, <3>1, <3>2
    <2>5. CASE n = 2
      <3> DEFINE o == UsedOuter(frames[1])
      <3>1. Used = o + UsedInner(Top) /\ Used' = o + UsedInner(f)
        BY <1>2, <1>5, <2>5 DEF Used, UsedOuter, UsedInner
      <3>2. UsedInner(Top) = 1 + d * Attempts + Top.tries
            /\ UsedInner(f) = 1 + (d + 1) * Attempts + 0
        BY <1>3, <1>4 DEF UsedInner
      <3>3. o \in Nat
        BY <1>1, <2>5, UsedIs DEF Work
      <3> HIDE DEF d, o
      <3> QED
        BY <2>1, <2>2, <2>3, <3>1, <3>2, <3>3
    <2> QED
      BY <1>2, <2>4, <2>5
  <1> QED
    BY <1>8, <1>9, <1>10, <1>11 DEF Work


\* A new skeleton has nothing proved and nothing tried.
LEMMA FrameIs ==
    ASSUME NEW s \in Skeletons
    PROVE  /\ Frame(s) \in Frames /\ Unfinished(Frame(s)) /\ Within(Frame(s))
           /\ Len(Frame(s).done) = 0 /\ Frame(s).tries = 0 /\ Frame(s).done = <<>>
           /\ UsedOuter(Frame(s)) = 1 /\ UsedInner(Frame(s)) = 1
  <1>1. <<>> \in Seq(Proofs) /\ Len(<<>>) = 0 /\ 0 \in 0..Attempts
    BY AttemptsAreSome
  <1>2. Frame(s) \in Frames /\ Frame(s).done = <<>> /\ Frame(s).tries = 0
        /\ Frame(s).slots = s
    BY <1>1 DEF Frames, Frame
  <1>3. Len(s) \in Nat /\ Len(s) > 0
    BY SkeletonsAreShort, ApolloAssumption
  <1>4. 0 * SlotCost = 0 /\ 0 * Attempts = 0
    BY CostsAre, AttemptsAreSome
  <1> QED
    BY <1>1, <1>2, <1>3, <1>4 DEF Unfinished, Within, UsedOuter, UsedInner

LEMMA RequestKeeps ==
    ASSUME Work, RequestSkeleton, builds' = builds
    PROVE  Work' /\ asked' - asked <= Due' - Due
  <1>1. CASE Fails
    BY <1>1, FailKeeps DEF RequestSkeleton, Asks
  <1>2. ASSUME NEW s \in Skeletons, frames' = <<Frame(s)>>, stage' = "lookup",
               UNCHANGED proposal
        PROVE  Work' /\ asked' - asked <= Due' - Due
    <2>1. frames' \in Seq(Frames) /\ Len(frames') = 1 /\ frames'[1] = Frame(s)
      BY <1>2, FrameIs
    <2>2. SlotsAreProved'
      <3>1. \A k \in DOMAIN frames' : k = 1
        BY <2>1
      <3>2. DOMAIN frames'[1].done = {}
        BY <2>1, FrameIs
      <3> QED
        BY <3>1, <3>2 DEF SlotsAreProved
    <2>3. FramesInOrder' /\ HistoriesAreTyped'
      <3>1. frames' # <<>> /\ \A k \in DOMAIN frames' : frames'[k] = Frame(s)
        BY <2>1
      <3>2. FramesInOrder'
        BY <1>2, <2>1, <3>1, FrameIs DEF FramesInOrder, Stages
      <3> QED
        BY <1>2, <3>2 DEF Work, HistoriesAreTyped, RequestSkeleton, Asks
    <2>4. Due = 0 /\ Due' = 1
      <3>1. frames = <<>> /\ Len(frames) = 0
        BY DEF Work, FramesInOrder, RequestSkeleton
      <3>2. Due = 0
        BY <3>1 DEF Due, Used, RequestSkeleton
      <3>3. UsedOuter(frames[1])' = UsedOuter(Frame(s))
        BY <2>1 DEF UsedOuter
      <3> QED
        BY <1>2, <2>1, <3>2, <3>3, FrameIs DEF Due, Used
    <2>5. asked' - asked = 1
      BY DEF RequestSkeleton, Asks, Work, HistoriesAreTyped
    <2> QED
      BY <2>2, <2>3, <2>4, <2>5 DEF Work
  <1> QED
    BY <1>1, <1>2 DEF RequestSkeleton

LEMMA AskedIs == Work => asked \in Nat /\ asked - asked = 0 /\ asked + 1 - asked = 1
  BY DEF Work, HistoriesAreTyped

LEMMA TopTries ==
    ASSUME Work, frames # <<>>
    PROVE  Top \in Frames /\ Top.tries \in 0..Attempts
  BY TopIs DEF Work, FramesInOrder, Frames

LEMMA LookupKeeps ==
    ASSUME Work, Lookup, builds' = builds
    PROVE  Work' /\ asked' - asked <= Due' - Due
  <1>0. frames # <<>> /\ Unfinished(frames[Len(frames)]) /\ frames \in Seq(Frames)
        /\ Len(frames) <= 2
    BY DEF Work, FramesInOrder, Lookup
  <1>1. asked' = asked /\ asked' - asked = 0 /\ asked \in Nat
    BY AskedIs DEF Lookup
  <1>2. CASE stage' = "direct" /\ UNCHANGED <<frames, proposal, accepted>>
    <2>1. Work' /\ Due' = Due
      BY <1>1, <1>2, StageKeeps DEF Lookup
    <2>2. Due \in Int
      BY UsedIs, CostsAre DEF Due, Work
    <2> QED
      BY <1>1, <2>1, <2>2
  <1>3. CASE Fails /\ UNCHANGED accepted
    BY <1>1, <1>3, FailKeeps DEF Lookup
  <1>4. CASE cache[Goal] # None /\ Proven(cache[Goal]) /\ Accepts(Goal, cache[Goal])
    <2>1. Goal \in Goals /\ cache[Goal] \in Proofs
      BY <1>0, <1>4, TopIs DEF Work, HistoriesAreTyped, Goals
    <2>2. Work' /\ Attempts - Top.tries <= Due' - Due
      BY <1>1, <1>4, <2>1, ProvenKeeps DEF Lookup, Accepts, Work, HistoriesAreTyped
    <2>3. /\ Due \in Int /\ Due' \in Int
          /\ Attempts \in Nat /\ Top.tries \in Nat /\ Top.tries <= Attempts
      BY <1>0, <2>2, TopTries, AttemptsAreSome, DueIs, NextDueIs
    <2>4. 0 <= Due' - Due
      BY <2>2, <2>3, LeftPays
    <2> QED
      BY <1>1, <2>2, <2>4
  <1> QED
    BY <1>2, <1>3, <1>4 DEF Lookup, TriesCached

LEMMA DirectKeeps ==
    ASSUME Work, Direct, builds' = builds
    PROVE  Work' /\ asked' - asked <= Due' - Due
  <1>0. frames # <<>> /\ Unfinished(frames[Len(frames)]) /\ frames \in Seq(Frames)
        /\ Len(frames) <= 2
    BY DEF Work, FramesInOrder, Direct
  <1>1. asked' = asked + 1 /\ asked' - asked = 1 /\ asked \in Nat /\ asked' \in Nat
    BY AskedIs DEF Direct, Asks
  <1>2. CASE Fails /\ UNCHANGED <<cache, accepted>>
    BY <1>1, <1>2, FailKeeps DEF Direct
  <1>3. ASSUME NEW p \in Proofs, Proven(p), Accepts(Goal, p), Caches(Goal, p)
        PROVE  Work' /\ asked' - asked <= Due' - Due
    <2>1. Goal \in Goals
      BY <1>0, TopIs DEF Goals
    <2>2. cache' \in [Goals -> Proofs \cup {None}]
      BY <1>3, <2>1 DEF Caches, Work, HistoriesAreTyped
    <2>3. Work' /\ Attempts - Top.tries <= Due' - Due
      BY <1>1, <1>3, <2>2, ProvenKeeps DEF Direct, Accepts
    <2>4. /\ Due \in Int /\ Due' \in Int
          /\ Attempts \in Nat /\ Top.tries \in Nat /\ Top.tries < Attempts
      BY <1>0, <2>3, TopTries, AttemptsAreSome, DueIs, NextDueIs DEF Direct
    <2>5. 1 <= Due' - Due
      BY <2>3, <2>4, LeftPays
    <2> QED
      BY <1>1, <2>3, <2>5
  <1>4. CASE CountsTry /\ UNCHANGED <<stage, proposal, cache, accepted>>
    <2> DEFINE n == Len(frames)
               f == [Top EXCEPT !.tries = @ + 1]
    <2>1. n \in 1..2 /\ Top = frames[n] /\ Top \in Frames
      BY <1>0, TopIs
    <2>2. f \in Frames /\ f.slots = Top.slots /\ f.done = Top.done /\ f.tries = Top.tries + 1
      BY <2>1, TryAdvances DEF Direct
    <2> HIDE DEF f
    <2>3. /\ frames' \in Seq(Frames) /\ Len(frames') = n /\ frames'[n] = f
          /\ n = 2 => frames'[1] = frames[1]
      <3>1. frames' = WithTop(f)
        BY <1>4 DEF CountsTry, f
      <3> QED
        BY <1>0, <2>2, <3>1, TopIs
    <2>4. \A k \in DOMAIN frames' : /\ k \in DOMAIN frames
                                    /\ frames'[k].slots = frames[k].slots
                                    /\ frames'[k].done = frames[k].done
                                    /\ k # n => frames'[k] = frames[k]
      <3>1. SUFFICES ASSUME NEW k \in DOMAIN frames'
                     PROVE  /\ k \in DOMAIN frames
                            /\ frames'[k].slots = frames[k].slots
                            /\ frames'[k].done = frames[k].done
                            /\ k # n => frames'[k] = frames[k]
        OBVIOUS
      <3>2. k \in DOMAIN frames /\ (k # n => k = 1 /\ n = 2)
        BY <1>0, <2>1, <2>3
      <3>3. CASE k = n
        BY <2>1, <2>2, <2>3, <3>2, <3>3
      <3>4. CASE k # n
        BY <2>3, <3>2, <3>4
      <3> QED
        BY <3>3, <3>4
    <2>5. SlotsAreProved'
      BY <1>4, <2>4 DEF Work, SlotsAreProved, Earned
    <2>6. FramesInOrder'
      <3>1. \A k \in DOMAIN frames' : Within(frames'[k])
        BY <2>4 DEF Within, Work, FramesInOrder
      <3>2. n = 2 => Recursive /\ Unfinished(frames'[1])
        BY <2>3 DEF Work, FramesInOrder
      <3>3. frames' # <<>> /\ Unfinished(frames'[n])
        BY <1>0, <2>1, <2>2, <2>3 DEF Unfinished
      <3>4. stage' = "direct"
        BY <1>4 DEF Direct
      <3> QED
        BY <2>1, <2>3, <3>1, <3>2, <3>3, <3>4 DEF FramesInOrder, Stages
    <2>7. HistoriesAreTyped'
      BY <1>1, <1>4 DEF Work, HistoriesAreTyped, CountsTry
    <2>8. Due' = Due + 1 /\ Due \in Nat
      <3>0. stage = "direct" /\ stage' = "direct"
        BY <1>4 DEF Direct
      <3>1. Due = Used /\ Due' = Used' /\ Used \in Nat
        BY <3>0, UsedIs DEF Due, Work
      <3>2. Len(Top.done) \in Nat /\ Top.tries \in Nat /\ Attempts \in Nat /\ SlotCost \in Nat
        BY <1>0, TopIs, TopTries, AttemptsAreSome, CostsAre
      <3>3. Len(Top.done) * Attempts \in Nat /\ Len(Top.done) * SlotCost \in Nat
        BY <3>2
      <3>4. UsedOuter(f) = UsedOuter(Top) + 1 /\ UsedInner(f) = UsedInner(Top) + 1
        <4>1. \A x, y \in Nat : 1 + x + (y + 1) = (1 + x + y) + 1
          OBVIOUS
        <4>2. /\ UsedOuter(f) = 1 + Len(Top.done) * SlotCost + (Top.tries + 1)
              /\ UsedInner(f) = 1 + Len(Top.done) * Attempts + (Top.tries + 1)
          BY Zenon, <2>2 DEF UsedOuter, UsedInner
        <4> QED
          BY Zenon, <3>2, <3>3, <4>1, <4>2 DEF UsedOuter, UsedInner
      <3>5. CASE n = 1
        <4>1. Used = UsedOuter(Top) /\ Used' = UsedOuter(f)
          BY <2>1, <2>3, <3>5 DEF Used, UsedOuter
        <4> QED
          BY <3>1, <3>4, <4>1
      <3>6. CASE n = 2
        <4>1. Used = UsedOuter(frames[1]) + UsedInner(Top)
              /\ Used' = UsedOuter(frames[1]) + UsedInner(f)
          BY <2>1, <2>3, <3>6 DEF Used, UsedOuter, UsedInner
        <4>2. UsedOuter(frames[1]) \in Nat /\ UsedInner(Top) \in Nat
          BY <1>0, <2>1, <3>6, UsedIs DEF Work
        <4> QED
          BY <3>1, <3>4, <4>1, <4>2
      <3> QED
        BY <2>1, <3>5, <3>6
    <2> QED
      BY <1>1, <2>5, <2>6, <2>7, <2>8 DEF Work
  <1> QED
    BY <1>2, <1>3, <1>4 DEF Direct

LEMMA DirectFailedKeeps ==
    ASSUME Work, DirectFailed, builds' = builds
    PROVE  Work' /\ asked' - asked <= Due' - Due
  <1>1. asked' = asked /\ asked' - asked = 0 /\ asked # asked + 1
    BY AskedIs DEF DirectFailed
  <1>2. CASE MayGoDeeper /\ stage' = "deeper" /\ UNCHANGED <<frames, proposal>>
    <2>1. Len(frames) = 1 /\ Recursive
      <3>1. frames # <<>> /\ frames \in Seq(Frames) /\ Len(frames) <= 2
        BY DEF Work, FramesInOrder, DirectFailed
      <3>2. Len(frames) \in 1..2
        BY <3>1, TopIs
      <3> QED
        BY <1>2, <3>2 DEF MayGoDeeper, Depth
    <2>2. Work' /\ Due' = Due
      BY <1>1, <1>2, <2>1, StageKeeps DEF DirectFailed
    <2> QED
      BY <1>1, <2>2, DueIs
  <1>3. CASE Fails
    BY <1>1, <1>3, FailKeeps DEF DirectFailed
  <1> QED
    BY <1>2, <1>3 DEF DirectFailed


LEMMA OneMore ==
    ASSUME NEW S, NEW s \in Seq(S), Len(s) = 1, NEW x \in S
    PROVE  /\ Append(s, x) \in Seq(S) /\ Len(Append(s, x)) = 2
           /\ Append(s, x)[1] = s[1] /\ Append(s, x)[2] = x
  <1>1. 1 \in 1..Len(s) /\ Len(s) + 1 = 2
    OBVIOUS
  <1>2. PICK a : a = Append(s, x)
    OBVIOUS
  <1>3. a \in Seq(S) /\ Len(a) = Len(s) + 1 /\ a[Len(s) + 1] = x
    BY <1>2, AppendProperties
  <1>4. \A k \in 1..Len(s) : a[k] = s[k]
    BY <1>2, AppendProperties
  <1>5. a[1] = s[1]
    BY <1>1, <1>4
  <1>6. a[2] = x /\ Len(a) = 2
    BY <1>1, <1>3
  <1> QED
    BY <1>2, <1>3, <1>5, <1>6

LEMMA DeeperKeeps ==
    ASSUME Work, RecursiveDecompose, builds' = builds
    PROVE  Work' /\ asked' - asked <= Due' - Due
  <1>0. /\ frames \in Seq(Frames) /\ Len(frames) = 1 /\ Recursive /\ frames # <<>>
        /\ Unfinished(frames[1])
    BY DEF Work, FramesInOrder, RecursiveDecompose
  <1>1. asked' = asked + 1 /\ asked' - asked = 1 /\ asked \in Nat /\ asked' \in Nat
    BY AskedIs DEF RecursiveDecompose, Asks
  <1>2. CASE Fails
    BY <1>1, <1>2, FailKeeps DEF RecursiveDecompose
  <1>3. ASSUME NEW s \in Skeletons, frames' = Append(frames, Frame(s)), stage' = "lookup",
               UNCHANGED proposal
        PROVE  Work' /\ asked' - asked <= Due' - Due
    <2>1. /\ frames' \in Seq(Frames) /\ Len(frames') = 2
          /\ frames'[1] = frames[1] /\ frames'[2] = Frame(s)
      <3>1. Frame(s) \in Frames
        BY FrameIs
      <3>2. ASSUME NEW x \in Frames
            PROVE  /\ Append(frames, x) \in Seq(Frames) /\ Len(Append(frames, x)) = 2
                   /\ Append(frames, x)[1] = frames[1] /\ Append(frames, x)[2] = x
        BY <1>0, OneMore
      <3> QED
        BY <1>3, <3>1, <3>2
    <2>2. \A k \in DOMAIN frames' : k = 1 \/ k = 2
      BY <2>1
    <2>3. SlotsAreProved'
      <3>1. DOMAIN frames'[2].done = {}
        BY <2>1, FrameIs
      <3>2. \A j \in DOMAIN frames[1].done : Earned(frames[1].slots[j], frames[1].done[j])
        BY <1>0 DEF Work, SlotsAreProved
      <3> QED
        BY <2>1, <2>2, <3>1, <3>2 DEF SlotsAreProved, RecursiveDecompose, Earned
    <2>4. Within(frames[1])
      BY <1>0 DEF Work, FramesInOrder
    <2>5. FramesInOrder'
      <3>1. \A k \in DOMAIN frames' : Within(frames'[k])
        BY <2>1, <2>2, <2>4, FrameIs
      <3>2. frames' # <<>> /\ Unfinished(frames'[2])
        BY <2>1, FrameIs
      <3> QED
        BY <1>0, <1>3, <2>1, <3>1, <3>2 DEF FramesInOrder, Stages
    <2>6. HistoriesAreTyped'
      BY <1>1, <1>3 DEF Work, HistoriesAreTyped, RecursiveDecompose
    <2>7. Due' = Due + 1 /\ Due \in Nat
      <3>1. Due = UsedOuter(frames[1])
        BY <1>0 DEF Due, Used, RecursiveDecompose
      <3>2. UsedOuter(frames[1]) \in Nat
        BY <1>0, UsedIs DEF Work
      <3>3. Due' = Used'
        BY <1>3 DEF Due
      <3>4. Used' = UsedOuter(frames[1]) + UsedInner(Frame(s))
        BY <2>1 DEF Used, UsedOuter, UsedInner
      <3> QED
        BY <3>1, <3>2, <3>3, <3>4, FrameIs
    <2> QED
      BY <1>1, <2>3, <2>5, <2>6, <2>7 DEF Work
  <1> QED
    BY <1>2, <1>3 DEF RecursiveDecompose

LEMMA CloseKeeps ==
    ASSUME Work, CloseInner, builds' = builds
    PROVE  Work' /\ asked' - asked <= Due' - Due
  <1> DEFINE o == frames[1]
             g == o.slots[Len(o.done) + 1]
  <1>0. /\ frames \in Seq(Frames) /\ Len(frames) = 2 /\ Recursive /\ frames # <<>>
        /\ Unfinished(o) /\ stage = "close" /\ frames[2].tries = 0
    <2>1. stage = "close"
      BY Zenon DEF CloseInner
    <2> QED
      BY SMTT(30), <2>1 DEF Work, FramesInOrder
  <1>1. asked' = asked /\ asked' - asked = 0 /\ asked # asked + 1 /\ asked \in Nat
    <2>1. asked' = asked
      BY Zenon DEF CloseInner
    <2> QED
      BY <2>1, AskedIs
  <1>2. CASE Fails /\ UNCHANGED <<cache, accepted>>
    BY <1>0, <1>1, <1>2, FailKeeps
  <1>3. ASSUME NEW p \in Proofs,
               LET f == [o EXCEPT !.done = Append(@, p), !.tries = 0] IN
               /\ frames' = <<f>>
               /\ stage' = IF Len(f.done) < Len(f.slots) THEN "lookup" ELSE "assemble"
               /\ Accepts(g, p) /\ Caches(g, p) /\ UNCHANGED proposal
        PROVE  Work' /\ asked' - asked <= Due' - Due
    <2> DEFINE f == [o EXCEPT !.done = Append(@, p), !.tries = 0]
    <2>1. o \in Frames /\ o.done \in Seq(Proofs) /\ o.slots \in Skeletons
          /\ o.tries \in 0..Attempts
      <3>1. o \in Frames
        BY <1>0
      <3> HIDE DEF o
      <3> QED
        BY <3>1 DEF Frames
    <2>2. o.slots \in Seq(Subgoals) /\ Len(o.slots) \in 1..MaxSublemmas
          /\ Len(o.done) \in Nat
      BY <2>1, SkeletonsAreShort
    <2>3. g \in Subgoals
      BY <1>0, <2>2, ApolloAssumption DEF Unfinished
    <2>4. f \in Frames /\ f.slots = o.slots /\ f.done = Append(o.done, p) /\ f.tries = 0
      BY <2>1, FrameAdvances
    <2>5. /\ frames' = <<f>> /\ Accepts(g, p) /\ proposal' = proposal
          /\ cache' = [cache EXCEPT ![g] = p]
          /\ stage' = IF Len(f.done) < Len(f.slots) THEN "lookup" ELSE "assemble"
      BY <1>3 DEF Caches
    <2>a. /\ EarnedThen(g, p) /\ \A h, q : Earned(h, q) => EarnedThen(h, q)
          /\ accepted' \subseteq Goals \X Proofs /\ builds' \in BOOLEAN
      <3>1. PICK h \in Judged(g) : accepted' = accepted \cup {<<h, p>>}
        BY <2>5 DEF Accepts
      <3>2. h \in Goals
        BY <2>3, <3>1 DEF Judged, Goals
      <3> HIDE DEF g
      <3> QED
        BY <2>5, <3>1, <3>2, AcceptsEarns DEF Work, HistoriesAreTyped, Earned, EarnedThen
    <2> HIDE DEF f
    <2>6. Len(f.done) = Len(o.done) + 1 /\ Len(o.done) < Len(o.slots)
      BY <1>0, <2>1, <2>2, <2>4 DEF Unfinished
    <2>7. frames' \in Seq(Frames) /\ Len(frames') = 1 /\ frames'[1] = f
          /\ \A k \in DOMAIN frames' : k = 1
      BY <2>4, <2>5
    <2>8. SlotsAreProved'
      <3>1. SUFFICES ASSUME NEW j \in DOMAIN f.done
                     PROVE  EarnedThen(f.slots[j], f.done[j])
        BY <2>7 DEF SlotsAreProved, Earned, EarnedThen
      <3>2. CASE j \in DOMAIN o.done
        <4>1. f.done[j] = o.done[j]
          BY <2>1, <2>4, <3>2
        <4>2. Earned(o.slots[j], o.done[j])
          BY <1>0, <3>2 DEF Work, SlotsAreProved
        <4> QED
          BY <2>4, <2>a, <4>1, <4>2 DEF Earned, EarnedThen
      <3>3. CASE j \notin DOMAIN o.done
        <4>1. j = Len(o.done) + 1 /\ f.done[j] = p
          BY <2>1, <2>4, <3>1, <3>3
        <4> QED
          BY <2>4, <2>a, <4>1 DEF Earned, EarnedThen
      <3> QED
        BY <3>2, <3>3
    <2>9. FramesInOrder'
      <3>1. Within(f) /\ (stage' = "lookup" => Unfinished(f))
        BY <2>2, <2>4, <2>5, <2>6 DEF Within, Unfinished
      <3>2. stage' \in {"lookup", "assemble"} /\ frames' # <<>>
        BY <2>5
      <3> QED
        BY <2>4, <2>7, <3>1, <3>2 DEF FramesInOrder, Stages
    <2>10. HistoriesAreTyped'
      BY <1>1, <2>3, <2>5, <2>a DEF Work, HistoriesAreTyped, Goals
    <2>11. 0 <= Due' - Due
      <3> DEFINE d == Len(o.done)
                 e == Len(frames[2].done)
                 m == MaxSublemmas
      <3>1. /\ SlotCost \in Nat /\ Attempts \in Nat /\ o.tries \in 0..Attempts /\ d \in Nat
            /\ SlotCost = Attempts + 1 + m * Attempts /\ m * Attempts \in Nat /\ m \in Nat
        BY <1>0, <2>1, <2>2, CostsAre, AttemptsAreSome, ApolloAssumption
      <3>2. e \in Nat /\ e <= m
        BY <1>0, UsedIs, ApolloAssumption DEF Work, FramesInOrder, Within
      <3>3. Due = 1 + d * SlotCost + o.tries + (1 + e * Attempts + 0)
        BY <1>0 DEF Due, Used, UsedOuter, UsedInner
      <3>4. Due' = 1 + (d + 1) * SlotCost + 0
        <4>1. Due' = Used' /\ Used' = UsedOuter(f)
          BY <2>5, <2>7 DEF Due, Used, UsedOuter
        <4> QED
          BY <2>4, <2>6, <4>1 DEF UsedOuter
      <3> HIDE DEF d, e, m
      <3>5. (d + 1) * SlotCost = d * SlotCost + SlotCost /\ d * SlotCost \in Nat
        <4>1. d + 1 \in Nat /\ d < d + 1
          BY <3>1
        <4> QED
          BY <3>1, <4>1, Grows
      <3>6. e * Attempts <= m * Attempts /\ e * Attempts \in Nat
        <4>1. CASE e = m
          BY <3>1, <4>1
        <4>2. CASE e < m
          BY <3>1, <3>2, <4>2, Grows
        <4> QED
          BY <3>1, <3>2, <4>1, <4>2
      <3> QED
        BY <3>1, <3>3, <3>4, <3>5, <3>6
    <2> QED
      BY <1>1, <2>8, <2>9, <2>10, <2>11 DEF Work
  <1>4. frames[Len(frames) - 1] = o
    BY <1>0
  <1> QED
    BY <1>2, <1>3, <1>4, Zenon DEF CloseInner

LEMMA AssembleKeeps ==
    ASSUME Work, Assemble, builds' = builds
    PROVE  Work' /\ asked' - asked <= Due' - Due
  <1>1. asked' = asked /\ asked' - asked = 0 /\ asked # asked + 1
    BY AskedIs DEF Assemble
  <1>2. CASE Fails /\ UNCHANGED <<cache, accepted>>
    BY <1>1, <1>2, FailKeeps DEF Assemble
  <1>3. ASSUME NEW p \in Proofs, stage' = "won", proposal' = p, UNCHANGED frames,
               Accepts(Whole, p), Caches(Whole, p)
        PROVE  Work' /\ asked' - asked <= Due' - Due
    <2>0. accepted' = accepted \cup {<<Whole, p>>}
      BY <1>3 DEF Accepts, Judged
    <2>1. SlotsAreProved'
      BY <1>3, <2>0 DEF Work, SlotsAreProved, Earned
    <2>2. FramesInOrder' /\ HistoriesAreTyped'
      BY <1>1, <1>3, <2>0, ApolloAssumption
         DEF Work, FramesInOrder, HistoriesAreTyped, Stages, Caches, Goals
    <2>3. Due = Used /\ Due' = MaxAsked /\ Used <= MaxAsked
      BY <1>3, UsedIsBounded DEF Due, Assemble, Work
    <2>4. Used \in Nat /\ MaxAsked \in Nat
      BY UsedIs, CostsAre DEF Work
    <2>5. 0 <= Due' - Due
      BY <2>3, <2>4
    <2> QED
      BY <1>1, <2>1, <2>2, <2>5 DEF Work
  <1> QED
    BY <1>2, <1>3 DEF Assemble, ChecksWhole

\* Every step of the decomposer stays in its skeletons, builds on what was accepted only,
\* and asks for no more than what it may still ask for becomes less.
LEMMA ApolloKeeps ==
    ASSUME Work, ApolloStep, builds' = builds
    PROVE  Work' /\ asked' - asked <= Due' - Due
  BY RequestKeeps, LookupKeeps, DirectKeeps, DirectFailedKeeps, DeeperKeeps, CloseKeeps,
     AssembleKeeps DEF ApolloStep


----------------------------------------------------------------------------
(* The rounds: their lessons, their end, and what they ask of the prover.  *)

Places == {"idle", "cached", "round", "apollo", "propose", "verify", "review", "solved",
           "failed", "cancelled"}
Ended  == {"idle", "solved", "failed", "cancelled"}

\* The counters of a solve.  A round is over with one failure more, so that only the last
\* one, whose counter stays, may have as many failures behind it as there are rounds.
Rounds ==
    /\ pc \in Places /\ maxIter \in Nat /\ i \in Nat /\ i < maxIter
    /\ best \in Sorries \cup {None} /\ lastImprove \in 0..i
    /\ consecFail \in Nat /\ consecFail <= i + 1 /\ (pc \notin Ended => consecFail <= i)
    /\ apolloTried \in BOOLEAN /\ replans \in 0..ReplanMax
    /\ candidate \in Proofs \cup {None} /\ result \in Proofs \cup {None}
    /\ via \in {"cache", "apollo", "round"}
    /\ pc \in {"cached", "verify", "review"} => candidate # None
    /\ pc = "cached" => via = "cache"
    /\ pc = "verify" => via = "round"
    /\ (stage = "off") = (pc # "apollo")
    /\ pc = "apollo" => apolloTried

\* The lessons: each names its round, and there is one of the round before.
Lessons ==
    /\ notebook \in Seq(Int) /\ Len(notebook) <= MaxLessons
    /\ i > 0 => notebook # <<>> /\ notebook[Len(notebook)] >= i - 1

\* What was asked: once for each round that is over, once in this one if it has come to its
\* proposal, and what the decomposition has asked so far, or may have asked when it is over.
HasProposed == pc \in {"verify", "solved", "failed"} \/ (pc = "review" /\ via = "round")
InRound == IF HasProposed THEN 1 ELSE 0
Taken   == IF stage = "off" THEN (IF apolloTried THEN MaxAsked ELSE 0) ELSE Due
Paid ==
    /\ asked <= i + InRound + Taken
    /\ pc = "cached" \/ (pc = "review" /\ via = "cache") => i = 0

AgentInv == Work /\ Rounds /\ Lessons /\ Paid /\ GivesUpLate

LEMMA InitAgentInv == AgentInit => AgentInv
  <1> SUFFICES ASSUME AgentInit PROVE AgentInv
    OBVIOUS
  <1>1. frames = <<>> /\ frames \in Seq(Frames) /\ Len(frames) = 0 /\ stage = "off"
        /\ DOMAIN frames = {}
    BY DEF AgentInit, ApolloInit
  <1>2. Work
    BY <1>1 DEF AgentInit, ApolloInit, Work, FramesInOrder, HistoriesAreTyped, SlotsAreProved,
                Stages
  <1>3. Rounds
    <2>1. pc = "idle" /\ (stage = "off") = (pc # "apollo")
      BY <1>1 DEF AgentInit
    <2>2. /\ maxIter \in Nat /\ i \in Nat /\ i < maxIter /\ lastImprove \in 0..i
          /\ consecFail \in Nat /\ consecFail <= i + 1 /\ replans \in 0..ReplanMax
      BY AxproverAssumption DEF AgentInit
    <2> QED
      BY <2>1, <2>2 DEF AgentInit, ApolloInit, Rounds, Places, Ended
  <1>4. Lessons
    BY AxproverAssumption DEF AgentInit, Lessons
  <1>5. Paid
    BY <1>1 DEF AgentInit, ApolloInit, Paid, InRound, HasProposed, Taken
  <1>6. GivesUpLate
    BY DEF AgentInit, GivesUpLate
  <1> QED
    BY <1>2, <1>3, <1>4, <1>5, <1>6 DEF AgentInv

\* _push_lesson keeps the newest lessons: the last one is that of this round.
LEMMA NewestStay ==
    ASSUME Lessons, NEW n \in {1, 2}, i \in Nat
    PROVE  /\ PushLessons(notebook, n) \in Seq(Int)
           /\ Len(PushLessons(notebook, n)) \in 1..MaxLessons
           /\ PushLessons(notebook, n)[Len(PushLessons(notebook, n))] = i
  <1> DEFINE all == notebook \o [j \in 1..n |-> i]
             cut == IF Len(all) > MaxLessons THEN Len(all) - MaxLessons ELSE 0
  <1>1. [j \in 1..n |-> i] \in Seq(Int) /\ Len([j \in 1..n |-> i]) = n
    OBVIOUS
  <1>2. all \in Seq(Int) /\ Len(all) = Len(notebook) + n /\ all[Len(all)] = i
    BY <1>1 DEF Lessons
  <1> HIDE DEF all
  <1>3. MaxLessons \in Nat /\ MaxLessons >= 1 /\ Len(notebook) \in Nat
    BY AxproverAssumption DEF Lessons
  <1>4. cut \in Nat /\ cut < Len(all) /\ Len(all) - cut \in 1..MaxLessons
    BY <1>2, <1>3
  <1> HIDE DEF cut
  <1>5. /\ SubSeq(all, cut + 1, Len(all)) \in Seq(Int)
        /\ Len(SubSeq(all, cut + 1, Len(all))) = Len(all) - cut
        /\ SubSeq(all, cut + 1, Len(all))[Len(all) - cut] = all[Len(all)]
    BY <1>2, <1>4
  <1> QED
    BY <1>2, <1>4, <1>5 DEF PushLessons, all, cut

\* A round that fails is over with its lesson, and the solve with it only when the rounds
\* or the plans are used up.
LEMMA RoundOver ==
    ASSUME Rounds, Lessons, NEW last \in 0..i, RoundFails(last), maxIter' = maxIter
    PROVE  /\ Lessons' /\ GivesUpLate'
           /\ i' \in Nat /\ i' < maxIter /\ lastImprove' \in 0..i' /\ replans' \in 0..ReplanMax
           /\ candidate' = None /\ via' = "round"
           /\ \/ pc' = "failed" /\ i' = i
              \/ pc' = "round" /\ i' = i + 1
  <1> DEFINE stalled == StalledAt(last)
             replan  == stalled /\ replans < ReplanMax
             over    == (stalled /\ ~replan) \/ i + 1 = maxIter
             n == IF replan THEN 2 ELSE 1
  <1>1. /\ notebook' = PushLessons(notebook, n)
        /\ replans' = IF replan THEN replans + 1 ELSE replans
        /\ lastImprove' = IF replan THEN i ELSE last
        /\ i' = IF over THEN i ELSE i + 1
        /\ pc' = IF over THEN "failed" ELSE "round"
        /\ candidate' = None /\ via' = "round"
    BY DEF RoundFails, Drops
  <1>2. i \in Nat /\ maxIter \in Nat /\ i < maxIter /\ replans \in 0..ReplanMax
        /\ last \in Nat /\ ReplanMax \in Nat /\ Patience \in Nat
    BY AxproverAssumption DEF Rounds
  <1>3. n \in {1, 2}
    OBVIOUS
  <1>4. /\ notebook' \in Seq(Int) /\ Len(notebook') \in 1..MaxLessons
        /\ notebook'[Len(notebook')] = i
    BY <1>1, <1>2, <1>3, NewestStay
  <1>5. stalled => i - last >= Patience
    BY DEF StalledAt
  <1> HIDE DEF stalled, n
  <1>6. \/ pc' = "failed" /\ i' = i
        \/ pc' = "round" /\ i' = i + 1
    BY <1>1
  <1>7. i' \in Nat /\ i' < maxIter /\ lastImprove' \in 0..i' /\ replans' \in 0..ReplanMax
    <2>1. i' \in Nat /\ i' < maxIter /\ i' >= i
      BY <1>1, <1>2
    <2>2. lastImprove' \in 0..i /\ replans' \in 0..ReplanMax
      BY <1>1, <1>2
    <2> QED
      BY <1>2, <2>1, <2>2
  <1>8. Lessons'
    <2>1. notebook' # <<>> /\ Len(notebook') <= MaxLessons
      BY <1>4, AxproverAssumption
    <2>2. i >= i' - 1
      BY <1>2, <1>6
    <2> QED
      BY <1>4, <2>1, <2>2 DEF Lessons
  <1>9. ASSUME pc' = "failed"
        PROVE  i' + 1 = maxIter \/ (replans' = ReplanMax /\ i' - lastImprove' >= Patience)
    <2>1. over /\ i' = i
      BY <1>1, <1>9
    <2>2. CASE i + 1 = maxIter
      BY <2>1, <2>2
    <2>3. CASE stalled /\ ~replan
      <3>1. replans' = replans /\ lastImprove' = last /\ ~(replans < ReplanMax)
        BY <1>1, <2>3
      <3> QED
        BY <1>2, <1>5, <2>1, <2>3, <3>1
    <2> QED
      BY <2>1, <2>2, <2>3
  <1> QED
    BY <1>1, <1>6, <1>7, <1>8, <1>9 DEF GivesUpLate


\* A step of the rounds leaves the decomposer as it is, but for what is accepted, cached and
\* counted.
LEMMA WorkStays ==
    ASSUME Work, UNCHANGED <<stage, frames, proposal, builds>>,
           accepted \subseteq accepted', accepted' \subseteq Goals \X Proofs,
           cache' \in [Goals -> Proofs \cup {None}], asked' \in Nat
    PROVE  Work'
  <1>1. SlotsAreProved'
    BY DEF Work, SlotsAreProved, Earned
  <1>2. FramesInOrder' /\ HistoriesAreTyped'
    BY DEF Work, FramesInOrder, HistoriesAreTyped
  <1> QED
    BY <1>1, <1>2 DEF Work

\* Nothing of the decomposer is left when it is off.
LEMMA WorkIsOff ==
    ASSUME Work, stage' \in {"off", "skeleton"}, frames' = <<>>,
           proposal' \in Proofs \cup {None}, cache' = cache, builds' \in BOOLEAN,
           accepted' \subseteq Goals \X Proofs, asked' \in Nat
    PROVE  Work'
  <1>1. SlotsAreProved'
    BY DEF SlotsAreProved
  <1>2. frames' \in Seq(Frames) /\ Len(frames') = 0 /\ DOMAIN frames' = {}
    OBVIOUS
  <1>3. FramesInOrder'
    BY <1>2 DEF FramesInOrder, Stages
  <1>4. HistoriesAreTyped'
    BY DEF Work, HistoriesAreTyped
  <1> QED
    BY <1>1, <1>3, <1>4 DEF Work

\* The books, while the decomposer is off and stays so.
LEMMA TakenIs ==
    ASSUME Work, Rounds
    PROVE  /\ Taken \in Int /\ MaxAsked \in Nat /\ asked \in Nat /\ InRound \in {0, 1}
           /\ stage = "off" => Taken = IF apolloTried THEN MaxAsked ELSE 0
  BY CostsAre, DueIs DEF Taken, Rounds, InRound, Work, HistoriesAreTyped

LEMMA RoundFailsKeeps ==
    ASSUME AgentInv, NEW last \in 0..i, RoundFails(last),
           pc \in {"propose", "verify", "review"}, via = "round" \/ pc # "review",
           UNCHANGED <<maxIter, builds, apolloTried, result, stage, frames, proposal, cache, accepted>>,
           best' \in Sorries \cup {None}, consecFail' \in Nat, consecFail' <= consecFail + 1,
           asked' = IF pc = "propose" THEN asked + 1 ELSE asked
    PROVE  AgentInv'
  <1>1. /\ Lessons' /\ GivesUpLate'
        /\ i' \in Nat /\ i' < maxIter /\ lastImprove' \in 0..i' /\ replans' \in 0..ReplanMax
        /\ candidate' = None /\ via' = "round"
        /\ \/ pc' = "failed" /\ i' = i
           \/ pc' = "round" /\ i' = i + 1
    BY RoundOver DEF AgentInv
  <1>2. Work'
    BY WorkStays DEF AgentInv, Work, HistoriesAreTyped
  <1>3. i \in Nat /\ consecFail \in Nat /\ consecFail <= i /\ stage = "off"
    BY DEF AgentInv, Rounds, Ended
  <1>4. Rounds'
    <2>0. consecFail' <= i + 1
      BY <1>3
    <2>1. consecFail' <= i' + 1 /\ (pc' \notin Ended => consecFail' <= i')
      <3>1. CASE pc' = "failed" /\ i' = i
        BY <2>0, <3>1 DEF Ended
      <3>2. CASE pc' = "round" /\ i' = i + 1
        BY <1>3, <2>0, <3>2
      <3> QED
        BY <1>1, <3>1, <3>2
    <2>2. (stage' = "off") = (pc' # "apollo")
      BY <1>1, <1>3
    <2> QED
      BY <1>1, <2>1, <2>2 DEF AgentInv, Rounds, Places
  <1>5. Paid'
    <2>1. asked' <= i + 1 + Taken
      <3>1. /\ Taken \in Int /\ asked \in Nat /\ asked <= i + InRound + Taken
            /\ InRound \in {0, 1} /\ (pc = "propose" => InRound = 0)
        BY TakenIs DEF AgentInv, Paid, InRound, HasProposed
      <3> QED
        BY <1>3, <3>1
    <2>2. Taken' = Taken
      BY <1>3 DEF Taken
    <2>3. CASE pc' = "failed" /\ i' = i
      <3>1. InRound' = 1
        BY <2>3 DEF InRound, HasProposed
      <3> QED
        BY <1>1, <2>1, <2>2, <2>3, <3>1 DEF Paid
    <2>4. CASE pc' = "round" /\ i' = i + 1
      <3>1. InRound' = 0
        BY <2>4 DEF InRound, HasProposed
      <3>2. i + 1 + Taken = i + 1 + 0 + Taken
        BY <1>3, TakenIs DEF AgentInv
      <3> QED
        BY <1>1, <2>1, <2>2, <2>4, <3>1, <3>2 DEF Paid
    <2> QED
      BY <1>1, <2>3, <2>4
  <1> QED
    BY <1>1, <1>2, <1>4, <1>5 DEF AgentInv


LEMMA BeginKeeps ==
    ASSUME AgentInv, NEW m \in MaxIters, Begin(m)
    PROVE  AgentInv'
  <1>1. m \in Nat /\ m > 0
    BY AxproverAssumption
  <1>2. Work'
    BY WorkIsOff DEF AgentInv, Begin, Fresh
  <1>3. pc' \in {"round", "cached"} /\ (pc' = "cached" => candidate' # None)
        /\ candidate' \in Proofs \cup {None}
    BY DEF AgentInv, Work, HistoriesAreTyped, Begin, Goals
  <1>4. Rounds'
    <2>1. (stage' = "off") = (pc' # "apollo")
      BY <1>3 DEF Begin, Fresh
    <2>2. 0 \in 0..ReplanMax
      BY AxproverAssumption
    <2>3. /\ i' < maxIter' /\ lastImprove' \in 0..i' /\ consecFail' <= i' + 1 /\ i' \in Nat
          /\ maxIter' \in Nat /\ consecFail' \in Nat /\ consecFail' <= i'
      BY <1>1 DEF Begin, Fresh
    <2> QED
      BY <1>1, <1>3, <2>1, <2>2, <2>3 DEF Begin, Fresh, Rounds, Places, Ended
  <1>5. Lessons'
    BY AxproverAssumption DEF Begin, Fresh, Lessons
  <1>6. Paid'
    <2>1. InRound' = 0 /\ Taken' = 0
      BY <1>3 DEF Begin, Fresh, InRound, HasProposed, Taken
    <2> QED
      BY <2>1 DEF Begin, Fresh, Paid
  <1>7. GivesUpLate'
    BY <1>3 DEF GivesUpLate
  <1> QED
    BY <1>2, <1>4, <1>5, <1>6, <1>7 DEF AgentInv

LEMMA CancelledKeeps ==
    ASSUME AgentInv, Cancelled
    PROVE  AgentInv'
  <1>1. Work'
    BY WorkIsOff DEF AgentInv, Cancelled, Fresh, Work, HistoriesAreTyped
  <1>2. Rounds'
    <2>1. (stage' = "off") = (pc' # "apollo") /\ 0 < maxIter
      BY DEF Cancelled, Fresh, AgentInv, Rounds
    <2>2. 0 \in 0..ReplanMax
      BY AxproverAssumption
    <2>3. i' < maxIter' /\ lastImprove' \in 0..i' /\ consecFail' <= i' + 1 /\ i' \in Nat
      BY <2>1 DEF Cancelled, Fresh
    <2> QED
      BY <2>1, <2>2, <2>3 DEF AgentInv, Cancelled, Fresh, Rounds, Places, Ended
  <1>3. Lessons'
    BY AxproverAssumption DEF Cancelled, Fresh, Lessons
  <1>4. Paid'
    <2>1. InRound' = 0 /\ Taken' = 0
      BY DEF Cancelled, Fresh, InRound, HasProposed, Taken
    <2> QED
      BY <2>1 DEF Cancelled, Fresh, Paid
  <1>5. GivesUpLate'
    BY DEF Cancelled, GivesUpLate
  <1> QED
    BY <1>1, <1>2, <1>3, <1>4, <1>5 DEF AgentInv

\* A step that neither asks nor ends anything: the counters stay, or an improvement is noted.
LEMMA CalmKeeps ==
    ASSUME AgentInv, pc \notin Ended, stage = "off",
           pc' \in {"round", "propose", "verify", "review", "solved"},
           UNCHANGED <<maxIter, builds, i, replans, apolloTried, stage, frames, proposal>>,
           notebook' = notebook \/ notebook' = PushLessons(notebook, 1),
           best' \in Sorries \cup {None}, lastImprove' \in 0..i,
           consecFail' \in Nat, consecFail' <= consecFail,
           candidate' \in Proofs \cup {None}, result' \in Proofs \cup {None},
           via' \in {"cache", "apollo", "round"},
           pc' \in {"verify", "review"} => candidate' # None,
           pc' = "verify" => via' = "round",
           accepted \subseteq accepted', accepted' \subseteq Goals \X Proofs,
           cache' \in [Goals -> Proofs \cup {None}],
           asked' = asked \/ (asked' = asked + 1 /\ ~HasProposed),
           HasProposed \/ asked' = asked + 1 => HasProposed',
           pc' = "review" /\ via' = "cache" => i = 0
    PROVE  AgentInv'
  <1>1. asked \in Nat /\ asked' \in Nat /\ Taken \in Int /\ i \in Nat
    BY TakenIs DEF AgentInv, Rounds
  <1>2. Work'
    BY <1>1, WorkStays DEF AgentInv
  <1>3. Rounds'
    <2>1. (stage' = "off") = (pc' # "apollo")
      OBVIOUS
    <2>2. consecFail' <= i
      BY <1>1 DEF AgentInv, Rounds
    <2> QED
      BY <1>1, <2>1, <2>2 DEF AgentInv, Rounds, Places, Ended
  <1>4. Lessons'
    <2>1. CASE notebook' = notebook
      BY <2>1 DEF AgentInv, Lessons
    <2>2. CASE notebook' = PushLessons(notebook, 1)
      <3>1. /\ notebook' \in Seq(Int) /\ Len(notebook') \in 1..MaxLessons
            /\ notebook'[Len(notebook')] = i
        BY <1>1, <2>2, NewestStay DEF AgentInv
      <3>2. notebook' # <<>> /\ Len(notebook') <= MaxLessons
        BY <3>1, AxproverAssumption
      <3> QED
        BY <1>1, <3>1, <3>2 DEF Lessons
    <2> QED
      BY <2>1, <2>2
  <1>5. Paid'
    <2>1. Taken' = Taken
      BY DEF Taken
    <2>2. CASE asked' = asked /\ (HasProposed => HasProposed')
      <3>1. \/ InRound' = InRound
            \/ InRound = 0 /\ InRound' = 1
        BY <2>2 DEF InRound
      <3>2. asked <= i + InRound + Taken /\ InRound \in {0, 1}
        BY TakenIs DEF Paid, AgentInv
      <3>3. asked <= i + 0 + Taken => asked <= i + 1 + Taken
        BY <1>1
      <3> QED
        BY <2>1, <2>2, <3>1, <3>2, <3>3 DEF Paid
    <2>3. CASE asked' = asked + 1 /\ ~HasProposed /\ HasProposed'
      <3>1. InRound = 0 /\ InRound' = 1
        BY <2>3 DEF InRound
      <3> QED
        BY <1>1, <2>1, <2>3, <3>1 DEF Paid, AgentInv
    <2> QED
      BY <2>2, <2>3
  <1>6. GivesUpLate'
    BY DEF GivesUpLate
  <1> QED
    BY <1>2, <1>3, <1>4, <1>5, <1>6 DEF AgentInv


\* What the loop's own values may be, for the steps below.
LEMMA ValuesAre ==
    ASSUME AgentInv
    PROVE  /\ asked \in Nat /\ asked + 1 \in Nat /\ i \in Nat /\ consecFail \in Nat
           /\ lastImprove \in 0..i /\ best \in Sorries \cup {None} /\ i \in 0..i
           /\ cache \in [Goals -> Proofs \cup {None}] /\ accepted \subseteq Goals \X Proofs
           /\ candidate \in Proofs \cup {None} /\ result \in Proofs \cup {None}
           /\ proposal \in Proofs \cup {None} /\ via \in {"cache", "apollo", "round"}
           /\ (pc # "apollo") = (stage = "off")
           /\ pc \in {"cached", "verify", "review"} => candidate \in Proofs
           /\ consecFail + 1 \in Nat /\ consecFail <= consecFail /\ 0 <= consecFail
           /\ consecFail + 1 <= consecFail + 1 /\ 0 + 1 <= consecFail + 1
           /\ Whole \in Goals /\ asked # asked + 1 /\ builds \in BOOLEAN
  BY DEF AgentInv, Work, HistoriesAreTyped, Rounds, Goals

LEMMA TryCachedKeeps ==
    ASSUME AgentInv, TryCached
    PROVE  AgentInv'
  <1>1. pc = "cached" /\ stage = "off" /\ i = 0 /\ via = "cache"
    BY ValuesAre DEF TryCached, AgentInv, Paid, Rounds
  <1>2. ~HasProposed
    BY <1>1 DEF HasProposed
  <1>3. CASE pc' = "review" /\ Accepts(Whole, candidate) /\ UNCHANGED <<candidate, via>>
    <2>1. accepted' = accepted \cup {<<Whole, candidate>>} /\ candidate \in Proofs
          /\ candidate # None
      BY <1>1, <1>3, ValuesAre, ApolloAssumption DEF Accepts, Judged
    <2> QED
      BY <1>1, <1>2, <1>3, <2>1, ValuesAre, CalmKeeps DEF TryCached, loopVars, Ended
  <1>4. CASE pc' = "round" /\ Drops /\ UNCHANGED accepted
    BY <1>1, <1>2, <1>4, ValuesAre, CalmKeeps DEF TryCached, Drops, loopVars, Ended
  <1> QED
    BY <1>3, <1>4 DEF TryCached

LEMMA ProposeFailsKeeps ==
    ASSUME AgentInv, ProposeFails
    PROVE  AgentInv'
  BY ValuesAre, RoundFailsKeeps DEF ProposeFails, Asks

LEMMA ProposeKeeps ==
    ASSUME AgentInv, NEW p \in Proofs, Propose(p)
    PROVE  AgentInv'
  <1>1. pc = "propose" /\ stage = "off" /\ pc \notin Ended /\ ~HasProposed /\ HasProposed'
    BY ValuesAre DEF Propose, Ended, HasProposed
  <1>2. p # None
    BY ApolloAssumption
  <1> QED
    BY <1>1, <1>2, ValuesAre, CalmKeeps DEF Propose, Asks, loopVars

LEMMA VerifyRaisesKeeps ==
    ASSUME AgentInv, VerifyRaises
    PROVE  AgentInv'
  BY ValuesAre, RoundFailsKeeps DEF VerifyRaises, apolloVars

LEMMA NotedIs ==
    ASSUME AgentInv, NEW rem \in Sorries, Noted(rem)
    PROVE  /\ best' \in Sorries \cup {None} /\ SinceImproved(rem) \in 0..i
           /\ FailsSince(rem) \in Nat /\ FailsSince(rem) <= consecFail
           /\ FailsSince(rem) + 1 \in Nat /\ FailsSince(rem) + 1 <= consecFail + 1
  BY ValuesAre DEF Noted, SinceImproved, FailsSince

LEMMA RejectedKeeps ==
    ASSUME AgentInv, NEW rem \in Sorries, Rejected(rem)
    PROVE  AgentInv'
  BY ValuesAre, NotedIs, RoundFailsKeeps DEF Rejected, apolloVars

LEMMA VerifiedKeeps ==
    ASSUME AgentInv, NEW rem \in Sorries, Verified(rem)
    PROVE  AgentInv'
  <1>1. pc = "verify" /\ stage = "off" /\ pc \notin Ended /\ candidate # None
    BY ValuesAre DEF Verified, Ended, AgentInv, Rounds
  <1>2. via = "round"
    BY <1>1 DEF AgentInv, Rounds
  <1>3. HasProposed /\ HasProposed'
    BY <1>1, <1>2 DEF HasProposed, Verified
  <1> QED
    BY <1>1, <1>2, <1>3, ValuesAre, NotedIs, CalmKeeps DEF Verified, Accepts, Judged

LEMMA ApproveKeeps ==
    ASSUME AgentInv, Approve
    PROVE  AgentInv'
  <1>1. pc = "review" /\ stage = "off" /\ pc \notin Ended /\ candidate \in Proofs
    BY ValuesAre DEF Approve, Ended
  <1>2. cache' \in [Goals -> Proofs \cup {None}]
    BY <1>1, ValuesAre DEF Approve, Caches
  <1>3. HasProposed'
    BY DEF HasProposed, Approve
  <1> QED
    BY <1>1, <1>2, <1>3, ValuesAre, CalmKeeps DEF Approve, loopVars

LEMMA DisapproveKeeps ==
    ASSUME AgentInv, Disapprove
    PROVE  AgentInv'
  <1>1. pc = "review" /\ stage = "off" /\ pc \notin Ended
    BY ValuesAre DEF Disapprove, Ended
  <1>2. CASE via = "cache" /\ pc' = "round" /\ Drops /\ UNCHANGED loopVars
    <2>1. ~HasProposed
      BY <1>2, <1>1 DEF HasProposed
    <2> QED
      BY <1>1, <1>2, <2>1, ValuesAre, CalmKeeps DEF Disapprove, Drops, loopVars, apolloVars
  <1>3. CASE /\ via = "apollo" /\ pc' = "propose" /\ Drops
             /\ notebook' = PushLessons(notebook, 1)
             /\ UNCHANGED <<i, best, lastImprove, consecFail, replans>>
    <2>1. ~HasProposed
      BY <1>3, <1>1 DEF HasProposed
    <2> QED
      BY <1>1, <1>3, <2>1, ValuesAre, CalmKeeps DEF Disapprove, Drops, apolloVars
  <1>4. CASE /\ via = "round" /\ consecFail' = consecFail + 1
             /\ RoundFails(lastImprove) /\ UNCHANGED best
    BY <1>1, <1>4, ValuesAre, RoundFailsKeeps DEF Disapprove, apolloVars
  <1> QED
    BY <1>2, <1>3, <1>4 DEF Disapprove

\* Only its caller turns the decomposer off.
LEMMA StaysOn ==
    ASSUME ApolloStep, stage # "off"
    PROVE  stage' # "off"
  BY DEF ApolloStep, RequestSkeleton, Lookup, TriesCached, Direct, CountsTry, DirectFailed,
         RecursiveDecompose, CloseInner, Assemble, ChecksWhole, Proven, Fails

LEMMA StillPaid ==
    ASSUME NEW a \in Nat, NEW b \in Nat, NEW d \in Int, NEW e \in Int, NEW n \in Nat,
           a <= n + d, b - a <= e - d
    PROVE  b <= n + e
  OBVIOUS

LEMMA RoundHeadKeeps ==
    ASSUME AgentInv, RoundHead
    PROVE  AgentInv'
  <1>1. pc = "round" /\ stage = "off" /\ pc \notin Ended /\ ~HasProposed
    BY ValuesAre DEF RoundHead, Ended, HasProposed
  <1>2. CASE pc' = "propose" /\ UNCHANGED <<apolloTried, stage, frames>>
    BY <1>1, <1>2, ValuesAre, CalmKeeps DEF RoundHead, loopVars
  <1>3. CASE /\ ~apolloTried /\ pc' = "apollo" /\ apolloTried' = TRUE
             /\ stage' = "skeleton" /\ frames' = <<>>
    <2>1. Work'
      BY <1>3, ValuesAre, WorkIsOff DEF RoundHead, AgentInv
    <2>2. Rounds'
      <3>1. (stage' = "off") = (pc' # "apollo")
        BY <1>3
      <3> QED
        BY <1>1, <1>3, <3>1 DEF RoundHead, loopVars, AgentInv, Rounds, Places, Ended
    <2>3. Lessons'
      BY DEF RoundHead, loopVars, AgentInv, Lessons
    <2>4. Paid'
      <3>1. Len(frames') = 0
        BY <1>3
      <3>2. Taken' = 0 /\ InRound' = 0
        BY <1>3, <3>1 DEF Taken, Due, Used, InRound, HasProposed
      <3>3. Taken = 0 /\ InRound = 0
        BY <1>1, <1>3 DEF Taken, InRound
      <3> QED
        BY <1>3, <3>2, <3>3 DEF RoundHead, loopVars, AgentInv, Paid
    <2>5. GivesUpLate'
      BY <1>3 DEF GivesUpLate
    <2> QED
      BY <2>1, <2>2, <2>3, <2>4, <2>5 DEF AgentInv
  <1> QED
    BY <1>2, <1>3 DEF RoundHead, TimeForApollo

LEMMA DuringApolloKeeps ==
    ASSUME AgentInv, DuringApollo
    PROVE  AgentInv'
  <1>1. Work' /\ asked' - asked <= Due' - Due
    BY ApolloKeeps DEF DuringApollo, AgentInv, solveVars
  <1>2. stage # "off" /\ stage' # "off" /\ pc = "apollo" /\ UNCHANGED solveVars
    <2>1. stage # "off" /\ pc = "apollo" /\ ApolloStep
      BY ValuesAre DEF DuringApollo
    <2>2. stage' # "off"
      BY <2>1, StaysOn
    <2> QED
      BY <2>1, <2>2 DEF DuringApollo
  <1>3. Rounds'
    BY <1>2 DEF AgentInv, Rounds, solveVars, loopVars, Places, Ended
  <1>4. Lessons' /\ GivesUpLate'
    BY <1>2 DEF AgentInv, Lessons, GivesUpLate, solveVars, loopVars
  <1>5. Paid'
    <2>1. InRound = 0 /\ InRound' = 0 /\ Taken = Due /\ Taken' = Due'
      BY <1>2 DEF InRound, HasProposed, Taken, solveVars
    <2>2. Due \in Int /\ (Due \in Int)' /\ i \in Nat
      BY <1>1, DueIs, NextDueIs, ValuesAre DEF AgentInv
    <2>3. asked \in Nat /\ asked' \in Nat
      BY <1>1, ValuesAre DEF Work, HistoriesAreTyped
    <2>4. asked <= i + Due
      BY <2>1, <2>2 DEF AgentInv, Paid
    <2>5. asked' <= i + Due'
      <3>1. asked' - asked <= Due' - Due
        BY <1>1
      <3> QED
        BY <2>2, <2>3, <2>4, <3>1, StillPaid
    <2> QED
      BY <1>2, <2>1, <2>2, <2>5 DEF Paid, solveVars, loopVars
  <1> QED
    BY <1>1, <1>3, <1>4, <1>5 DEF AgentInv

LEMMA ApolloReturnsKeeps ==
    ASSUME AgentInv, ApolloReturns
    PROVE  AgentInv'
  <1>1. pc = "apollo" /\ stage \in {"won", "lost"} /\ apolloTried /\ apolloTried' = apolloTried
    BY DEF ApolloReturns, AgentInv, Rounds
  <1>2. pc' \in {"review", "propose"} /\ (pc' = "review" => via' = "apollo")
        /\ candidate' \in Proofs \cup {None} /\ via' \in {"cache", "apollo", "round"}
    BY ValuesAre DEF ApolloReturns
  <1>3. Work'
    BY ValuesAre, WorkIsOff DEF ApolloReturns, AgentInv
  <1>4. pc' = "review" => candidate' # None
    BY DEF ApolloReturns, AgentInv, Work, FramesInOrder
  <1>5. Rounds'
    <2>1. (stage' = "off") = (pc' # "apollo")
      BY <1>2 DEF ApolloReturns
    <2> QED
      BY <1>1, <1>2, <1>4, <2>1 DEF ApolloReturns, AgentInv, Rounds, Places, Ended
  <1>6. Lessons'
    <2>1. CASE notebook' = notebook
      BY <2>1 DEF ApolloReturns, AgentInv, Lessons
    <2>2. CASE notebook' = PushLessons(notebook, 1)
      <3>1. /\ notebook' \in Seq(Int) /\ Len(notebook') \in 1..MaxLessons
            /\ notebook'[Len(notebook')] = i
        BY <2>2, ValuesAre, NewestStay DEF AgentInv
      <3>2. notebook' # <<>> /\ Len(notebook') <= MaxLessons
        BY <3>1, AxproverAssumption
      <3> QED
        BY <3>1, <3>2, ValuesAre DEF Lessons, ApolloReturns
    <2> QED
      BY <2>1, <2>2 DEF ApolloReturns
  <1>7. Paid'
    <2>1. InRound = 0 /\ InRound' = 0
      BY <1>1, <1>2 DEF InRound, HasProposed
    <2>2. Taken = MaxAsked /\ Taken' = MaxAsked
      BY <1>1 DEF Taken, Due, ApolloReturns
    <2> QED
      BY <1>2, <2>1, <2>2 DEF ApolloReturns, AgentInv, Paid
  <1>8. GivesUpLate'
    BY <1>2 DEF GivesUpLate
  <1> QED
    BY <1>3, <1>5, <1>6, <1>7, <1>8 DEF AgentInv


LEMMA AgentStepKeeps ==
    ASSUME AgentInv, [AgentNext]_agentVars
    PROVE  AgentInv'
  <1>1. CASE UNCHANGED agentVars
    <2>1. /\ UNCHANGED <<stage, frames, proposal, cache, accepted, asked, builds>>
          /\ UNCHANGED <<pc, maxIter, i, candidate, via, best, lastImprove>>
          /\ UNCHANGED <<consecFail, apolloTried, replans, notebook, result>>
      BY <1>1 DEF agentVars, apolloVars, solveVars, loopVars
    <2>2. Work'
      BY <2>1, WorkStays DEF AgentInv, Work, HistoriesAreTyped
    <2>3. Rounds' /\ Lessons' /\ GivesUpLate'
      BY <2>1 DEF AgentInv, Rounds, Places, Ended, Lessons, GivesUpLate
    <2>4. Paid'
      <3>1. Taken' = Taken /\ InRound' = InRound
        BY <2>1 DEF Taken, InRound, HasProposed, Due, Used, UsedOuter, UsedInner
      <3> QED
        BY <2>1, <3>1 DEF AgentInv, Paid
    <2> QED
      BY <2>2, <2>3, <2>4 DEF AgentInv
  <1>2. CASE AgentNext
    BY <1>1, <1>2, BeginKeeps, TryCachedKeeps, RoundHeadKeeps, DuringApolloKeeps,
       ApolloReturnsKeeps, ProposeFailsKeeps, ProposeKeeps, VerifyRaisesKeeps, RejectedKeeps,
       VerifiedKeeps, ApproveKeeps, DisapproveKeeps, CancelledKeeps DEF AgentNext, Spent
  <1> QED
    BY <1>1, <1>2

\* What the run checks of the agentic loop follows.
LEMMA AgentPromises ==
    ASSUME AgentInv
    PROVE  /\ AgentTypeOK /\ SlotsAreProved /\ FeedbackIsFresh /\ GivesUpLate
           /\ AsksAreBounded
  <1>1. SlotsAreProved /\ GivesUpLate
    BY DEF AgentInv, Work
  <1>2. FeedbackIsFresh
    BY DEF FeedbackIsFresh, Last, AgentInv, Lessons
  <1>3. ApolloTypeOK
    <2>1. Len(frames) \in 0..2
      BY FramesAreFew DEF AgentInv, Work
    <2>2. ASSUME NEW n \in DOMAIN frames
          PROVE  /\ frames[n].slots \in Skeletons /\ frames[n].tries \in 0..Attempts
                 /\ Len(frames[n].done) <= Len(frames[n].slots)
                 /\ \A j \in DOMAIN frames[n].done : frames[n].done[j] \in Proofs
      <3>1. frames[n] \in Frames /\ Within(frames[n])
        BY UsedIs DEF AgentInv, Work, FramesInOrder
      <3>2. frames[n].slots \in Skeletons /\ frames[n].tries \in 0..Attempts
            /\ frames[n].done \in Seq(Proofs)
        BY <3>1 DEF Frames
      <3> QED
        BY <3>1, <3>2 DEF Within
    <2> QED
      BY <2>1, <2>2 DEF ApolloTypeOK, AgentInv, Work, FramesInOrder, HistoriesAreTyped, Stages
  <1>4. AgentTypeOK
    <2>1. consecFail \in 0..maxIter
      BY DEF AgentInv, Rounds
    <2> QED
      BY <1>3, <2>1 DEF AgentTypeOK, AgentInv, Rounds, Lessons, Places
  <1>5. AsksAreBounded
    <2>1. Taken <= (IF apolloTried THEN MaxAsked ELSE 0) /\ Taken \in Int /\ InRound \in {0, 1}
      <3>1. CASE stage = "off"
        BY <3>1, TakenIs DEF AgentInv
      <3>2. CASE stage # "off"
        <4>1. apolloTried /\ Taken = Due
          BY <3>2 DEF AgentInv, Rounds, Taken
        <4>2. Due <= MaxAsked /\ Due \in Int
          BY UsedIsBounded, DueIs, CostsAre DEF Due, AgentInv, Work
        <4> QED
          BY <4>1, <4>2, TakenIs DEF AgentInv
      <3> QED
        BY <3>1, <3>2
    <2>2. asked <= i + InRound + Taken /\ asked \in Nat /\ i \in Nat /\ MaxAsked \in Nat
      BY ValuesAre, CostsAre DEF AgentInv, Paid
    <2> QED
      BY <2>1, <2>2 DEF AsksAreBounded
  <1> QED
    BY <1>1, <1>2, <1>3, <1>4, <1>5


----------------------------------------------------------------------------
(* The strategy moves by one step at a time and towards its range.         *)

\* The evaluation underway, if there is one, was put with the strategy in force: nobody
\* else changes it until the answer is there, neither the plan nor a second evaluation.
AskedInForce ==
    /\ strategy \in [Knobs -> Nat]
    /\ asking = <<>> \/ asking = <<strategy>>
    /\ ~planned => asking = <<>>
    /\ adjusted \in BOOLEAN /\ planned \in BOOLEAN /\ ended \in BOOLEAN
    /\ sinceEval \in 0..EvalEvery

LEMMA InitAskedInForce == StrategyInit => AskedInForce
  <1> SUFFICES ASSUME StrategyInit PROVE AskedInForce
    OBVIOUS
  <1>1. strategy \in [Knobs -> Nat]
    BY StrategyControlAssumption DEF StrategyInit
  <1>2. sinceEval \in 0..EvalEvery
    BY StrategyControlAssumption DEF StrategyInit
  <1>3. adjusted \in BOOLEAN /\ planned \in BOOLEAN /\ ended \in BOOLEAN
    BY DEF StrategyInit
  <1> QED
    BY <1>1, <1>2, <1>3, Zenon DEF StrategyInit, AskedInForce

\* An answer has an integer for each knob.
LEMMA AnswersAreNumbers ==
    ASSUME NEW old \in [Knobs -> Nat], NEW answer \in Answers(old), NEW k \in Knobs
    PROVE  answer[k] \in Int
  <1>1. PICK d \in [Knobs -> {"low", "less", "same", "high"}] :
            answer = [j \in Knobs |->
                CASE d[j] = "low" -> Lo(j) - 1 [] d[j] = "high" -> Hi(j) + 1
                  [] d[j] = "less" -> old[j] - 1 [] d[j] = "same" -> old[j]]
    BY DEF Answers
  <1>2. Lo(k) \in Nat /\ Hi(k) \in Nat
    BY StrategyControlAssumption DEF Lo, Hi
  <1>3. d[k] \in {"low", "less", "same", "high"}
    OBVIOUS
  <1> QED
    BY <1>1, <1>2, <1>3

\* _apply_adjustment: one step at most, never away from the range, never below zero.
LEMMA AdjustmentIsOneStep ==
    ASSUME NEW old \in [Knobs -> Nat], NEW answer \in Answers(old)
    PROVE  /\ Adjustment(old, answer) \in [Knobs -> Nat]
           /\ \A k \in Knobs :
                 /\ Adjustment(old, answer)[k] - old[k] \in -1..1
                 /\ Off(k, Adjustment(old, answer)[k]) <= Off(k, old[k])
  <1>1. ASSUME NEW k \in Knobs
        PROVE  /\ Adjustment(old, answer)[k] \in Nat
               /\ Adjustment(old, answer)[k] - old[k] \in -1..1
               /\ Off(k, Adjustment(old, answer)[k]) <= Off(k, old[k])
    <2>1. Lo(k) \in Nat /\ Hi(k) \in Nat /\ Lo(k) <= Hi(k)
      BY StrategyControlAssumption DEF Lo, Hi
    <2>2. answer[k] \in Int
      BY AnswersAreNumbers
    <2>3. PICK v \in Lo(k)..Hi(k) :
              Adjustment(old, answer)[k] = Greatest(old[k] - 1, Least(old[k] + 1, v))
      <3>1. Greatest(Lo(k), Least(Hi(k), answer[k])) \in Lo(k)..Hi(k)
        BY <2>1, <2>2 DEF Greatest, Least
      <3> QED
        BY <3>1 DEF Adjustment
    <2>4. old[k] \in Nat
      OBVIOUS
    <2> QED
      BY <2>1, <2>3, <2>4 DEF Greatest, Least, Off
  <1>2. Adjustment(old, answer) = [k \in Knobs |-> Adjustment(old, answer)[k]]
    BY DEF Adjustment
  <1> QED
    BY <1>1, <1>2

\* A value that stays is not off by more than before.
LEMMA StayingIsNoStep ==
    ASSUME NEW old \in [Knobs -> Nat]
    PROVE  \A k \in Knobs : /\ old[k] - old[k] \in -1..1
                            /\ Off(k, old[k]) <= Off(k, old[k])
  <1>1. ASSUME NEW k \in Knobs
        PROVE  Off(k, old[k]) \in Int
    BY StrategyControlAssumption DEF Off, Greatest, Lo, Hi
  <1> QED
    BY <1>1

Step == \A k \in Knobs : /\ strategy'[k] - strategy[k] \in -1..1
                         /\ Off(k, strategy'[k]) <= Off(k, strategy[k])

LEMMA StepsAreSmall ==
    ASSUME AskedInForce, [StrategyNext]_strategyVars
    PROVE  AskedInForce' /\ Step
  <1>0. ASSUME strategy' = strategy
        PROVE  Step /\ strategy' \in [Knobs -> Nat]
    BY <1>0, StayingIsNoStep DEF AskedInForce, Step
  <1>1. ASSUME NEW a \in Answers(strategy), Plan(a)
        PROVE  AskedInForce' /\ Step
    <2>1. strategy' = Adjustment(strategy, a)
      BY <1>1 DEF Plan, Stores
    <2>2. Step /\ strategy' \in [Knobs -> Nat]
      BY <2>1, AdjustmentIsOneStep DEF AskedInForce, Step
    <2>3. asking' = <<>>
      BY <1>1 DEF Plan, AskedInForce
    <2> QED
      BY <1>1, <2>2, <2>3 DEF Plan, Stores, AskedInForce
  <1>2. ASSUME NEW t \in BOOLEAN, TaskDone(t)
        PROVE  AskedInForce' /\ Step
    <2>1. strategy' = strategy
      BY <1>2 DEF TaskDone
    <2>2. asking' = <<>> \/ asking' = <<strategy'>>
      <3>1. CASE asking = <<>>
        <4>1. Append(asking, strategy) = <<strategy>>
          BY <3>1
        <4> QED
          BY <1>2, <2>1, <3>1, <4>1 DEF TaskDone
      <3>2. CASE asking # <<>>
        BY <1>2, <2>1, <3>2 DEF TaskDone, MayEvaluate, AskedInForce
      <3> QED
        BY <3>1, <3>2
    <2>3. sinceEval' \in 0..EvalEvery
      BY <1>2, StrategyControlAssumption DEF TaskDone, AskedInForce, Least
    <2> QED
      BY <1>0, <1>2, <2>1, <2>2, <2>3 DEF TaskDone, AskedInForce
  <1>3. ASSUME NEW j \in DOMAIN asking, NEW a \in Answers(asking[j]), Evaluated(j, a)
        PROVE  AskedInForce' /\ Step
    <2>1. j = 1 /\ asking = <<strategy>>
      BY DEF AskedInForce
    <2>2. asking' = <<>>
      BY <1>3, <2>1 DEF Evaluated, RemoveAt
    <2>3. strategy' = Adjustment(strategy, a) /\ a \in Answers(strategy)
      BY <1>3, <2>1 DEF Evaluated, Stores
    <2>4. Step /\ strategy' \in [Knobs -> Nat]
      BY <2>3, AdjustmentIsOneStep DEF AskedInForce, Step
    <2> QED
      BY <1>3, <2>2, <2>4 DEF Evaluated, Stores, AskedInForce
  <1>4. CASE RunEnds
    BY <1>0, <1>4 DEF RunEnds, AskedInForce
  <1>5. CASE EvaluationDropped
    BY <1>0, <1>5 DEF EvaluationDropped, AskedInForce
  <1>6. CASE Settled \/ UNCHANGED strategyVars
    BY <1>0, <1>6 DEF Settled, strategyVars, AskedInForce
  <1> QED
    BY <1>1, <1>2, <1>3, <1>4, <1>5, <1>6 DEF StrategyNext

\* Whatever the LLM answers and however late: no knob moves by more than one step from the
\* value in force, nor away from its range (agents.py:356-392, orchestrator.py:1055-1080).
THEOREM StrategyMovesByOne == StrategySpec => OneStepAtATime
  <1>1. StrategyInit => AskedInForce
    BY InitAskedInForce
  <1>2. AskedInForce /\ [StrategyNext]_strategyVars => AskedInForce' /\ [Step]_strategyVars
    BY StepsAreSmall
  <1>3. (StrategyInit /\ [][StrategyNext]_strategyVars) => [][Step]_strategyVars
    BY <1>1, <1>2, PTL
  <1> QED
    BY <1>3 DEF StrategySpec, OneStepAtATime, Step

LEMMA StrategyPromises ==
    ASSUME AskedInForce
    PROVE  StrategyTypeOK
  <1>1. Len(asking) <= 1
    <2>1. CASE asking = <<>>
      BY <2>1
    <2>2. CASE asking = <<strategy>>
      BY <2>2
    <2> QED
      BY <2>1, <2>2 DEF AskedInForce
  <1> QED
    BY <1>1 DEF AskedInForce, StrategyTypeOK

----------------------------------------------------------------------------
(* The tactic search: the beam, what was seen, and what it cost.           *)

\* A round has the proofs of one length; what was seen is what was paid for; and the replies
\* still to be tried are within the budget and one state's replies.
Search ==
    /\ shape \in Shapes /\ sought \in {"propose", "verify", "solved", "failed"}
    /\ depth \in 1..MaxDepth /\ beam \in Seq(Seq(Tactics)) /\ Len(beam) \in 1..Width
    /\ \A j \in DOMAIN beam : Len(beam[j]) = depth - 1
    /\ at \in 1..Len(beam) + 1 /\ (sought = "verify" => at <= Len(beam))
    /\ replies \in Seq(Tactics)
    /\ visited \subseteq Seq(Tactics) /\ IsFiniteSet(visited)
    /\ \A p \in visited : Len(p) <= depth
    /\ DOMAIN candidates = Ranks
    /\ \A r \in Ranks : candidates[r] \subseteq visited /\ \A p \in candidates[r] : Len(p) = depth
    /\ least \in Reports \cup {-1}
    /\ expanded = Cardinality(visited) /\ verified = expanded
    /\ expanded + Len(replies) < Budget + Asked

LEMMA ShapeIs ==
    ASSUME shape \in Shapes
    PROVE  /\ MaxDepth \in Nat /\ MaxDepth >= 1 /\ Width \in Nat /\ Width >= 1
           /\ Budget \in Nat /\ Asked \in Nat /\ Asked >= 1
  <1>1. /\ MaxDepth \in Nat /\ MaxDepth >= 1 /\ Width \in Nat /\ Width >= 1
        /\ shape[3] \in 0..10
    <2>1. shape \in (Nat \ {0}) \X (Nat \ {0}) \X (0..10)
      BY TacticSearchAssumption
    <2> QED
      BY <2>1 DEF MaxDepth, Width
  <1>2. Budget \in Nat
    <2>1. BudgetFactor \in Nat
      BY TacticSearchAssumption
    <2> QED
      BY <1>1, <2>1 DEF Budget
  <1>3. ASSUME NEW n \in Nat PROVE Rounded(n) \in Nat
    <2>1. n \div 10 \in Nat /\ n % 10 \in 0..9
      OBVIOUS
    <2> QED
      BY <2>1 DEF Rounded
  <1>4. Width * shape[3] \in Nat
    BY <1>1
  <1>5. Rounded(Width * shape[3]) \in Nat
    BY <1>3, <1>4
  <1>6. Asked \in Nat /\ Asked >= 1
    BY <1>1, <1>5 DEF Asked
  <1> QED
    BY <1>1, <1>2, <1>6

LEMMA RanksAre == Ranks \subseteq Int /\ \A r \in Reports : (IF r = -1 THEN Unknown ELSE r) \in Ranks
  BY TacticSearchAssumption DEF Ranks, Unknown

LEMMA InitSearch == SearchInit => Search
  <1> SUFFICES ASSUME SearchInit PROVE Search
    OBVIOUS
  <1>1. shape \in Shapes
    BY DEF SearchInit
  <1>2. /\ beam \in Seq(Seq(Tactics)) /\ Len(beam) = 1 /\ DOMAIN beam = {1} /\ Len(beam[1]) = 0
        /\ replies \in Seq(Tactics) /\ Len(replies) = 0
    BY DEF SearchInit
  <1>3. IsFiniteSet(visited) /\ Cardinality(visited) = 0
    BY FS_EmptySet DEF SearchInit
  <1>4. DOMAIN candidates = Ranks /\ \A r \in Ranks : candidates[r] = {}
    BY DEF SearchInit
  <1> QED
    BY <1>1, <1>2, <1>3, <1>4, ShapeIs DEF SearchInit, Search

\* The proof in hand is one tactic longer than its state.
LEMMA NewProofIs ==
    ASSUME Search, sought = "verify", replies # <<>>
    PROVE  /\ NewProof \in Seq(Tactics) /\ Len(NewProof) = depth
           /\ Tail(replies) \in Seq(Tactics) /\ Len(Tail(replies)) = Len(replies) - 1
  <1>1. at \in DOMAIN beam /\ beam[at] \in Seq(Tactics) /\ Len(beam[at]) = depth - 1
    BY DEF Search
  <1>2. depth \in Nat
    BY ShapeIs DEF Search
  <1>3. Head(replies) \in Tactics /\ Tail(replies) \in Seq(Tactics)
        /\ Len(Tail(replies)) = Len(replies) - 1
    BY DEF Search
  <1> QED
    BY <1>1, <1>2, <1>3 DEF NewProof

LEMMA ProposeNextKeeps ==
    ASSUME Search, NEW ts \in SeqOf(Tactics, Asked), ProposeNext(ts)
    PROVE  Search'
  <1>1. PICK m \in 0..Asked : ts \in [1..m -> Tactics]
    BY DEF SeqOf
  <1>2. Asked \in Nat /\ Budget \in Nat
    BY ShapeIs DEF Search
  <1>3. ts \in Seq(Tactics) /\ Len(ts) <= Asked /\ Len(ts) \in Nat
    BY <1>1, <1>2
  <1>4. expanded < Budget /\ at <= Len(beam) /\ expanded \in Nat
    BY <1>2, FS_CardinalityType DEF ProposeNext, StopsRound, Search
  <1>5. expanded + Len(ts) < Budget + Asked
    BY <1>2, <1>3, <1>4
  <1>6. Budget' = Budget /\ Asked' = Asked
    BY DEF ProposeNext, Budget, Asked, MaxDepth, Width
  <1> QED
    BY <1>3, <1>4, <1>5, <1>6 DEF ProposeNext, Search, MaxDepth, Width

LEMMA SkipSeenKeeps ==
    ASSUME Search, SkipSeen
    PROVE  Search'
  <1>1. Tail(replies) \in Seq(Tactics) /\ Len(Tail(replies)) = Len(replies) - 1
        /\ Len(replies) \in Nat
    BY NewProofIs DEF SkipSeen, Search
  <1>2. Budget' = Budget /\ Asked' = Asked /\ Budget \in Nat /\ Asked \in Nat
    BY ShapeIs DEF Search, SkipSeen, Budget, Asked, MaxDepth, Width
  <1>3. expanded \in Nat
    BY FS_CardinalityType DEF Search
  <1>4. expanded + Len(replies') < Budget + Asked
    BY <1>1, <1>2, <1>3 DEF SkipSeen, Search
  <1> QED
    BY <1>1, <1>2, <1>4 DEF SkipSeen, Search, MaxDepth, Width

\* A reply is tried: one proof more is seen and paid for, and one reply fewer is left.
LEMMA ExpandsKeeps ==
    ASSUME Search, Expands, UNCHANGED <<shape, depth, beam, at>>,
           sought' \in {"verify", "solved"},
           \/ UNCHANGED <<candidates, least>>
           \/ \E rem \in Reports :
                 /\ candidates' = [candidates EXCEPT
                       ![IF rem = -1 THEN Unknown ELSE rem] = @ \cup {NewProof}]
                 /\ least' \in {rem, least}
    PROVE  Search'
  <1>1. /\ NewProof \in Seq(Tactics) /\ Len(NewProof) = depth
        /\ Tail(replies) \in Seq(Tactics) /\ Len(Tail(replies)) = Len(replies) - 1
        /\ Len(replies) \in Nat
    BY NewProofIs DEF Expands, Search
  <1>2. Budget' = Budget /\ Asked' = Asked /\ Budget \in Nat /\ Asked \in Nat /\ depth \in Nat
    BY ShapeIs DEF Search, Budget, Asked, MaxDepth, Width
  <1>3. expanded \in Nat
    BY FS_CardinalityType DEF Search
  <1>4. PICK p : p = NewProof
    OBVIOUS
  <1>5. /\ visited' = visited \cup {p} /\ p \notin visited
        /\ IsFiniteSet(visited') /\ Cardinality(visited') = Cardinality(visited) + 1
    BY <1>4, FS_AddElement DEF Expands, Seen, Search
  <1>6. expanded' + Len(replies') < Budget + Asked
    BY <1>1, <1>2, <1>3 DEF Expands, Search
  <1>7. /\ DOMAIN candidates' = Ranks
        /\ \A r \in Ranks : /\ candidates'[r] \subseteq visited'
                            /\ \A q \in candidates'[r] : Len(q) = depth
    <2>1. CASE UNCHANGED <<candidates, least>>
      BY <1>5, <2>1 DEF Search
    <2>2. ASSUME NEW rank, candidates' = [candidates EXCEPT ![rank] = @ \cup {NewProof}]
          PROVE  /\ DOMAIN candidates' = Ranks
                 /\ \A r \in Ranks : candidates'[r] = candidates[r]
                                     \/ candidates'[r] = candidates[r] \cup {p}
      BY <1>4, <2>2 DEF Search
    <2>3. CASE \E rem \in Reports : candidates' = [candidates EXCEPT
                     ![IF rem = -1 THEN Unknown ELSE rem] = @ \cup {NewProof}]
      <3>1. PICK rank : candidates' = [candidates EXCEPT ![rank] = @ \cup {NewProof}]
        BY <2>3
      <3>2. /\ DOMAIN candidates' = Ranks
            /\ \A r \in Ranks : candidates'[r] = candidates[r]
                                \/ candidates'[r] = candidates[r] \cup {p}
        BY <2>2, <3>1
      <3>3. ASSUME NEW r \in Ranks
            PROVE  candidates[r] \cup {p} \subseteq visited'
                   /\ \A q \in candidates[r] \cup {p} : Len(q) = depth
        BY <1>1, <1>4, <1>5 DEF Search
      <3> QED
        BY <3>2, <3>3
    <2> QED
      BY <2>1, <2>3
  <1>8. least' \in Reports \cup {-1}
    BY DEF Search
  <1>9. at <= Len(beam)
    BY DEF Search, Expands
  <1>10. visited' \subseteq Seq(Tactics) /\ \A q \in visited' : Len(q) <= depth
    BY <1>1, <1>2, <1>4, <1>5 DEF Search
  <1> QED
    BY <1>1, <1>2, <1>5, <1>6, <1>7, <1>8, <1>9, <1>10 DEF Expands, Search, MaxDepth, Width

LEMMA NextStateKeeps ==
    ASSUME Search, NextState
    PROVE  Search'
  <1>1. Budget' = Budget /\ Asked' = Asked
    BY DEF NextState, Budget, Asked, MaxDepth, Width
  <1>2. at' \in 1..Len(beam) + 1 /\ sought' = "propose"
    BY ShapeIs DEF NextState, Search
  <1> QED
    BY <1>1, <1>2 DEF NextState, Search, MaxDepth, Width

\* The beam of the next round: the best of what this round has brought, not too many.
LEMMA NextRoundKeeps ==
    ASSUME Search, NEW kept \in SUBSET Pool, NextRound(kept)
    PROVE  Search'
  <1>0. Budget' = Budget /\ Asked' = Asked /\ MaxDepth' = MaxDepth /\ Width' = Width
    BY DEF NextRound, Budget, Asked, MaxDepth, Width
  <1>1. CASE depth = MaxDepth
    <2>1. sought' = "failed" /\ UNCHANGED <<shape, depth, beam, at, candidates, replies>>
          /\ UNCHANGED <<visited, expanded, least, verified>>
      BY <1>1 DEF NextRound
    <2> QED
      BY <1>0, <2>1 DEF Search
  <1>2. CASE depth # MaxDepth
    <2>1. PICK b \in SetToSeqs(kept) : beam' = b
      BY <1>2 DEF NextRound
    <2>2. /\ depth' = depth + 1 /\ at' = 1 /\ candidates' = [r \in Ranks |-> {}]
          /\ UNCHANGED <<shape, sought, replies, visited, expanded, least, verified>>
          /\ sought = "propose" /\ Cardinality(kept) = Cut /\ Pool # {}
      BY <1>2 DEF NextRound
    <2>3. Pool \subseteq visited /\ \A p \in Pool : Len(p) = depth
      BY DEF Pool, Search
    <2>4. IsFiniteSet(Pool) /\ Cardinality(Pool) \in Nat /\ Cardinality(Pool) # 0
      <3>1. IsFiniteSet(Pool)
        BY <2>3, FS_Subset DEF Search
      <3> QED
        BY <2>2, <3>1, FS_CardinalityType, FS_EmptySet
    <2>5. Cardinality(kept) \in 1..Width
      BY <2>2, <2>4, ShapeIs DEF Cut, Search
    <2>6. b \in [1..Cardinality(kept) -> kept]
      BY DEF SetToSeqs
    <2>7. b \in Seq(Seq(Tactics)) /\ Len(b) \in 1..Width /\ \A j \in DOMAIN b : Len(b[j]) = depth
      <3>1. kept \subseteq Seq(Tactics)
        BY <2>3 DEF Search
      <3>2. b \in Seq(kept) /\ Len(b) = Cardinality(kept) /\ DOMAIN b = 1..Cardinality(kept)
        <4>1. ASSUME NEW n \in Nat, b \in [1..n -> kept]
              PROVE  b \in Seq(kept) /\ Len(b) = n /\ DOMAIN b = 1..n
          BY <4>1
        <4>2. Cardinality(kept) \in Nat
          BY <2>5, ShapeIs DEF Search
        <4> QED
          BY <2>6, <4>1, <4>2
      <3>3. \A j \in DOMAIN b : b[j] \in Pool
        BY <2>6, <3>2
      <3> QED
        BY <2>3, <2>5, <3>1, <3>2, <3>3
    <2>8. depth \in Nat /\ depth' \in 1..MaxDepth /\ depth = depth' - 1
      <3>1. depth \in 1..MaxDepth /\ MaxDepth \in Nat /\ depth' = depth + 1
        BY <2>2, ShapeIs DEF Search
      <3> HIDE DEF MaxDepth
      <3> QED
        BY <1>0, <1>2, <3>1
    <2>9. DOMAIN candidates' = Ranks /\ \A r \in Ranks : candidates'[r] = {}
      BY <2>2
    <2>10. \A p \in visited' : Len(p) <= depth'
      <3>1. \A p \in visited : Len(p) \in Nat /\ Len(p) <= depth
        BY DEF Search
      <3> QED
        BY <2>2, <2>8, <3>1
    <2>11. at' \in 1..Len(beam') + 1
      BY <2>1, <2>2, <2>7, ShapeIs DEF Search
    <2> QED
      BY <1>0, <2>1, <2>2, <2>7, <2>8, <2>9, <2>10, <2>11 DEF Search
  <1> QED
    BY <1>1, <1>2

LEMMA SearchStepKeeps ==
    ASSUME Search, [SearchNext]_searchVars
    PROVE  Search'
  <1>1. CASE UNCHANGED searchVars \/ Exhausted
    <2>1. /\ UNCHANGED <<shape, depth, beam, at, replies, visited, expanded, candidates>>
          /\ UNCHANGED <<least, verified>> /\ sought' \in {sought, "failed"}
      BY <1>1 DEF searchVars, Exhausted
    <2> QED
      BY <2>1 DEF Search, Budget, Asked, MaxDepth, Width
  <1>2. CASE Solves \/ VerifierRaises
    BY <1>2, ExpandsKeeps DEF Solves, VerifierRaises, Expands
  <1>3. ASSUME NEW rem \in Reports, Ranked(rem)
        PROVE  Search'
    BY <1>3, ExpandsKeeps DEF Ranked, Expands
  <1> QED
    BY <1>1, <1>2, <1>3, ProposeNextKeeps, SkipSeenKeeps, NextStateKeeps, NextRoundKeeps
       DEF SearchNext, Searched

LEMMA SearchPromises ==
    ASSUME Search
    PROVE  SearchTypeOK /\ SearchStaysInBudget
  <1>1. SearchTypeOK
    BY DEF Search, SearchTypeOK
  <1>2. expanded < Budget + Asked
    <2>1. Len(replies) \in Nat /\ expanded \in Nat /\ Budget \in Nat /\ Asked \in Nat
      BY ShapeIs, FS_CardinalityType DEF Search
    <2> QED
      BY <2>1 DEF Search
  <1> QED
    BY <1>1, <1>2 DEF Search, SearchStaysInBudget


----------------------------------------------------------------------------
(* The three loops of MCAgents, taken one at a time.                       *)

AllLoops == AgentInv /\ AskedInForce /\ Search

LEMMA AlwaysAllLoops == Spec => []AllLoops
  <1>1. Init => AllLoops
    BY InitAgentInv, InitAskedInForce, InitSearch DEF Init, AllLoops
  <1>2. AllLoops /\ [Next]_mcVars => AllLoops'
    <2> SUFFICES ASSUME AllLoops, [Next]_mcVars PROVE AllLoops'
      OBVIOUS
    <2>1. /\ [AgentNext]_agentVars
          /\ [StrategyNext]_strategyVars
          /\ [SearchNext]_searchVars
      BY DEF Next, mcVars
    <2> QED
      BY <2>1, AgentStepKeeps, StepsAreSmall, SearchStepKeeps DEF AllLoops
  <1> QED
    BY <1>1, <1>2, PTL DEF Spec

\* The agentic loop and its decomposer hand on what was accepted in this attempt only, for the
\* goal itself or, where no file with the sublemma can be made, for the theorem; they start
\* every round with the lesson of the one before and give up no round too early; the beam
\* has the proofs of one length and is not too wide; one evaluation is underway at most and
\* no knob negative (axprover.py:85-285, decompose.py:82-226, tactic_search.py:53-146).
THEOREM LoopsStayInOrder == Spec => []LoopsInOrder
  <1>1. AllLoops => LoopsInOrder
    BY AgentPromises, SearchPromises, StrategyPromises DEF AllLoops, LoopsInOrder
  <1> QED
    BY <1>1, AlwaysAllLoops, PTL

\* What a solve asks of the prover is bounded by its rounds and one decomposition, and what
\* a search asks of the verifier by its budget and one state's replies, for any strategy
\* (axprover.py:141-285, decompose.py:82-226, tactic_search.py:72-146).
THEOREM LoopsStayInBudget == Spec => []BudgetsAreKept
  <1>1. AllLoops => BudgetsAreKept
    BY AgentPromises, SearchPromises DEF AllLoops, BudgetsAreKept
  <1> QED
    BY <1>1, AlwaysAllLoops, PTL

=============================================================================
