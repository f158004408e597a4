--------------------------- MODULE ReplPoolProofs ---------------------------
(***************************************************************************)
(* Theorems about ReplPool, for any callers, keys and size of the pool,    *)
(* with the memory guard and without it.  The capacity and the waiters are *)
(* safe whoever is cancelled; the rest is about callers that are not: a    *)
(* cancelled one leaves a thread on a session that goes back to the idle   *)
(* ones.                                                                   *)
(***************************************************************************)
EXTENDS ReplPool, SequenceTheorems, FiniteSetTheorems, WellFoundedInduction, TLAPS

----------------------------------------------------------------------------
(* The list of idle sessions                                               *)

Distinct(seq) == \A i, j \in 1..Len(seq) : seq[i] = seq[j] => i = j
Members(seq) == {seq[i] : i \in 1..Len(seq)}

\* A set of numbers has a least one, and a greatest one if it is bounded.
LEMMA Least ==
    ASSUME NEW S, S \subseteq Nat, S # {}
    PROVE  \E x \in S : \A y \in S : x <= y
  <1>1. PICK R : R = {p \in Nat \X Nat : p[1] < p[2]} /\ IsWellFoundedOn(R, Nat)
    BY NatLessThanWellFounded DEF OpToRel
  <1>2. PICK x \in S : \A y \in S : <<y, x>> \notin R
    BY <1>1, WFMin
  <1>3. ASSUME NEW y \in S PROVE x <= y
    <2>1. x \in Nat /\ y \in Nat /\ (y < x => <<y, x>> \in R)
      BY <1>1
    <2> QED
      BY <1>2, <2>1
  <1> QED
    BY <1>3

LEMMA Greatest ==
    ASSUME NEW n \in Nat, NEW S, S \subseteq 1..n, S # {}
    PROVE  \E x \in S : \A y \in S : y <= x
  <1> DEFINE T == {n - x : x \in S}
  <1>1. T \subseteq Nat /\ T # {}
    <2>1. \A x \in S : n - x \in Nat
      OBVIOUS
    <2> QED
      BY <2>1
  <1>2. PICK t \in T : \A u \in T : t <= u
    BY <1>1, Least
  <1>3. PICK x \in S : t = n - x
    BY <1>2
  <1>4. ASSUME NEW y \in S PROVE y <= x
    <2>1. n - y \in T /\ y \in 1..n /\ x \in 1..n
      OBVIOUS
    <2>2. n - x <= n - y
      BY <1>2, <1>3, <2>1
    <2> QED
      BY <2>1, <2>2
  <1> QED
    BY <1>4

LEMMA WithoutTakesOut ==
    ASSUME NEW seq \in Seq(Sessions), Distinct(seq), NEW s
    PROVE  /\ Without(seq, s) \in Seq(Sessions) /\ Distinct(Without(seq, s))
           /\ Members(Without(seq, s)) = Members(seq) \ {s}
  <1>1. CASE ~\E i \in 1..Len(seq) : seq[i] = s
    BY <1>1 DEF Without, Members
  <1>2. CASE \E i \in 1..Len(seq) : seq[i] = s
    <2> DEFINE n == Len(seq)
               at == CHOOSE i \in 1..n : seq[i] = s
               w == [i \in 1..n - 1 |-> seq[IF i < at THEN i ELSE i + 1]]
    <2>1. n \in Nat /\ at \in 1..n /\ seq[at] = s /\ \A i \in 1..n : seq[i] \in Sessions
      BY <1>2
    <2>2. Without(seq, s) = w
      BY <1>2 DEF Without
    <2> HIDE DEF at
    <2>3. /\ n - 1 \in Nat
          /\ \A i \in 1..n - 1 : (IF i < at THEN i ELSE i + 1) \in 1..n \ {at}
      BY <2>1
    <2>4. w \in [1..n - 1 -> Sessions]
      BY <2>1, <2>3
    <2>5. w \in Seq(Sessions) /\ Len(w) = n - 1
      BY <2>3, <2>4
    <2>6. \A i \in 1..n - 1 : w[i] = seq[IF i < at THEN i ELSE i + 1]
      OBVIOUS
    <2>7. Distinct(w)
      BY <2>1, <2>3, <2>5, <2>6 DEF Distinct
    <2>8. Members(w) \subseteq Members(seq) \ {s}
      BY <2>1, <2>3, <2>5, <2>6 DEF Members, Distinct
    <2>9. ASSUME NEW i \in 1..n, seq[i] # s
          PROVE  seq[i] \in Members(w)
      <3>1. CASE i < at
        <4>1. i \in 1..n - 1 /\ w[i] = seq[i]
          BY <2>1, <2>6, <3>1
        <4> QED
          BY <2>5, <4>1 DEF Members
      <3>2. CASE ~(i < at)
        <4>1. i - 1 \in 1..n - 1 /\ ~(i - 1 < at) /\ (i - 1) + 1 = i
          BY <2>1, <2>9, <3>2
        <4>2. w[i - 1] = seq[i]
          BY <2>6, <4>1
        <4> QED
          BY <2>5, <4>1, <4>2 DEF Members
      <3> QED
        BY <3>1, <3>2
    <2> HIDE DEF w
    <2>10. ASSUME NEW x \in Members(seq), x # s PROVE x \in Members(w)
      BY <2>9, <2>10 DEF Members
    <2>11. Members(w) = Members(seq) \ {s}
      BY <2>8, <2>10
    <2> QED
      BY <2>2, <2>5, <2>7, <2>11
  <1> QED
    BY <1>1, <1>2

LEMMA AppendPutsIn ==
    ASSUME NEW seq \in Seq(Sessions), Distinct(seq), NEW s \in Sessions, s \notin Members(seq)
    PROVE  /\ Append(seq, s) \in Seq(Sessions) /\ Distinct(Append(seq, s))
           /\ Members(Append(seq, s)) = Members(seq) \cup {s}
  <1> DEFINE w == Append(seq, s)
             n == Len(seq)
  <1>1. /\ n \in Nat /\ w \in Seq(Sessions) /\ Len(w) = n + 1 /\ w[n + 1] = s
        /\ \A i \in 1..n : w[i] = seq[i]
    OBVIOUS
  <1>2. \A i \in 1..n + 1 : i = n + 1 \/ i \in 1..n
    BY <1>1
  <1>3. Distinct(w)
    BY <1>1, <1>2 DEF Distinct, Members
  <1>4. Members(w) = Members(seq) \cup {s}
    BY <1>1, <1>2 DEF Members
  <1> QED
    BY <1>1, <1>3, <1>4

\* The session that is reused is an idle one with the caller's key; one that is evicted is idle.
LEMMA LastForIsIdle ==
    ASSUME idle \in Seq(Sessions), NEW k, IdleFor(k) # {}
    PROVE  LastFor(k) \in Idle /\ keyOf[LastFor(k)] = k
  <1>1. Len(idle) \in Nat /\ IdleFor(k) \subseteq 1..Len(idle)
    BY DEF IdleFor
  <1>2. \E i \in IdleFor(k) : \A j \in IdleFor(k) : j <= i
    BY <1>1, Greatest
  <1>3. PICK i \in IdleFor(k) : LastFor(k) = idle[i]
    BY <1>2 DEF LastFor
  <1> QED
    BY <1>3 DEF IdleFor, Idle

LEMMA EvictionIsIdle ==
    ASSUME idle \in Seq(Sessions), idle # <<>>, NEW k
    PROVE  EvictionChoice(k) \in Idle
  <1> DEFINE others == {i \in 1..Len(idle) : File[keyOf[idle[i]]] # File[k]}
             pool == IF others # {} THEN others ELSE 1..Len(idle)
  <1>1. Len(idle) \in Nat /\ 1..Len(idle) # {}
    <2>1. Len(idle) \in Nat \ {0}
      BY EmptySeq
    <2>2. 1 \in 1..Len(idle)
      BY <2>1
    <2> QED
      BY <2>1, <2>2
  <1>2. pool \subseteq 1..Len(idle) /\ pool # {} /\ pool \subseteq Nat
    BY <1>1
  <1>3. \E i \in pool : \A j \in pool : i <= j
    BY <1>2, Least
  <1>4. PICK i \in pool : EvictionChoice(k) = idle[i]
    BY <1>3 DEF EvictionChoice
  <1> QED
    BY <1>2, <1>4 DEF Idle

----------------------------------------------------------------------------
(* The invariant: who may refer to a session                               *)

States == {"free", "acquire", "wait", "evict", "spawn", "using", "release", "giveup"}
AtSession == {"read", "close", "rebuild", "spawn"}

Types ==
    /\ idle \in Seq(Sessions) /\ Distinct(idle)
    /\ closed \in BOOLEAN
    /\ live \subseteq Sessions
    /\ keyOf \in [Sessions -> Keys \cup {NoKey}]
    /\ out \in [Sessions -> BOOLEAN] /\ poisoned \in [Sessions -> BOOLEAN]
    /\ proc \in [Sessions -> {"none", "starting", "running", "gone"}]
    /\ pc \in [Callers -> States]
    /\ want \in [Callers -> Keys \cup {NoKey}]
    /\ held \in [Callers -> Sessions \cup {NoSession}]

\* The idle sessions are live, sound, and nobody else's.
IdleApart ==
    \A s \in Idle :
        /\ s \in live /\ s \notin stray /\ ~out[s] /\ ~poisoned[s]
        /\ \A c \in Callers : held[c] # s

\* A live session has a process, and no teardown runs on it.
LiveApart == \A s \in live : proc[s] \in {"running", "gone"} /\ s \notin closing

\* No two callers hold the same session, and no stray tactic runs on one that is in use.
HeldApart ==
    /\ \A c, d \in Callers : held[c] = held[d] /\ held[c] # NoSession => c = d
    /\ \A c \in Callers : pc[c] = "using" => held[c] \in Sessions \ stray

\* The session that a thread opens has a place in no book of the pool yet.
BeingOpened(s) ==
    /\ s \in Sessions /\ proc[s] # "none"
    /\ s \notin live \cup registered \cup doomed \cup closing \cup stray

SpawnsApart ==
    \A c \in Callers : pc[c] = "spawn" =>
        BeingOpened(held[c]) /\ held[c] # gsess /\ keyOf[held[c]] = want[c]

GuardApart ==
    /\ gpc \in AtSession => gsess \in Sessions
    /\ gpc = "spawn" => BeingOpened(gsess) /\ \A c \in Callers : held[c] # gsess

\* Once the pool is closed nothing is live, and the guard does nothing after the join.
ClosedPool ==
    /\ cpc = "open" <=> ~closed
    /\ ~closed => registered = live /\ doomed = {}
    /\ closed => live = {}
    /\ closed /\ cpc # "join" => gpc \notin AtSession

Apart ==
    /\ Types /\ IdleApart /\ LiveApart /\ HeldApart /\ SpawnsApart /\ GuardApart /\ ClosedPool

LEMMA WokenKeeps ==
    ASSUME pc \in [Callers -> States]
    PROVE  /\ Woken(pc) \in [Callers -> States]
           /\ \A d \in Callers : /\ Woken(pc)[d] = "spawn" <=> pc[d] = "spawn"
                                 /\ Woken(pc)[d] = "using" <=> pc[d] = "using"
  BY DEF Woken, States

----------------------------------------------------------------------------
(* The steps of a caller                                                   *)

LEMMA SameIdle == ASSUME idle' = idle PROVE Idle' = Idle
  BY DEF Idle

LEMMA IdleWithout ==
    ASSUME Types, NEW s, idle' = Without(idle, s)
    PROVE  idle' \in Seq(Sessions) /\ Distinct(idle') /\ Idle' = Idle \ {s}
  <1>1. Idle = Members(idle) /\ Idle' = Members(idle')
    BY DEF Idle, Members
  <1>2. idle \in Seq(Sessions) /\ Distinct(idle)
    BY DEF Types
  <1>3. /\ Without(idle, s) \in Seq(Sessions) /\ Distinct(Without(idle, s))
        /\ Members(Without(idle, s)) = Members(idle) \ {s}
    BY <1>2, WithoutTakesOut
  <1> QED
    BY <1>1, <1>3

LEMMA IdleWith ==
    ASSUME Types, NEW s \in Sessions, s \notin Idle, idle' = Append(idle, s)
    PROVE  idle' \in Seq(Sessions) /\ Distinct(idle') /\ Idle' = Idle \cup {s}
  <1>1. Idle = Members(idle) /\ Idle' = Members(idle')
    BY DEF Idle, Members
  <1>2. idle \in Seq(Sessions) /\ Distinct(idle)
    BY DEF Types
  <1>3. /\ Append(idle, s) \in Seq(Sessions) /\ Distinct(Append(idle, s))
        /\ Members(Append(idle, s)) = Members(idle) \cup {s}
    BY <1>1, <1>2, AppendPutsIn
  <1> QED
    BY <1>1, <1>3

LEMMA InitApart == ASSUME ReplPoolAssumption, Init PROVE Apart
  <1>1. Idle = {} /\ idle \in Seq(Sessions) /\ Distinct(idle)
    BY DEF Init, Idle, Distinct
  <1> QED
    BY <1>1 DEF Init, States, AtSession, Apart, Types, IdleApart, LiveApart, HeldApart, BeingOpened, SpawnsApart, GuardApart,
         ClosedPool

LEMMA CallKeeps ==
    ASSUME ReplPoolAssumption, Apart, NEW c \in Callers, NEW k \in Keys, Call(c, k)
    PROVE  Apart'
  <1> USE DEF poolVars, sessionVars, threadVars, closeVars
  <1>1. Idle' = Idle
    BY SameIdle DEF Call
  <1>2. pc' \in [Callers -> States] /\ want' \in [Callers -> Keys \cup {NoKey}]
    BY DEF Call, GoesTo, Apart, Types, States
  <1>3. \A d \in Callers : /\ pc'[d] = "spawn" => pc[d] = "spawn" /\ want'[d] = want[d]
                           /\ pc'[d] = "using" => pc[d] = "using"
    BY DEF Call, GoesTo, Apart, Types
  <1>4. gpc' = gpc \/ gpc' = "sleep"
    BY DEF Call
  <1> QED
    BY <1>1, <1>2, <1>3, <1>4 DEF Call, AtSession, Apart, Types, IdleApart, LiveApart, HeldApart, BeingOpened, SpawnsApart, GuardApart,
         ClosedPool

\* Giving up or waiting: the caller holds nothing that it did not hold.
LEMMA IdlingKeeps ==
    ASSUME ReplPoolAssumption, Apart, NEW c \in Callers, Refused(c) \/ Wait(c)
    PROVE  Apart'
  <1> USE DEF poolVars, sessionVars, threadVars, closeVars, guardVars
  <1>1. Idle' = Idle
    BY SameIdle DEF Refused, Wait
  <1>2. pc' \in [Callers -> States]
    BY DEF Refused, Wait, GoesTo, Apart, Types, States
  <1>3. \A d \in Callers : /\ pc'[d] = "spawn" => pc[d] = "spawn"
                           /\ pc'[d] = "using" => pc[d] = "using"
    BY DEF Refused, Wait, GoesTo, Apart, Types
  <1> QED
    BY <1>1, <1>2, <1>3 DEF Refused, Wait, Apart, Types, IdleApart, LiveApart, HeldApart, BeingOpened, SpawnsApart, GuardApart,
         ClosedPool

LEMMA ReuseKeeps ==
    ASSUME ReplPoolAssumption, Apart, NEW c \in Callers, Reuse(c)
    PROVE  Apart'
  <1> USE DEF threadVars, closeVars, guardVars
  <1> DEFINE s == LastFor(want[c])
  <1>0. pc[c] = "acquire" /\ s \in Idle /\ s \in Sessions
    BY LastForIsIdle DEF Reuse, Apart, Types, IdleApart
  <1> HIDE DEF s
  <1>1. /\ idle' = Without(idle, s) /\ out' = [out EXCEPT ![s] = TRUE]
        /\ held' = [held EXCEPT ![c] = s] /\ pc' = [pc EXCEPT ![c] = "using"]
        /\ UNCHANGED <<live, registered, opening, closed, keyOf, poisoned, proc, closing, stray,
                       want, gpc, gsess, cpc, doomed>>
    BY DEF Reuse, GoesTo, s
  <1>2. idle' \in Seq(Sessions) /\ Distinct(idle') /\ Idle' = Idle \ {s}
    BY <1>1, IdleWithout DEF Apart
  <1>3. Types'
    BY <1>0, <1>1, <1>2 DEF Apart, Types, States
  <1>4. /\ held'[c] = s /\ \A d \in Callers \ {c} : held'[d] = held[d] /\ pc'[d] = pc[d]
        /\ pc'[c] = "using" /\ \A t \in Sessions \ {s} : out'[t] = out[t]
    BY <1>0, <1>1 DEF Apart, Types
  <1>5. IdleApart'
    BY <1>0, <1>1, <1>2, <1>4 DEF Apart, Types, IdleApart
  <1>6. HeldApart'
    BY <1>0, <1>1, <1>4 DEF Apart, IdleApart, HeldApart
  <1>7. SpawnsApart'
    BY <1>0, <1>1, <1>4 DEF Apart, SpawnsApart, BeingOpened
  <1>8. GuardApart'
    BY <1>0, <1>1, <1>4 DEF Apart, GuardApart, BeingOpened, IdleApart
  <1> QED
    BY <1>1, <1>3, <1>5, <1>6, <1>7, <1>8 DEF Apart, LiveApart, ClosedPool

LEMMA EvictKeeps ==
    ASSUME ReplPoolAssumption, Apart, NEW c \in Callers, NEW s \in Idle,
           pc[c] = "acquire", Evict(c, s)
    PROVE  Apart'
  <1> USE DEF sessionVars, closeVars, guardVars
  <1>0. s \in Sessions /\ s \in live
    BY DEF Apart, Types, IdleApart
  <1>1. /\ idle' = Without(idle, s) /\ live' = live \ {s} /\ registered' = registered \ {s}
        /\ closing' = closing \cup {s}
        /\ held' = [held EXCEPT ![c] = s] /\ pc' = [pc EXCEPT ![c] = "evict"]
        /\ UNCHANGED <<opening, closed, keyOf, out, poisoned, proc, stray, want, gpc, gsess,
                       cpc, doomed>>
    BY DEF Evict, GoesTo, Unregistered
  <1>2. idle' \in Seq(Sessions) /\ Distinct(idle') /\ Idle' = Idle \ {s}
    BY <1>1, IdleWithout DEF Apart
  <1>3. Types'
    BY <1>0, <1>1, <1>2 DEF Apart, Types, States
  <1>4. /\ held'[c] = s /\ \A d \in Callers \ {c} : held'[d] = held[d] /\ pc'[d] = pc[d]
        /\ pc'[c] = "evict"
    BY <1>0, <1>1 DEF Apart, Types
  <1>5. IdleApart' /\ LiveApart'
    BY <1>0, <1>1, <1>2, <1>4 DEF Apart, Types, IdleApart, LiveApart
  <1>6. HeldApart'
    BY <1>0, <1>1, <1>4 DEF Apart, IdleApart, HeldApart
  <1>7. SpawnsApart'
    BY <1>0, <1>1, <1>4 DEF Apart, SpawnsApart, BeingOpened, IdleApart
  <1>8. GuardApart'
    BY <1>0, <1>1, <1>4 DEF Apart, GuardApart, BeingOpened, IdleApart
  <1> QED
    BY <1>0, <1>1, <1>3, <1>5, <1>6, <1>7, <1>8 DEF Apart, ClosedPool

LEMMA StartSpawnKeeps ==
    ASSUME ReplPoolAssumption, Apart, NEW c \in Callers, StartSpawn(c)
    PROVE  Apart'
  <1> USE DEF closeVars, guardVars
  <1>1. PICK s \in Sessions :
          /\ Fresh(s)
          /\ proc' = [proc EXCEPT ![s] = "starting"] /\ keyOf' = [keyOf EXCEPT ![s] = want[c]]
          /\ held' = [held EXCEPT ![c] = s]
    BY DEF StartSpawn
  <1>2. /\ pc[c] = "acquire" /\ ~closed /\ pc' = [pc EXCEPT ![c] = "spawn"]
        /\ UNCHANGED <<live, registered, idle, closed, out, poisoned, closing, stray, want,
                       gpc, gsess, cpc, doomed>>
    BY DEF StartSpawn, GoesTo
  <1>3. Idle' = Idle
    BY <1>2, SameIdle
  <1>4. Types'
    BY <1>1, <1>2 DEF Apart, Types, States
  <1>5. /\ held'[c] = s /\ pc'[c] = "spawn" /\ keyOf'[s] = want[c] /\ proc'[s] = "starting"
        /\ \A d \in Callers \ {c} : held'[d] = held[d] /\ pc'[d] = pc[d]
        /\ \A t \in Sessions \ {s} : proc'[t] = proc[t] /\ keyOf'[t] = keyOf[t]
    BY <1>1, <1>2 DEF Apart, Types
  <1>6. /\ s \notin live \cup registered \cup doomed \cup closing \cup stray /\ s # gsess
        /\ \A d \in Callers : held[d] # s
    BY <1>1, <1>2 DEF Fresh, Apart, LiveApart, ClosedPool
  <1>7. IdleApart' /\ LiveApart'
    BY <1>1, <1>2, <1>3, <1>5, <1>6 DEF Apart, Types, IdleApart, LiveApart
  <1>8. HeldApart'
    BY <1>1, <1>2, <1>5, <1>6 DEF Apart, HeldApart
  <1>9. SpawnsApart'
    BY <1>1, <1>2, <1>5, <1>6 DEF Apart, SpawnsApart, BeingOpened
  <1>10. GuardApart'
    BY <1>1, <1>2, <1>5, <1>6 DEF Apart, GuardApart, BeingOpened
  <1> QED
    BY <1>2, <1>4, <1>7, <1>8, <1>9, <1>10 DEF Apart, ClosedPool

LEMMA SpawnedKeeps ==
    ASSUME ReplPoolAssumption, Apart, NEW c \in Callers, Spawned(c)
    PROVE  Apart'
  <1> USE DEF closeVars, guardVars
  <1> DEFINE s == held[c]
  <1>1. /\ pc[c] = "spawn" /\ proc' = [proc EXCEPT ![s] = "running"]
        /\ out' = [out EXCEPT ![s] = TRUE] /\ poisoned' = [poisoned EXCEPT ![s] = FALSE]
        /\ UNCHANGED <<idle, closed, keyOf, stray, want, held, gpc, gsess, cpc, doomed>>
    BY DEF Spawned
  <1>2. \/ /\ ~closed /\ live' = live \cup {s} /\ registered' = registered \cup {s}
           /\ pc' = [Woken(pc) EXCEPT ![c] = "using"] /\ closing' = closing
        \/ /\ closed /\ closing' = closing \cup {s}
           /\ pc' = [Woken(pc) EXCEPT ![c] = "giveup"] /\ UNCHANGED <<live, registered>>
    BY DEF Spawned, NotifiesAndGoesTo
  <1>3. BeingOpened(s) /\ s # gsess
    BY <1>1 DEF Apart, SpawnsApart
  <1>4. s \in Sessions /\ Idle' = Idle
    BY <1>1, <1>3, SameIdle DEF BeingOpened
  <1>5. /\ pc' \in [Callers -> States]
        /\ pc'[c] = "using" \/ (pc'[c] = "giveup" /\ closed)
        /\ \A d \in Callers \ {c} : /\ pc'[d] = "spawn" <=> pc[d] = "spawn"
                                    /\ pc'[d] = "using" <=> pc[d] = "using"
    BY <1>2, WokenKeeps DEF Apart, Types, States
  <1>6. Types'
    BY <1>1, <1>2, <1>4, <1>5 DEF Apart, Types
  <1>7. /\ proc'[s] = "running" /\ ~poisoned'[s]
        /\ \A t \in Sessions \ {s} : /\ proc'[t] = proc[t] /\ out'[t] = out[t]
                                     /\ poisoned'[t] = poisoned[t]
    BY <1>1, <1>4 DEF Apart, Types
  <1>8. IdleApart'
    BY <1>1, <1>2, <1>3, <1>4, <1>7 DEF Apart, Types, IdleApart
  <1>9. LiveApart'
    BY <1>1, <1>2, <1>3, <1>4, <1>7 DEF Apart, Types, LiveApart, BeingOpened, ClosedPool
  <1>10. HeldApart'
    BY <1>1, <1>3, <1>4, <1>5 DEF Apart, HeldApart, BeingOpened
  <1>11. \A d \in Callers \ {c} : pc[d] = "spawn" => held[d] # s
    BY <1>3 DEF Apart, HeldApart, SpawnsApart, BeingOpened, Types, ReplPoolAssumption
  <1>12. SpawnsApart'
    BY <1>1, <1>2, <1>5, <1>7, <1>11 DEF Apart, SpawnsApart, BeingOpened
  <1>13. GuardApart'
    BY <1>1, <1>2, <1>3, <1>7 DEF Apart, GuardApart, BeingOpened
  <1>14. ClosedPool'
    BY <1>1, <1>2 DEF Apart, ClosedPool
  <1> QED
    BY <1>6, <1>8, <1>9, <1>10, <1>12, <1>13, <1>14 DEF Apart

LEMMA SpawnFailsKeeps ==
    ASSUME ReplPoolAssumption, Apart, NEW c \in Callers, SpawnFails(c)
    PROVE  Apart'
  <1> USE DEF closeVars, guardVars, sessionVars
  <1> DEFINE s == held[c]
  <1>1. /\ pc[c] = "spawn" /\ proc' = [proc EXCEPT ![s] = "none"]
        /\ pc' = [Woken(pc) EXCEPT ![c] = "free"] /\ held' = [held EXCEPT ![c] = NoSession]
        /\ UNCHANGED <<live, registered, idle, closed, keyOf, out, poisoned, closing, stray,
                       want, gpc, gsess, cpc, doomed>>
    BY DEF SpawnFails, NotifiesAndGoesTo
  <1>2. BeingOpened(s) /\ s # gsess /\ s \in Sessions /\ s # NoSession
    BY <1>1 DEF Apart, SpawnsApart, BeingOpened, ReplPoolAssumption
  <1>3. Idle' = Idle
    BY <1>1, SameIdle
  <1>4. /\ pc' \in [Callers -> States] /\ pc'[c] = "free"
        /\ \A d \in Callers \ {c} : /\ pc'[d] = "spawn" <=> pc[d] = "spawn"
                                    /\ pc'[d] = "using" <=> pc[d] = "using"
    BY <1>1, WokenKeeps DEF Apart, Types, States
  <1>5. Types'
    BY <1>1, <1>4 DEF Apart, Types
  <1>6. /\ held'[c] = NoSession /\ \A d \in Callers \ {c} : held'[d] = held[d] /\ held[d] # s
        /\ \A t \in Sessions \ {s} : proc'[t] = proc[t]
    BY <1>1, <1>2 DEF Apart, Types, HeldApart
  <1>7. IdleApart' /\ LiveApart'
    BY <1>1, <1>2, <1>3, <1>6 DEF Apart, Types, IdleApart, LiveApart, BeingOpened,
       ReplPoolAssumption
  <1>8. HeldApart'
    BY <1>1, <1>4, <1>6 DEF Apart, HeldApart
  <1>9. SpawnsApart'
    BY <1>1, <1>4, <1>6 DEF Apart, SpawnsApart, BeingOpened
  <1>10. GuardApart'
    BY <1>1, <1>2, <1>6 DEF Apart, GuardApart, BeingOpened, ReplPoolAssumption
  <1> QED
    BY <1>1, <1>5, <1>7, <1>8, <1>9, <1>10 DEF Apart, ClosedPool

\* release, after a verdict or after a tactic that took too long and goes on.
LEMMA ReleaseKeeps ==
    ASSUME ReplPoolAssumption, Apart, NEW c \in Callers, NEW drop, pc[c] = "using",
           Release(c, drop),
           \/ UNCHANGED <<stray, poisoned>>
           \/ /\ drop /\ stray' = stray \cup {held[c]}
              /\ poisoned' = [poisoned EXCEPT ![held[c]] = TRUE],
           UNCHANGED <<opening, closed, keyOf, proc, ownerless, want, guardVars, closeVars>>
    PROVE  Apart'
  <1> USE DEF closeVars, guardVars
  <1> DEFINE s == held[c]
  <1>1. /\ s \in Sessions /\ s \notin stray /\ s \notin Idle /\ s # NoSession
        /\ \A d \in Callers \ {c} : held[d] # s
        /\ gpc = "spawn" => gsess # s
    BY DEF Apart, Types, HeldApart, IdleApart, GuardApart, ReplPoolAssumption
  <1>2. /\ out' = [out EXCEPT ![s] = FALSE]
        /\ \/ /\ s \notin live
              /\ pc' = [pc EXCEPT ![c] = "free"]
              /\ held' = [held EXCEPT ![c] = NoSession]
              /\ UNCHANGED <<live, registered, idle, closing>>
           \/ /\ s \in live
              /\ live' = live \ {s} /\ registered' = registered \ {s}
              /\ closing' = closing \cup {s}
              /\ pc' = [Woken(pc) EXCEPT ![c] = "release"]
              /\ UNCHANGED <<idle, held>>
           \/ /\ s \in live /\ ~drop /\ ~poisoned[s] /\ ~closed
              /\ idle' = Append(idle, s)
              /\ pc' = [Woken(pc) EXCEPT ![c] = "free"]
              /\ held' = [held EXCEPT ![c] = NoSession]
              /\ UNCHANGED <<live, registered, closing>>
    BY DEF Release, GoesTo, NotifiesAndGoesTo, MustGo, Unregistered
  <1>3. /\ pc' \in [Callers -> States] /\ pc'[c] \in {"free", "release"}
        /\ \A d \in Callers \ {c} : /\ pc'[d] = "spawn" <=> pc[d] = "spawn"
                                    /\ pc'[d] = "using" <=> pc[d] = "using"
    BY <1>2, WokenKeeps DEF Apart, Types, States
  <1>4. /\ held' \in [Callers -> Sessions \cup {NoSession}]
        /\ held'[c] \in {s, NoSession} /\ \A d \in Callers \ {c} : held'[d] = held[d]
    BY <1>1, <1>2 DEF Apart, Types
  <1>5. /\ out' \in [Sessions -> BOOLEAN] /\ poisoned' \in [Sessions -> BOOLEAN] /\ ~out'[s]
        /\ \A t \in Sessions \ {s} : out'[t] = out[t] /\ poisoned'[t] = poisoned[t]
        /\ stray' \subseteq stray \cup {s}
    BY <1>1, <1>2 DEF Apart, Types
  <1>6. /\ idle' \in Seq(Sessions) /\ Distinct(idle')
        /\ \/ Idle' = Idle
           \/ /\ Idle' = Idle \cup {s} /\ s \in live /\ live' = live /\ held'[c] = NoSession
              /\ ~poisoned'[s] /\ s \notin stray'
    <2>1. CASE idle' = idle
      BY <2>1, SameIdle DEF Apart, Types
    <2>2. CASE /\ s \in live /\ live' = live /\ ~drop /\ ~poisoned[s] /\ idle' = Append(idle, s)
               /\ held' = [held EXCEPT ![c] = NoSession]
      <3>1. idle' \in Seq(Sessions) /\ Distinct(idle') /\ Idle' = Idle \cup {s}
        BY <1>1, <2>2, IdleWith DEF Apart
      <3>2. held'[c] = NoSession
        BY <2>2 DEF Apart, Types
      <3> QED
        BY <1>1, <2>2, <3>1, <3>2
    <2> QED
      BY <1>2, <2>1, <2>2
  <1>7. Types'
    BY <1>2, <1>3, <1>4, <1>5, <1>6 DEF Apart, Types
  <1>8. /\ live' \subseteq live /\ registered' \subseteq registered
        /\ closing' \subseteq closing \cup {s} /\ (s \in live' => closing' = closing)
        /\ live \subseteq live' \cup {s}
    BY <1>2
  <1>9. IdleApart'
    <2>1. ASSUME NEW t \in Idle
          PROVE  /\ t \in live' /\ t \notin stray' /\ ~out'[t] /\ ~poisoned'[t]
                 /\ \A d \in Callers : held'[d] # t
      <3>1. t # s /\ t \in Sessions /\ t \in live /\ t # NoSession
        BY <1>1, <2>1 DEF Apart, Types, IdleApart, ReplPoolAssumption
      <3> QED
        BY <1>4, <1>5, <1>8, <2>1, <3>1 DEF Apart, IdleApart
    <2>2. ASSUME s \in Idle', s \notin Idle
          PROVE  /\ s \in live' /\ s \notin stray' /\ ~out'[s] /\ ~poisoned'[s]
                 /\ \A d \in Callers : held'[d] # s
      BY <1>1, <1>4, <1>5, <1>6, <2>2
    <2> QED
      BY <1>6, <2>1, <2>2 DEF IdleApart
  <1>10. LiveApart'
    BY <1>8 DEF Apart, LiveApart
  <1>11. HeldApart'
    BY <1>1, <1>3, <1>4, <1>5 DEF Apart, HeldApart
  <1>12. SpawnsApart'
    BY <1>1, <1>3, <1>4, <1>5, <1>8 DEF Apart, SpawnsApart, BeingOpened
  <1>13. GuardApart'
    BY <1>1, <1>4, <1>5, <1>8 DEF Apart, Types, GuardApart, BeingOpened, ReplPoolAssumption
  <1>14. ClosedPool'
    BY <1>2 DEF Apart, ClosedPool
  <1> QED
    BY <1>7, <1>9, <1>10, <1>11, <1>12, <1>13, <1>14 DEF Apart

LEMMA ToolErrorKeeps ==
    ASSUME ReplPoolAssumption, Apart, NEW c \in Callers, ToolError(c)
    PROVE  Apart'
  <1> USE DEF poolVars, threadVars, callerVars, guardVars, closeVars
  <1>1. Idle' = Idle
    BY SameIdle DEF ToolError
  <1>2. /\ held[c] \in Sessions /\ held[c] \notin Idle
        /\ poisoned' = [poisoned EXCEPT ![held[c]] = TRUE]
    BY DEF ToolError, Apart, Types, HeldApart, IdleApart
  <1>3. /\ poisoned' \in [Sessions -> BOOLEAN]
        /\ \A t \in Sessions \ {held[c]} : poisoned'[t] = poisoned[t]
    BY <1>2 DEF Apart, Types
  <1> QED
    BY <1>1, <1>2, <1>3 DEF ToolError, Apart, Types, IdleApart, LiveApart, HeldApart, BeingOpened, SpawnsApart, GuardApart,
         ClosedPool

----------------------------------------------------------------------------
(* The threads                                                             *)

LEMMA CloseEndsKeeps ==
    ASSUME ReplPoolAssumption, Apart, NEW s \in Sessions, CloseEnds(s)
    PROVE  Apart'
  <1> USE DEF poolVars, closeVars
  <1>1. /\ s \in closing /\ closing' = closing \ {s} /\ proc' = [proc EXCEPT ![s] = "none"]
        /\ out' = [out EXCEPT ![s] = FALSE] /\ poisoned' = [poisoned EXCEPT ![s] = FALSE]
        /\ keyOf' = [keyOf EXCEPT ![s] = IF gsess = s THEN @ ELSE NoKey]
        /\ UNCHANGED <<live, registered, idle, opening, closed, stray, want, gsess, cpc, doomed>>
        /\ gpc' = gpc \/ (gpc = "close" /\ gpc' = "rebuild")
    BY DEF CloseEnds
  <1>2. s \notin live /\ (gpc = "spawn" => gsess # s)
        /\ \A c \in Callers : pc[c] = "spawn" => held[c] # s
    BY <1>1 DEF Apart, LiveApart, GuardApart, SpawnsApart, BeingOpened
  <1>3. /\ pc' \in [Callers -> States]
        /\ \A c \in Callers : /\ pc'[c] = "spawn" <=> pc[c] = "spawn"
                              /\ pc'[c] = "using" <=> pc[c] = "using"
    <2>1. pc' = [c \in Callers |->
                   CASE held[c] = s /\ pc[c] = "evict"                 -> "acquire"
                     [] held[c] = s /\ pc[c] \in {"release", "giveup"} -> "free"
                     [] OTHER                                          -> pc[c]]
      BY DEF CloseEnds
    <2>2. ASSUME NEW c \in Callers
          PROVE  \/ pc'[c] = pc[c]
                 \/ pc[c] \in {"evict", "release", "giveup"} /\ pc'[c] \in {"acquire", "free"}
      BY <2>1
    <2>3. \A c \in Callers : pc'[c] \in States
      BY <2>2 DEF Apart, Types, States
    <2>4. pc' \in [Callers -> States]
      BY <2>1, <2>3
    <2> QED
      BY <2>2, <2>4
  <1>4. /\ held' \in [Callers -> Sessions \cup {NoSession}]
        /\ \A c \in Callers : /\ held'[c] = held[c] \/ held'[c] = NoSession
                              /\ pc[c] \in {"using", "spawn"} => held'[c] = held[c]
    BY <1>2 DEF CloseEnds, Apart, Types
  <1>5. /\ proc' \in [Sessions -> {"none", "starting", "running", "gone"}]
        /\ out' \in [Sessions -> BOOLEAN] /\ poisoned' \in [Sessions -> BOOLEAN]
        /\ keyOf' \in [Sessions -> Keys \cup {NoKey}]
        /\ \A t \in Sessions \ {s} : /\ proc'[t] = proc[t] /\ out'[t] = out[t]
                                     /\ poisoned'[t] = poisoned[t] /\ keyOf'[t] = keyOf[t]
    BY <1>1 DEF Apart, Types
  <1>6. Idle' = Idle /\ Types'
    BY <1>1, <1>3, <1>4, <1>5, SameIdle DEF Apart, Types
  <1>7. IdleApart'
    <2>1. ASSUME NEW t \in Idle
          PROVE  t \in Sessions /\ t # s /\ t # NoSession
      BY <1>2 DEF Apart, Types, IdleApart, ReplPoolAssumption
    <2> QED
      BY <1>1, <1>4, <1>5, <1>6, <2>1 DEF Apart, IdleApart
  <1>8. LiveApart'
    BY <1>1, <1>2, <1>5 DEF Apart, Types, LiveApart
  <1>9. HeldApart'
    BY <1>1, <1>3, <1>4 DEF Apart, HeldApart
  <1>10. SpawnsApart'
    BY <1>1, <1>2, <1>3, <1>4, <1>5 DEF Apart, SpawnsApart, BeingOpened
  <1>11. GuardApart'
    BY <1>1, <1>2, <1>4, <1>5 DEF Apart, GuardApart, BeingOpened, AtSession, ReplPoolAssumption
  <1>12. ClosedPool'
    BY <1>1 DEF Apart, ClosedPool, AtSession
  <1> QED
    BY <1>6, <1>7, <1>8, <1>9, <1>10, <1>11, <1>12 DEF Apart

LEMMA ProcessesKeep ==
    ASSUME ReplPoolAssumption, Apart, NEW s \in Sessions,
           ProcessDies(s) \/ StrayEnds(s) \/ OwnerlessStarts(s)
    PROVE  Apart'
  <1> USE DEF poolVars, sessionVars, callerVars, guardVars, closeVars
  <1>1. /\ UNCHANGED <<live, registered, idle, closed, keyOf, out, poisoned, closing, pc, want,
                       held, gpc, gsess, cpc, doomed>>
        /\ stray' \subseteq stray
        /\ \/ proc' = proc
           \/ proc[s] = "running" /\ proc' = [proc EXCEPT ![s] = "gone"]
           \/ proc[s] = "starting" /\ proc' = [proc EXCEPT ![s] = "running"]
    BY DEF ProcessDies, StrayEnds, OwnerlessStarts
  <1>2. /\ Idle' = Idle
        /\ proc' \in [Sessions -> {"none", "starting", "running", "gone"}]
        /\ \A t \in Sessions : \/ proc'[t] = proc[t]
                               \/ proc[t] # "none" /\ proc'[t] \in {"running", "gone"}
    BY <1>1, SameIdle DEF Apart, Types
  <1> QED
    BY <1>1, <1>2 DEF Apart, Types, IdleApart, LiveApart, HeldApart, BeingOpened, SpawnsApart, GuardApart,
         ClosedPool

----------------------------------------------------------------------------
(* The memory guard and close                                              *)

LEMMA GuardLooksKeep ==
    ASSUME ReplPoolAssumption, Apart, GuardSweep \/ GuardNext
    PROVE  Apart'
  <1> USE DEF poolVars, sessionVars, threadVars, callerVars, closeVars
  <1>1. UNCHANGED <<live, registered, idle, closed, keyOf, out, poisoned, proc, closing, stray,
                    pc, want, held, cpc, doomed>>
    BY DEF GuardSweep, GuardNext
  <1>2. \/ gpc' \in {"sweep", "sleep"} /\ gsess' = gsess
        \/ gpc' = "read" /\ gsess' \in live
    BY DEF GuardSweep, GuardNext
  <1>3. Idle' = Idle
    BY <1>1, SameIdle
  <1> QED
    BY <1>1, <1>2, <1>3 DEF AtSession, Apart, Types, IdleApart, LiveApart, HeldApart, BeingOpened, SpawnsApart, GuardApart,
         ClosedPool

LEMMA GuardMeasuresKeeps ==
    ASSUME ReplPoolAssumption, Apart, GuardMeasures
    PROVE  Apart'
  <1> USE DEF closeVars
  <1> DEFINE s == gsess
  <1>1. s \in Sessions /\ gpc = "read" /\ ~closed
    BY DEF GuardMeasures, GuardMayRun, Apart, GuardApart, ClosedPool, AtSession
  <1>2. UNCHANGED <<closed, keyOf, out, proc, stray, want, held, cpc, doomed>>
    BY DEF GuardMeasures
  <1>3. /\ \/ gpc' = "sweep" /\ gsess' = NoSession
           \/ gpc' = "close" /\ gsess' = s
        /\ \/ UNCHANGED <<live, registered, idle, poisoned, closing, pc>>
           \/ /\ out[s] /\ poisoned' = [poisoned EXCEPT ![s] = TRUE]
              /\ UNCHANGED <<live, registered, idle, closing, pc>>
           \/ /\ s \in live /\ idle' = Without(idle, s)
              /\ live' = live \ {s} /\ registered' = registered \ {s}
              /\ closing' = closing \cup {s} /\ pc' = Woken(pc) /\ UNCHANGED poisoned
    BY DEF GuardMeasures, GuardGoesTo, Unregistered
  <1>4. /\ idle' \in Seq(Sessions) /\ Distinct(idle')
        /\ \/ Idle' = Idle /\ live' = live /\ registered' = registered /\ closing' = closing
           \/ /\ s \in live /\ Idle' = Idle \ {s} /\ live' = live \ {s}
              /\ registered' = registered \ {s} /\ closing' = closing \cup {s}
    <2>1. CASE UNCHANGED <<live, registered, idle, closing>>
      BY <2>1, SameIdle DEF Apart, Types
    <2>2. CASE /\ s \in live /\ idle' = Without(idle, s)
               /\ live' = live \ {s} /\ registered' = registered \ {s}
               /\ closing' = closing \cup {s}
      <3>1. idle' \in Seq(Sessions) /\ Distinct(idle') /\ Idle' = Idle \ {s}
        BY <2>2, IdleWithout DEF Apart
      <3> QED
        BY <2>2, <3>1
    <2> QED
      BY <1>3, <2>1, <2>2
  <1>5. /\ pc' \in [Callers -> States]
        /\ \A c \in Callers : /\ pc'[c] = "spawn" <=> pc[c] = "spawn"
                              /\ pc'[c] = "using" <=> pc[c] = "using"
    BY <1>3, WokenKeeps DEF Apart, Types
  <1>6. /\ poisoned' \in [Sessions -> BOOLEAN]
        /\ \A t \in Sessions : poisoned'[t] = poisoned[t] \/ out[t]
    BY <1>1, <1>3 DEF Apart, Types
  <1>7. Types' /\ IdleApart'
    BY <1>1, <1>2, <1>4, <1>5, <1>6 DEF Apart, Types, IdleApart
  <1>8. LiveApart' /\ HeldApart'
    BY <1>2, <1>4, <1>5 DEF Apart, LiveApart, HeldApart
  <1>9. SpawnsApart'
    BY <1>2, <1>3, <1>4, <1>5 DEF Apart, SpawnsApart, BeingOpened, ReplPoolAssumption
  <1>10. GuardApart'
    BY <1>1, <1>3 DEF GuardApart, AtSession
  <1>11. ClosedPool'
    BY <1>1, <1>2, <1>4 DEF Apart, ClosedPool
  <1> QED
    BY <1>7, <1>8, <1>9, <1>10, <1>11 DEF Apart

LEMMA GuardRebuildKeeps ==
    ASSUME ReplPoolAssumption, Apart, GuardRebuild
    PROVE  Apart'
  <1> USE DEF callerVars, closeVars
  <1>1. PICK s \in Sessions :
          /\ Fresh(s) /\ proc' = [proc EXCEPT ![s] = "starting"] /\ gsess' = s
          /\ keyOf' = [keyOf EXCEPT ![s] = keyOf[gsess], ![gsess] = NoKey]
    BY DEF GuardRebuild
  <1>2. /\ gpc = "rebuild" /\ gpc' = "spawn" /\ gsess \in Sessions /\ ~closed
        /\ UNCHANGED <<live, registered, idle, closed, out, poisoned, closing, stray, pc, want,
                       held, cpc, doomed>>
    BY DEF GuardRebuild, GuardMayRun, Apart, GuardApart, ClosedPool, AtSession
  <1>3. Idle' = Idle
    BY <1>2, SameIdle
  <1>4. /\ proc' \in [Sessions -> {"none", "starting", "running", "gone"}]
        /\ keyOf' \in [Sessions -> Keys \cup {NoKey}] /\ proc'[s] = "starting"
        /\ \A t \in Sessions \ {s} : proc'[t] = proc[t]
        /\ \A t \in Sessions \ {s, gsess} : keyOf'[t] = keyOf[t]
    BY <1>1, <1>2 DEF Apart, Types
  <1>5. /\ s \notin live \cup registered \cup doomed \cup closing \cup stray
        /\ \A c \in Callers : held[c] # s
    BY <1>1, <1>2 DEF Fresh, Apart, LiveApart, ClosedPool
  <1>6. Types' /\ IdleApart' /\ LiveApart' /\ HeldApart'
    BY <1>1, <1>2, <1>3, <1>4, <1>5 DEF Apart, Types, IdleApart, LiveApart, HeldApart
  <1>7. SpawnsApart'
    BY <1>1, <1>2, <1>4, <1>5 DEF Apart, SpawnsApart, BeingOpened
  <1>8. GuardApart' /\ ClosedPool'
    BY <1>1, <1>2, <1>4, <1>5 DEF Apart, GuardApart, BeingOpened, ClosedPool
  <1> QED
    BY <1>6, <1>7, <1>8 DEF Apart

LEMMA GuardSpawnedKeeps ==
    ASSUME ReplPoolAssumption, Apart, GuardSpawned
    PROVE  Apart'
  <1> USE DEF closeVars
  <1> DEFINE s == gsess
  <1>1. /\ s \in Sessions /\ ~closed /\ BeingOpened(s) /\ s # NoSession /\ s \notin Idle
        /\ \A c \in Callers : held[c] # s
    BY DEF GuardSpawned, GuardMayRun, Apart, GuardApart, ClosedPool, AtSession, BeingOpened,
           IdleApart, ReplPoolAssumption
  <1>2. /\ gpc' = "sweep" /\ gsess' = NoSession /\ pc' = Woken(pc)
        /\ UNCHANGED <<closed, keyOf, closing, stray, want, held, cpc, doomed>>
    BY DEF GuardSpawned, GuardGoesTo
  <1>3. /\ pc' \in [Callers -> States]
        /\ \A c \in Callers : /\ pc'[c] = "spawn" <=> pc[c] = "spawn"
                              /\ pc'[c] = "using" <=> pc[c] = "using"
    BY <1>2, WokenKeeps DEF Apart, Types
  <1>4. CASE /\ proc' = [proc EXCEPT ![s] = "running"] /\ out' = [out EXCEPT ![s] = FALSE]
             /\ poisoned' = [poisoned EXCEPT ![s] = FALSE] /\ live' = live \cup {s}
             /\ registered' = registered \cup {s} /\ idle' = Append(idle, s)
    <2>1. idle' \in Seq(Sessions) /\ Distinct(idle') /\ Idle' = Idle \cup {s}
      BY <1>1, <1>4, IdleWith DEF Apart
    <2>2. Types'
      BY <1>1, <1>2, <1>3, <1>4, <2>1 DEF Apart, Types
    <2>3. /\ proc'[s] = "running" /\ ~out'[s] /\ ~poisoned'[s]
          /\ \A t \in Sessions \ {s} : /\ proc'[t] = proc[t] /\ out'[t] = out[t]
                                       /\ poisoned'[t] = poisoned[t]
      BY <1>1, <1>4 DEF Apart, Types
    <2>4. IdleApart'
      BY <1>1, <1>2, <1>4, <2>1, <2>3 DEF Apart, Types, IdleApart, BeingOpened
    <2>5. LiveApart' /\ HeldApart'
      BY <1>1, <1>2, <1>3, <1>4, <2>3 DEF Apart, Types, LiveApart, HeldApart, BeingOpened
    <2>6. SpawnsApart'
      BY <1>1, <1>2, <1>3, <1>4, <2>3 DEF Apart, SpawnsApart, BeingOpened, ReplPoolAssumption
    <2> QED
      BY <1>1, <1>2, <1>4, <2>2, <2>4, <2>5, <2>6 DEF Apart, GuardApart, ClosedPool, AtSession
  <1>5. CASE /\ proc' = [proc EXCEPT ![s] = "none"]
             /\ UNCHANGED <<live, registered, idle, out, poisoned>>
    <2>1. Idle' = Idle
      BY <1>5, SameIdle
    <2>2. /\ proc' \in [Sessions -> {"none", "starting", "running", "gone"}]
          /\ \A t \in Sessions \ {s} : proc'[t] = proc[t]
      BY <1>1, <1>5 DEF Apart, Types
    <2>3. Types' /\ IdleApart' /\ LiveApart' /\ HeldApart'
      BY <1>1, <1>2, <1>3, <1>5, <2>1, <2>2
         DEF Apart, Types, IdleApart, LiveApart, HeldApart, BeingOpened
    <2>4. SpawnsApart'
      BY <1>1, <1>2, <1>3, <1>5, <2>2 DEF Apart, SpawnsApart, BeingOpened, ReplPoolAssumption
    <2> QED
      BY <1>1, <1>2, <1>5, <2>3, <2>4 DEF Apart, GuardApart, ClosedPool, AtSession
  <1> QED
    BY <1>4, <1>5 DEF GuardSpawned

LEMMA CloseKeeps ==
    ASSUME ReplPoolAssumption, Apart, Close \/ CloseSessions \/ CloseReturns
    PROVE  Apart'
  <1> USE DEF poolVars, sessionVars, threadVars, callerVars, guardVars
  <1>1. CASE Close
    <2>1. idle' = <<>> /\ Idle' = {} /\ idle' \in Seq(Sessions) /\ Distinct(idle')
      BY <1>1 DEF Close, Idle, Distinct
    <2>2. /\ pc' \in [Callers -> States]
          /\ \A c \in Callers : /\ pc'[c] = "spawn" <=> pc[c] = "spawn"
                                /\ pc'[c] = "using" <=> pc[c] = "using"
      BY <1>1, WokenKeeps DEF Close, Apart, Types
    <2> QED
      BY <1>1, <2>1, <2>2 DEF Close, Apart, Types, IdleApart, LiveApart, HeldApart, BeingOpened, SpawnsApart, GuardApart,
         ClosedPool
  <1>2. CASE CloseSessions
    <2>1. Idle' = Idle
      BY <1>2, SameIdle DEF CloseSessions
    <2> QED
      BY <1>2, <2>1 DEF CloseSessions, ReplPoolAssumption, AtSession, Apart, Types, IdleApart, LiveApart, HeldApart, BeingOpened, SpawnsApart, GuardApart,
         ClosedPool
  <1>3. CASE CloseReturns
    <2>1. Idle' = Idle
      BY <1>3, SameIdle DEF CloseReturns
    <2> QED
      BY <1>3, <2>1 DEF CloseReturns, Apart, Types, IdleApart, LiveApart, HeldApart, BeingOpened, SpawnsApart, GuardApart,
         ClosedPool
  <1> QED
    BY <1>1, <1>2, <1>3

----------------------------------------------------------------------------
(* The theorems                                                            *)

LEMMA NextKeeps ==
    ASSUME ReplPoolAssumption, Cancels = FALSE, Apart, [Next]_vars
    PROVE  Apart'
  <1>1. ASSUME NEW c \in Callers, NEW k \in Keys, Call(c, k) PROVE Apart'
    BY <1>1, CallKeeps
  <1>2. ASSUME NEW c \in Callers, Refused(c) \/ Wait(c) PROVE Apart'
    BY <1>2, IdlingKeeps
  <1>3. ASSUME NEW c \in Callers, Reuse(c) PROVE Apart'
    BY <1>3, ReuseKeeps
  <1>4. ASSUME NEW c \in Callers, ReapBroken(c) PROVE Apart'
    <2>1. LastFor(want[c]) \in Idle
      BY <1>4, LastForIsIdle DEF ReapBroken, Apart, Types
    <2> QED
      BY <1>4, <2>1, EvictKeeps DEF ReapBroken
  <1>5. ASSUME NEW c \in Callers, EvictLRU(c) PROVE Apart'
    <2>1. EvictionChoice(want[c]) \in Idle
      BY <1>5, EvictionIsIdle DEF EvictLRU, Apart, Types
    <2> QED
      BY <1>5, <2>1, EvictKeeps DEF EvictLRU
  <1>6. ASSUME NEW c \in Callers, StartSpawn(c) \/ Spawned(c) \/ SpawnFails(c) PROVE Apart'
    BY <1>6, StartSpawnKeeps, SpawnedKeeps, SpawnFailsKeeps
  <1>7. ASSUME NEW c \in Callers, Verdict(c) PROVE Apart'
    <2>1. /\ pc[c] = "using" /\ Release(c, FALSE) /\ UNCHANGED <<stray, poisoned>>
          /\ UNCHANGED <<opening, closed, keyOf, proc, ownerless, want, guardVars, closeVars>>
      BY <1>7 DEF Verdict
    <2> QED
      BY <2>1, ReleaseKeeps
  <1>8. ASSUME NEW c \in Callers, TacticTimesOut(c) PROVE Apart'
    <2>1. /\ pc[c] = "using" /\ Release(c, TRUE) /\ stray' = stray \cup {held[c]}
          /\ poisoned' = [poisoned EXCEPT ![held[c]] = TRUE]
          /\ UNCHANGED <<opening, closed, keyOf, proc, ownerless, want, guardVars, closeVars>>
      BY <1>8 DEF TacticTimesOut
    <2> QED
      BY <2>1, ReleaseKeeps
  <1>9. ASSUME NEW c \in Callers, ToolError(c) PROVE Apart'
    BY <1>9, ToolErrorKeeps
  <1>10. ASSUME NEW s \in Sessions, ThreadEnds(s) \/ ProcessDies(s) PROVE Apart'
    BY <1>10, CloseEndsKeeps, ProcessesKeep DEF ThreadEnds
  <1>11. CASE GuardStep
    BY <1>11, GuardLooksKeep, GuardMeasuresKeeps, GuardRebuildKeeps, GuardSpawnedKeeps
       DEF GuardStep
  <1>12. CASE Close \/ CloseGoesOn
    BY <1>12, CloseKeeps DEF CloseGoesOn
  <1>13. CASE UNCHANGED vars
    <2>1. Idle' = Idle
      BY <1>13, SameIdle DEF vars, poolVars
    <2> QED
      BY <1>13, <2>1 DEF vars, poolVars, sessionVars, threadVars, callerVars, guardVars,
         closeVars, Apart, Types, IdleApart, LiveApart, HeldApart, BeingOpened, SpawnsApart, GuardApart,
         ClosedPool
  <1>14. \A c \in Callers : ~Cancel(c)
    BY DEF Cancel
  <1> QED
    BY <1>1, <1>2, <1>3, <1>4, <1>5, <1>6, <1>7, <1>8, <1>9, <1>10, <1>11, <1>12, <1>13, <1>14
       DEF Next, CallerGoesOn

\* As long as no caller is cancelled, a session serves one caller at a time, is idle for nobody
\* else meanwhile, and no thread of an earlier user runs on it; and no broken session is idle.
THEOREM SessionsAreExclusive ==
    ASSUME Cancels = FALSE
    PROVE  Spec => [](ExclusiveUse /\ NoPoisonIdle)
  <1>1. Init => Apart
    BY ReplPoolAssumption, InitApart
  <1>2. Apart /\ [Next]_vars => Apart'
    BY ReplPoolAssumption, NextKeeps
  <1>3. Apart => ExclusiveUse /\ NoPoisonIdle
    BY ReplPoolAssumption
       DEF Apart, Types, HeldApart, IdleApart, ExclusiveUse, NoPoisonIdle, Users
  <1> QED
    BY <1>1, <1>2, <1>3, PTL DEF Spec

\* A caller comes to use a session in two ways.
LEMMA OnlyThese ==
    ASSUME Cancels = FALSE, pc \in [Callers -> States], Next,
           NEW c \in Callers, pc[c] # "using", pc'[c] = "using"
    PROVE  Reuse(c) \/ Spawned(c)
  <1> SUFFICES ASSUME ~Reuse(c), ~Spawned(c) PROVE FALSE
    OBVIOUS
  <1> USE DEF callerVars, GoesTo, NotifiesAndGoesTo
  <1>1. ASSUME NEW d \in Callers, NEW st \in States, d # c \/ st # "using",
               GoesTo(d, st) \/ NotifiesAndGoesTo(d, st)
        PROVE  FALSE
    <2>1. Woken(pc) \in [Callers -> States] /\ Woken(pc)[c] # "using"
      BY WokenKeeps
    <2> QED
      BY <1>1, <2>1
  <1>2. pc' # pc /\ pc' # Woken(pc)
    BY WokenKeeps
  <1>3. ASSUME NEW d \in Callers, \E k \in Keys : Call(d, k)
        PROVE  FALSE
    BY <1>1, <1>3 DEF Call, States
  <1>4. ASSUME NEW d \in Callers,
               Refused(d) \/ Wait(d) \/ ReapBroken(d) \/ EvictLRU(d) \/ StartSpawn(d)
        PROVE  FALSE
    BY <1>1, <1>4 DEF Refused, Wait, ReapBroken, EvictLRU, Evict, StartSpawn, States
  <1>5. ASSUME NEW d \in Callers, Reuse(d) \/ Spawned(d) \/ SpawnFails(d)
        PROVE  FALSE
    BY <1>1, <1>5 DEF Reuse, Spawned, SpawnFails, States
  <1>6. ASSUME NEW d \in Callers, Verdict(d) \/ TacticTimesOut(d)
        PROVE  FALSE
    BY <1>1, <1>6 DEF Verdict, TacticTimesOut, Release, States
  <1>7. ASSUME NEW d \in Callers, ToolError(d) \/ Cancel(d)
        PROVE  FALSE
    BY <1>2, <1>7 DEF ToolError, Cancel
  <1>8. ASSUME NEW s \in Sessions, CloseEnds(s)
        PROVE  FALSE
    <2>1. pc' = [d \in Callers |->
                   CASE held[d] = s /\ pc[d] = "evict"                 -> "acquire"
                     [] held[d] = s /\ pc[d] \in {"release", "giveup"} -> "free"
                     [] OTHER                                          -> pc[d]]
      BY <1>8 DEF CloseEnds
    <2> QED
      BY <2>1
  <1>9. ASSUME NEW s \in Sessions, StrayEnds(s) \/ OwnerlessStarts(s) \/ ProcessDies(s)
        PROVE  FALSE
    BY <1>2, <1>9 DEF StrayEnds, OwnerlessStarts, ProcessDies
  <1>10. CASE GuardStep
    BY <1>2, <1>10 DEF GuardStep, GuardSweep, GuardNext, GuardMeasures, GuardRebuild,
       GuardSpawned
  <1>11. CASE Close \/ CloseGoesOn
    BY <1>2, <1>11 DEF Close, CloseGoesOn, CloseSessions, CloseReturns
  <1> QED
    BY <1>3, <1>4, <1>5, <1>6, <1>7, <1>8, <1>9, <1>10, <1>11
       DEF Next, CallerGoesOn, ThreadEnds

\* What a caller is handed is a session for its theorem, with a process, sound, and not being
\* torn down.
THEOREM SoundSessionsAreHandedOut ==
    ASSUME Cancels = FALSE
    PROVE  Spec => BrokenNeverHandedOut
  <1>1. Init => Apart
    BY ReplPoolAssumption, InitApart
  <1>2. Apart /\ [Next]_vars => Apart'
    BY ReplPoolAssumption, NextKeeps
  <1>3. ASSUME Apart, Next, NEW c \in Callers, pc[c] # "using", pc'[c] = "using"
        PROVE  /\ keyOf'[held'[c]] = want[c]
               /\ proc'[held'[c]] = "running" /\ ~poisoned'[held'[c]]
               /\ held'[c] \notin closing'
    <2>1. CASE Reuse(c)
      <3>1. LastFor(want[c]) \in Idle /\ keyOf[LastFor(want[c])] = want[c]
        BY <1>3, <2>1, LastForIsIdle DEF Reuse, Apart, Types
      <3>2. held'[c] = LastFor(want[c]) /\ proc[LastFor(want[c])] # "gone"
        BY <1>3, <2>1 DEF Reuse, IsUnusable, Apart, Types
      <3> QED
        BY <1>3, <2>1, <3>1, <3>2 DEF Reuse, threadVars, Apart, IdleApart, LiveApart
    <2>2. CASE Spawned(c)
      <3>1. /\ BeingOpened(held[c]) /\ keyOf[held[c]] = want[c]
            /\ proc' = [proc EXCEPT ![held[c]] = "running"]
            /\ poisoned' = [poisoned EXCEPT ![held[c]] = FALSE]
            /\ UNCHANGED <<held, keyOf>>
        BY <1>3, <2>2 DEF Spawned, Apart, SpawnsApart
      <3>2. closing' = closing
        BY <1>3, <2>2 DEF Spawned, NotifiesAndGoesTo, Apart, Types, Woken, States
      <3> QED
        BY <1>3, <3>1, <3>2 DEF Apart, Types, BeingOpened
    <2>3. Reuse(c) \/ Spawned(c)
      BY <1>3, OnlyThese DEF Apart, Types
    <2> QED
      BY <2>1, <2>2, <2>3
  <1>4. Apart /\ [Next]_vars =>
            [\A c \in Callers : (pc[c] # "using" /\ pc'[c] = "using") =>
                LET s == held'[c]
                IN  /\ keyOf'[s] = want[c]
                    /\ proc'[s] = "running" /\ ~poisoned'[s] /\ s \notin closing']_vars
    BY <1>3
  <1> QED
    BY <1>1, <1>2, <1>4, PTL DEF Spec, BrokenNeverHandedOut

----------------------------------------------------------------------------
(* The capacity, whether callers are cancelled or not                      *)

\* A waiter has its reason; and only the rebuild of a session by the guard takes the pool over
\* its size, from a pool that was not.
Room ==
    /\ IsFiniteSet(live) /\ opening \in Int /\ pc \in [Callers -> States]
    /\ WaitHasReason
    /\ AtMostOneOver
    /\ gpc \in {"close", "rebuild"} => SizeKept
    /\ ~Guarded => gpc = "off" /\ SizeKept

\* Taking a session out of the live ones leaves no more of them, one less if it was live; putting
\* one in adds one at most.
LEMMA LiveWithout ==
    ASSUME IsFiniteSet(live), NEW s, live' = live \ {s}
    PROVE  /\ Cardinality(live) \in Nat
           /\ IsFiniteSet(live') /\ Cardinality(live') \in Nat
           /\ Cardinality(live') <= Cardinality(live)
           /\ s \in live => Cardinality(live') = Cardinality(live) - 1
  <1>1. /\ IsFiniteSet(live \ {s})
        /\ Cardinality(live \ {s}) = IF s \in live THEN Cardinality(live) - 1 ELSE Cardinality(live)
    BY FS_RemoveElement
  <1>2. Cardinality(live) \in Nat /\ Cardinality(live \ {s}) \in Nat
    BY <1>1, FS_CardinalityType
  <1> QED
    BY <1>1, <1>2

LEMMA LiveWith ==
    ASSUME IsFiniteSet(live), live' = live \/ \E s : live' = live \cup {s}
    PROVE  /\ Cardinality(live) \in Nat
           /\ IsFiniteSet(live') /\ Cardinality(live') \in Nat
           /\ Cardinality(live') <= Cardinality(live) + 1
  <1>1. Cardinality(live) \in Nat
    BY FS_CardinalityType
  <1>2. CASE live' = live
    BY <1>1, <1>2
  <1>3. ASSUME NEW s, live' = live \cup {s}
        PROVE  /\ IsFiniteSet(live') /\ Cardinality(live') \in Nat
               /\ Cardinality(live') <= Cardinality(live) + 1
    <2>1. /\ IsFiniteSet(live \cup {s})
          /\ Cardinality(live \cup {s})
               = IF s \in live THEN Cardinality(live) ELSE Cardinality(live) + 1
      BY FS_AddElement
    <2> QED
      BY <1>1, <1>3, <2>1
  <1> QED
    BY <1>1, <1>2, <1>3

LEMMA NobodyWaits ==
    ASSUME pc \in [Callers -> States], NEW c \in Callers, NEW st \in States \ {"wait"},
           NotifiesAndGoesTo(c, st) \/ pc' = Woken(pc)
    PROVE  pc' \in [Callers -> States] /\ ~\E d \in Callers : pc'[d] = "wait"
  <1>1. Woken(pc) \in [Callers -> States] /\ ~\E d \in Callers : Woken(pc)[d] = "wait"
    BY DEF Woken, States
  <1> QED
    BY <1>1 DEF NotifiesAndGoesTo

LEMMA NoNewWaiter ==
    ASSUME pc \in [Callers -> States], NEW c \in Callers, NEW st \in States, GoesTo(c, st)
    PROVE  /\ pc' \in [Callers -> States]
           /\ st # "wait" => \A d \in Callers : pc'[d] = "wait" => pc[d] = "wait"
  BY DEF GoesTo

\* A step that leaves the sessions, the places and the idle list alone, and brings no waiter.
LEMMA QuietStep ==
    ASSUME Room, UNCHANGED <<live, idle, opening, closed>>,
           pc' \in [Callers -> States],
           \A d \in Callers : pc'[d] = "wait" => pc[d] = "wait",
           gpc' \in {"close", "rebuild"} => gpc \in {"close", "rebuild"},
           ~Guarded => gpc' = "off"
    PROVE  Room'
  BY DEF Room, WaitHasReason, AtMostOneOver, SizeKept, HasCapacity

\* A step that takes no place more than it gives back, and after which nobody waits.
LEMMA WakingStep ==
    ASSUME ReplPoolAssumption, Room, IsFiniteSet(live'), opening' \in Int,
           Cardinality(live') + opening' <= Cardinality(live) + opening,
           pc' \in [Callers -> States], ~\E d \in Callers : pc'[d] = "wait",
           gpc' \in {"close", "rebuild"} => Cardinality(live') + opening' <= Size,
           ~Guarded => gpc' = "off"
    PROVE  Room'
  <1>1. /\ Cardinality(live) \in Int /\ Cardinality(live') \in Int /\ Size \in Int
    BY FS_CardinalityType DEF Room, ReplPoolAssumption
  <1> QED
    BY <1>1 DEF Room, WaitHasReason, AtMostOneOver, SizeKept

LEMMA CallerKeepsRoom ==
    ASSUME ReplPoolAssumption, Room, NEW c \in Callers,
           \/ \E k \in Keys : Call(c, k)
           \/ Refused(c) \/ Reuse(c) \/ ReapBroken(c) \/ EvictLRU(c) \/ ToolError(c)
    PROVE  Room'
  <1> USE DEF poolVars, sessionVars, threadVars, callerVars, guardVars, closeVars
  <1>1. pc \in [Callers -> States] /\ (~Guarded => gpc = "off")
    BY DEF Room
  <1>2. ASSUME NEW k \in Keys, Call(c, k) PROVE Room'
    <2>1. /\ GoesTo(c, "acquire") /\ UNCHANGED <<live, idle, opening, closed>>
          /\ gpc' = gpc \/ (Guarded /\ gpc' = "sleep")
      BY <1>2 DEF Call
    <2> QED
      BY <1>1, <2>1, NoNewWaiter, QuietStep DEF States
  <1>3. CASE Refused(c)
    <2>1. GoesTo(c, "free") /\ UNCHANGED <<live, idle, opening, closed, gpc>>
      BY <1>3 DEF Refused
    <2> QED
      BY <1>1, <2>1, NoNewWaiter, QuietStep DEF States
  <1>4. CASE ToolError(c)
    <2>1. UNCHANGED <<live, idle, opening, closed, gpc, pc>>
      BY <1>4 DEF ToolError
    <2> QED
      BY <1>1, <2>1, QuietStep
  <1>5. CASE Reuse(c) \/ ReapBroken(c) \/ EvictLRU(c)
    <2>1. /\ GoesTo(c, "using") \/ GoesTo(c, "evict")
          /\ UNCHANGED <<opening, closed, gpc>>
          /\ live' = live \/ \E s : live' = live \ {s}
      BY <1>5 DEF Reuse, ReapBroken, EvictLRU, Evict
    <2>2. idle # <<>>
      BY <1>5 DEF Reuse, ReapBroken, EvictLRU, IdleFor
    <2>3. ~\E d \in Callers : pc[d] = "wait"
      BY <2>2 DEF Room, WaitHasReason
    <2>4. pc' \in [Callers -> States] /\ ~\E d \in Callers : pc'[d] = "wait"
      BY <1>1, <2>1, <2>3, NoNewWaiter DEF States
    <2>5. IsFiniteSet(live') /\ Cardinality(live') \in Nat /\ Cardinality(live') <= Cardinality(live)
          /\ Cardinality(live) \in Nat
      BY <2>1, LiveWithout, FS_CardinalityType DEF Room
    <2>6. opening' \in Int /\ Cardinality(live') + opening' <= Cardinality(live) + opening
      BY <2>1, <2>5 DEF Room
    <2>7. gpc' \in {"close", "rebuild"} => Cardinality(live') + opening' <= Size
      BY <2>1, <2>5, <2>6 DEF Room, SizeKept, ReplPoolAssumption
    <2> QED
      BY <1>1, <2>1, <2>4, <2>5, <2>6, <2>7, WakingStep
  <1> QED
    BY <1>2, <1>3, <1>4, <1>5

LEMMA SpawnKeepsRoom ==
    ASSUME ReplPoolAssumption, Room, NEW c \in Callers,
           Wait(c) \/ StartSpawn(c) \/ Spawned(c) \/ SpawnFails(c)
    PROVE  Room'
  <1> USE DEF poolVars, sessionVars, threadVars, callerVars, guardVars, closeVars
  <1>1. /\ pc \in [Callers -> States] /\ (~Guarded => gpc = "off") /\ opening \in Int
        /\ Cardinality(live) \in Nat /\ Size \in Nat /\ IsFiniteSet(live)
    BY FS_CardinalityType DEF Room, ReplPoolAssumption
  <1>2. CASE Wait(c)
    <2>1. /\ GoesTo(c, "wait") /\ UNCHANGED <<live, idle, opening, closed, gpc>>
          /\ ~closed /\ ~HasCapacity /\ idle = <<>>
      BY <1>2 DEF Wait
    <2>2. pc' \in [Callers -> States]
      BY <1>1, <2>1, NoNewWaiter DEF States
    <2> QED
      BY <2>1, <2>2 DEF Room, WaitHasReason, AtMostOneOver, SizeKept, HasCapacity
  <1>3. CASE StartSpawn(c)
    <2>1. /\ GoesTo(c, "spawn") /\ UNCHANGED <<live, idle, closed, gpc>>
          /\ opening' = opening + 1 /\ HasCapacity
      BY <1>3 DEF StartSpawn
    <2>2. /\ pc' \in [Callers -> States]
          /\ \A d \in Callers : pc'[d] = "wait" => pc[d] = "wait"
      BY <1>1, <2>1, NoNewWaiter DEF States
    <2>3. Cardinality(live') + opening' <= Size
      BY <1>1, <2>1 DEF HasCapacity
    <2>4. ~\E d \in Callers : pc'[d] = "wait"
      BY <2>1, <2>2 DEF Room, WaitHasReason
    <2>5. Cardinality(live') + opening' <= Size + 1
      BY <1>1, <2>1, <2>3
    <2> QED
      BY <1>1, <2>1, <2>2, <2>3, <2>4, <2>5 DEF Room, WaitHasReason, AtMostOneOver, SizeKept
  <1>4. CASE Spawned(c) \/ SpawnFails(c)
    <2>1. PICK st \in {"using", "giveup", "free"} : NotifiesAndGoesTo(c, st)
      BY <1>4 DEF Spawned, SpawnFails
    <2>2. pc' \in [Callers -> States] /\ ~\E d \in Callers : pc'[d] = "wait"
      BY <1>1, <2>1, NobodyWaits DEF States
    <2>3. /\ opening' = opening - 1 /\ gpc' = gpc
          /\ live' = live \/ \E s : live' = live \cup {s}
      BY <1>4 DEF Spawned, SpawnFails
    <2>4. IsFiniteSet(live') /\ Cardinality(live') \in Nat /\ Cardinality(live') <= Cardinality(live) + 1
      BY <1>1, <2>3, LiveWith
    <2>5. opening' \in Int /\ Cardinality(live') + opening' <= Cardinality(live) + opening
      BY <1>1, <2>3, <2>4
    <2>6. gpc' \in {"close", "rebuild"} => Cardinality(live') + opening' <= Size
      BY <1>1, <2>3, <2>4, <2>5 DEF Room, SizeKept
    <2> QED
      BY <1>1, <2>2, <2>3, <2>4, <2>5, <2>6, WakingStep
  <1> QED
    BY <1>2, <1>3, <1>4

LEMMA ReleaseKeepsRoom ==
    ASSUME ReplPoolAssumption, Room, NEW c \in Callers, NEW drop, Release(c, drop),
           UNCHANGED <<opening, closed, gpc>>
    PROVE  Room'
  <1>1. /\ pc \in [Callers -> States] /\ (~Guarded => gpc' = "off") /\ opening \in Int
        /\ Cardinality(live) \in Nat /\ Size \in Nat /\ IsFiniteSet(live)
    BY FS_CardinalityType DEF Room, ReplPoolAssumption
  <1>2. CASE GoesTo(c, "free") /\ UNCHANGED <<live, idle>>
    BY <1>1, <1>2, NoNewWaiter, QuietStep DEF States
  <1>3. ASSUME NEW st \in {"release", "free"}, NotifiesAndGoesTo(c, st),
               live' = live \/ live' = live \ {held[c]}
        PROVE  Room'
    <2>1. pc' \in [Callers -> States] /\ ~\E d \in Callers : pc'[d] = "wait"
      BY <1>1, <1>3, NobodyWaits DEF States
    <2>2. IsFiniteSet(live') /\ Cardinality(live') \in Nat /\ Cardinality(live') <= Cardinality(live)
      BY <1>1, <1>3, LiveWithout
    <2>3. opening' \in Int /\ Cardinality(live') + opening' <= Cardinality(live) + opening
      BY <1>1, <2>2
    <2>4. gpc' \in {"close", "rebuild"} => Cardinality(live') + opening' <= Size
      BY <1>1, <2>2, <2>3 DEF Room, SizeKept
    <2> QED
      BY <1>1, <2>1, <2>2, <2>3, <2>4, WakingStep
  <1> QED
    BY <1>2, <1>3 DEF Release

LEMMA CancelKeepsRoom ==
    ASSUME ReplPoolAssumption, Room, NEW c \in Callers, Cancel(c)
    PROVE  Room'
  <1> USE DEF guardVars
  <1>1. CASE GoesTo(c, "free") /\ UNCHANGED <<live, idle, opening, closed, gpc>>
    <2>1. /\ pc' \in [Callers -> States]
          /\ \A d \in Callers : pc'[d] = "wait" => pc[d] = "wait"
      BY <1>1, NoNewWaiter DEF Room, States
    <2> QED
      BY <1>1, <2>1, QuietStep DEF Room
  <1>2. CASE Release(c, FALSE)
    BY <1>2, ReleaseKeepsRoom DEF Cancel
  <1> QED
    BY <1>1, <1>2 DEF Cancel

LEMMA ThreadsKeepRoom ==
    ASSUME ReplPoolAssumption, Room, NEW s \in Sessions,
           CloseEnds(s) \/ StrayEnds(s) \/ OwnerlessStarts(s) \/ ProcessDies(s)
    PROVE  Room'
  <1> USE DEF poolVars, callerVars, guardVars
  <1>1. CASE CloseEnds(s)
    <2>1. pc' = [c \in Callers |->
                   CASE held[c] = s /\ pc[c] = "evict"                 -> "acquire"
                     [] held[c] = s /\ pc[c] \in {"release", "giveup"} -> "free"
                     [] OTHER                                          -> pc[c]]
      BY <1>1 DEF CloseEnds
    <2>2. \A d \in Callers : pc'[d] = pc[d] \/ pc'[d] \in {"acquire", "free"}
      BY <2>1
    <2>3. \A d \in Callers : pc'[d] \in States
      BY <2>2 DEF Room, States
    <2>4. pc' \in [Callers -> States]
      BY <2>1, <2>3
    <2>5. /\ UNCHANGED <<live, idle, opening, closed>>
          /\ gpc' = gpc \/ (gpc = "close" /\ gpc' = "rebuild")
      BY <1>1 DEF CloseEnds
    <2>6. \A d \in Callers : pc'[d] = "wait" => pc[d] = "wait"
      BY <2>2
    <2> QED
      BY <2>4, <2>5, <2>6, QuietStep DEF Room
  <1>2. CASE StrayEnds(s) \/ OwnerlessStarts(s) \/ ProcessDies(s)
    <2>1. UNCHANGED <<live, idle, opening, closed, gpc, pc>>
      BY <1>2 DEF StrayEnds, OwnerlessStarts, ProcessDies
    <2> QED
      BY <2>1, QuietStep DEF Room
  <1> QED
    BY <1>1, <1>2

LEMMA GuardKeepsRoom ==
    ASSUME ReplPoolAssumption, Room, GuardStep
    PROVE  Room'
  <1> USE DEF poolVars, callerVars
  <1>1. /\ pc \in [Callers -> States] /\ opening \in Int
        /\ Cardinality(live) \in Nat /\ Size \in Nat /\ IsFiniteSet(live)
    BY FS_CardinalityType DEF Room, ReplPoolAssumption
  <1>2. Guarded
    BY DEF GuardStep, GuardSweep, GuardNext, GuardMeasures, GuardRebuild, GuardSpawned, Room
  <1>3. CASE GuardSweep \/ GuardNext
    <2>1. UNCHANGED <<live, idle, opening, closed, pc>> /\ gpc' \in {"sweep", "sleep", "read"}
      BY <1>3 DEF GuardSweep, GuardNext
    <2> QED
      BY <1>1, <1>2, <2>1, QuietStep
  <1>4. CASE GuardMeasures
    <2>1. CASE UNCHANGED <<live, idle, pc>> /\ gpc' = "sweep"
      BY <1>1, <1>2, <1>4, <2>1, QuietStep DEF GuardMeasures
    <2>2. CASE gsess \in live /\ live' = live \ {gsess} /\ pc' = Woken(pc)
      <3>1. pc' \in [Callers -> States] /\ ~\E d \in Callers : pc'[d] = "wait"
        BY <1>1, <2>2 DEF Woken, States
      <3>2. /\ IsFiniteSet(live') /\ Cardinality(live') \in Nat
            /\ Cardinality(live') = Cardinality(live) - 1
        BY <1>1, <2>2, LiveWithout
      <3>3. opening' = opening
        BY <1>4 DEF GuardMeasures
      <3>4. /\ opening' \in Int /\ Cardinality(live') + opening' <= Cardinality(live) + opening
            /\ Cardinality(live') + opening' <= Size
        BY <1>1, <3>2, <3>3 DEF Room, AtMostOneOver
      <3> QED
        BY <1>2, <3>1, <3>2, <3>4, WakingStep
    <2> QED
      BY <1>4, <2>1, <2>2 DEF GuardMeasures, GuardGoesTo
  <1>5. CASE GuardRebuild
    <2>1. /\ UNCHANGED <<live, idle, closed, pc>> /\ gpc' = "spawn" /\ gpc = "rebuild"
          /\ opening' = opening + 1
      BY <1>5 DEF GuardRebuild
    <2>2. Cardinality(live') + opening' <= Size + 1
      BY <1>1, <2>1 DEF Room, SizeKept
    <2>3. HasCapacity' => HasCapacity
      BY <1>1, <2>1 DEF HasCapacity
    <2> QED
      BY <1>1, <1>2, <2>1, <2>2, <2>3 DEF Room, WaitHasReason, AtMostOneOver
  <1>6. CASE GuardSpawned
    <2>1. /\ pc' = Woken(pc) /\ opening' = opening - 1 /\ gpc' = "sweep"
          /\ live' = live \/ live' = live \cup {gsess}
      BY <1>6 DEF GuardSpawned, GuardGoesTo
    <2>2. pc' \in [Callers -> States] /\ ~\E d \in Callers : pc'[d] = "wait"
      BY <1>1, <2>1 DEF Woken, States
    <2>3. IsFiniteSet(live') /\ Cardinality(live') \in Nat /\ Cardinality(live') <= Cardinality(live) + 1
      BY <1>1, <2>1, LiveWith
    <2>4. opening' \in Int /\ Cardinality(live') + opening' <= Cardinality(live) + opening
      BY <1>1, <2>1, <2>3
    <2> QED
      BY <1>2, <2>1, <2>2, <2>3, <2>4, WakingStep
  <1> QED
    BY <1>3, <1>4, <1>5, <1>6 DEF GuardStep

LEMMA CloseKeepsRoom ==
    ASSUME ReplPoolAssumption, Room, Close \/ CloseSessions \/ CloseReturns
    PROVE  Room'
  <1> USE DEF poolVars, callerVars, guardVars
  <1>1. CASE Close
    <2>1. /\ pc' = Woken(pc) /\ live' = {} /\ UNCHANGED <<opening, gpc>>
      BY <1>1 DEF Close
    <2>2. pc' \in [Callers -> States] /\ ~\E d \in Callers : pc'[d] = "wait"
      BY <2>1 DEF Room, Woken, States
    <2>3. /\ IsFiniteSet(live') /\ Cardinality(live') = 0 /\ opening' \in Int
          /\ Cardinality(live) \in Nat /\ Size \in Nat
      BY <2>1, FS_EmptySet, FS_CardinalityType DEF Room, ReplPoolAssumption
    <2>4. /\ Cardinality(live') + opening' <= Cardinality(live) + opening
          /\ gpc' \in {"close", "rebuild"} => Cardinality(live') + opening' <= Size
      BY <2>1, <2>3 DEF Room, SizeKept
    <2>5. ~Guarded => gpc' = "off"
      BY <2>1 DEF Room
    <2> QED
      BY <2>2, <2>3, <2>4, <2>5, WakingStep
  <1>2. CASE CloseSessions \/ CloseReturns
    <2>1. UNCHANGED <<live, idle, opening, closed, pc>> /\ gpc' \in {"off", gpc}
      BY <1>2 DEF CloseSessions, CloseReturns
    <2> QED
      BY <2>1, QuietStep DEF Room
  <1> QED
    BY <1>1, <1>2

LEMMA InitRoom == ASSUME ReplPoolAssumption, Init PROVE Room
  <1>1. IsFiniteSet({}) /\ Cardinality({}) = 0
    BY FS_EmptySet
  <1> QED
    BY <1>1 DEF ReplPoolAssumption, Init, Room, States, WaitHasReason, AtMostOneOver, SizeKept

LEMMA NextKeepsRoom ==
    ASSUME ReplPoolAssumption, Room, [Next]_vars
    PROVE  Room'
  <1>1. ASSUME NEW c \in Callers, CallerGoesOn(c) \/ ToolError(c) \/ \E k \in Keys : Call(c, k)
        PROVE  Room'
    <2>1. CASE Verdict(c) \/ TacticTimesOut(c)
      <3>1. UNCHANGED <<opening, closed, gpc>> /\ \E drop \in BOOLEAN : Release(c, drop)
        BY <2>1 DEF Verdict, TacticTimesOut, guardVars
      <3> QED
        BY <3>1, ReleaseKeepsRoom
    <2> QED
      BY <1>1, <2>1, CallerKeepsRoom, SpawnKeepsRoom DEF CallerGoesOn
  <1>2. ASSUME NEW c \in Callers, Cancel(c) PROVE Room'
    BY <1>2, CancelKeepsRoom
  <1>3. ASSUME NEW s \in Sessions, ThreadEnds(s) \/ ProcessDies(s) PROVE Room'
    BY <1>3, ThreadsKeepRoom DEF ThreadEnds
  <1>4. CASE GuardStep \/ Close \/ CloseGoesOn
    BY <1>4, GuardKeepsRoom, CloseKeepsRoom DEF CloseGoesOn
  <1>5. CASE UNCHANGED vars
    BY <1>5, QuietStep DEF vars, poolVars, callerVars, guardVars, Room
  <1> QED
    BY <1>1, <1>2, <1>3, <1>4, <1>5 DEF Next

\* A caller who waits has its reason for it, and the guard takes the pool over its size by one
\* session at most: whoever is cancelled, and however long the guard runs.
THEOREM WaitersHaveReason == Spec => [](WaitHasReason /\ AtMostOneOver)
  <1>1. Init => Room
    BY ReplPoolAssumption, InitRoom
  <1>2. Room /\ [Next]_vars => Room'
    BY ReplPoolAssumption, NextKeepsRoom
  <1>3. Room => WaitHasReason /\ AtMostOneOver
    BY DEF Room
  <1> QED
    BY <1>1, <1>2, <1>3, PTL DEF Spec

\* Without the guard, the sessions that are resident or being opened are never more than the size
\* of the pool, and no waiter is kept from the capacity, whatever callers give up.
THEOREM CapacityIsNeverExceeded ==
    ASSUME Guarded = FALSE
    PROVE  Spec => []CapacityIsKept
  <1>1. Init => Room
    BY ReplPoolAssumption, InitRoom
  <1>2. Room /\ [Next]_vars => Room'
    BY ReplPoolAssumption, NextKeepsRoom
  <1>3. Room => CapacityIsKept
    BY DEF Room, CapacityIsKept
  <1> QED
    BY <1>1, <1>2, <1>3, PTL DEF Spec

----------------------------------------------------------------------------
(* The books of the pool                                                   *)

\* The sessions that a spawn thread opens, for a caller or the guard, and the ones whose thread
\* close() abandoned.
Opening ==
    {s \in Sessions : \/ \E c \in Callers : pc[c] = "spawn" /\ held[c] = s
                      \/ gpc = "spawn" /\ gsess = s
                      \/ s \in ownerless}

BookTypes ==
    /\ registered \subseteq Sessions /\ closing \subseteq Sessions
    /\ stray \subseteq Sessions /\ ownerless \subseteq Sessions
    /\ gpc \in {"off", "sleep", "sweep"} \cup AtSession
    /\ gtodo \subseteq Sessions /\ gsess \in Sessions \cup {NoSession}
    /\ cpc \in {"open", "join", "closing", "closed"} /\ doomed \subseteq Sessions

\* A place is reserved for each session that is being opened.
OpeningCounted == opening = Cardinality(Opening)

\* Only close() abandons a spawn thread; its session is nobody else's.
Abandoned ==
    /\ \A s \in ownerless : BeingOpened(s) /\ \A c \in Callers : held[c] # s
    /\ ~closed \/ cpc = "join" => ownerless = {}

\* While the pool is open, a session that is live is idle or in use.
InUse ==
    ~closed => /\ \A c \in Callers : pc[c] = "using" => held[c] \in live /\ out[held[c]]
               /\ \A s \in live : s \notin Idle => \E c \in Callers : pc[c] = "using" /\ held[c] = s

\* Each process is registered, being torn down, or being opened.
Owned == \A s \in Sessions : proc[s] # "none" => s \in registered \cup closing \cup Opening

Books == BookTypes /\ OpeningCounted /\ Abandoned /\ InUse /\ Owned

LEMMA OpeningIsFinite ==
    ASSUME ReplPoolAssumption
    PROVE  /\ IsFiniteSet(Opening) /\ Cardinality(Opening) \in Nat
           /\ Cardinality(Opening) <= Cardinality(Sessions)
  <1>1. Opening \in SUBSET Sessions /\ IsFiniteSet(Sessions)
    BY DEF Opening, ReplPoolAssumption
  <1> QED
    BY <1>1, FS_Subset, FS_CardinalityType

LEMMA OpensOne ==
    ASSUME ReplPoolAssumption, OpeningCounted, NEW s, s \notin Opening,
           Opening' = Opening \cup {s}, opening' = opening + 1
    PROVE  OpeningCounted'
  <1>1. IsFiniteSet(Opening) /\ Cardinality(Opening) \in Nat
    BY OpeningIsFinite
  <1>2. Cardinality(Opening \cup {s}) = Cardinality(Opening) + 1
    BY <1>1, FS_AddElement
  <1> QED
    BY <1>1, <1>2 DEF OpeningCounted

LEMMA EndsOne ==
    ASSUME ReplPoolAssumption, OpeningCounted, NEW s \in Opening,
           Opening' = Opening \ {s}, opening' = opening - 1
    PROVE  OpeningCounted'
  <1>1. IsFiniteSet(Opening) /\ Cardinality(Opening) \in Nat
    BY OpeningIsFinite
  <1>2. Cardinality(Opening \ {s}) = Cardinality(Opening) - 1
    BY <1>1, FS_RemoveElement
  <1> QED
    BY <1>1, <1>2 DEF OpeningCounted

\* A session that is being opened has a process and no place in the books.
LEMMA OpeningIsApart ==
    ASSUME Apart, Abandoned, NEW s \in Opening
    PROVE  BeingOpened(s)
  BY DEF Opening, Apart, SpawnsApart, GuardApart, Abandoned

LEMMA SameOpening ==
    ASSUME \A c \in Callers : pc'[c] = "spawn" <=> pc[c] = "spawn",
           \A c \in Callers : pc[c] = "spawn" => held'[c] = held[c],
           \/ gpc' = "spawn" /\ gpc = "spawn" /\ gsess' = gsess
           \/ gpc' # "spawn" /\ gpc # "spawn",
           ownerless' = ownerless
    PROVE  Opening' = Opening
  BY DEF Opening

LEMMA InitBooks == ASSUME ReplPoolAssumption, Init PROVE Books
  <1>1. Opening = {} /\ Cardinality({}) = 0
    BY FS_EmptySet DEF Init, Opening
  <1> QED
    BY <1>1 DEF Init, Books, BookTypes, OpeningCounted, Abandoned, InUse, Owned, AtSession

\* Calling, giving up and waiting.
LEMMA CallingKeepsBooks ==
    ASSUME ReplPoolAssumption, Apart, Books, NEW c \in Callers,
           (\E k \in Keys : Call(c, k)) \/ Refused(c) \/ Wait(c) \/ ToolError(c)
    PROVE  Books'
  <1> USE DEF poolVars, sessionVars, threadVars, callerVars, guardVars, closeVars
  <1>1. /\ UNCHANGED <<live, registered, idle, opening, closed, out, proc, closing, stray,
                       ownerless, held, gtodo, gsess, cpc, doomed>>
        /\ gpc' = gpc \/ (gpc = "off" /\ gpc' = "sleep")
    BY DEF Call, Refused, Wait, ToolError
  <1>2. /\ \A d \in Callers : pc'[d] = "spawn" <=> pc[d] = "spawn"
        /\ \A d \in Callers : pc'[d] = "using" <=> pc[d] = "using"
    BY DEF Call, Refused, Wait, ToolError, GoesTo, Apart, Types
  <1>3. Opening' = Opening /\ Idle' = Idle
    BY <1>1, <1>2, SameOpening, SameIdle
  <1>4. BookTypes' /\ Abandoned'
    BY <1>1 DEF Books, BookTypes, Abandoned, BeingOpened
  <1>5. OpeningCounted' /\ Owned'
    BY <1>1, <1>3 DEF Books, OpeningCounted, Owned
  <1>6. InUse'
    BY <1>1, <1>2, <1>3 DEF Books, InUse
  <1> QED
    BY <1>4, <1>5, <1>6 DEF Books

LEMMA ReuseKeepsBooks ==
    ASSUME ReplPoolAssumption, Apart, Books, NEW c \in Callers, Reuse(c)
    PROVE  Books'
  <1> USE DEF threadVars, closeVars, guardVars
  <1> DEFINE s == LastFor(want[c])
  <1>0. pc[c] = "acquire" /\ ~closed /\ s \in Idle /\ s \in Sessions /\ s \in live
    BY LastForIsIdle DEF Reuse, Apart, Types, IdleApart
  <1> HIDE DEF s
  <1>1. /\ idle' = Without(idle, s) /\ out' = [out EXCEPT ![s] = TRUE]
        /\ held' = [held EXCEPT ![c] = s] /\ pc' = [pc EXCEPT ![c] = "using"]
        /\ UNCHANGED <<live, registered, opening, closed, proc, closing, stray, ownerless,
                       gpc, gtodo, gsess, cpc, doomed>>
    BY DEF Reuse, GoesTo, s
  <1>2. Idle' = Idle \ {s}
    BY <1>1, IdleWithout DEF Apart
  <1>3. /\ held'[c] = s /\ \A d \in Callers \ {c} : held'[d] = held[d] /\ pc'[d] = pc[d]
        /\ pc'[c] = "using" /\ out'[s] /\ \A t \in Sessions \ {s} : out'[t] = out[t]
    BY <1>0, <1>1 DEF Apart, Types
  <1>4. Opening' = Opening
    BY <1>0, <1>1, <1>3, SameOpening
  <1>5. BookTypes' /\ OpeningCounted' /\ Owned'
    BY <1>1, <1>4 DEF Books, BookTypes, OpeningCounted, Owned
  <1>6. Abandoned'
    BY <1>0, <1>1 DEF Books, Abandoned
  <1>7. InUse'
    <2>1. ASSUME NEW d \in Callers, pc'[d] = "using" PROVE held'[d] \in live /\ out'[held'[d]]
      <3>1. d # c => held[d] \in live /\ out[held[d]] /\ held[d] \in Sessions
        BY <1>0, <1>3, <2>1 DEF Books, InUse, Apart, Types
      <3> QED
        BY <1>0, <1>3, <3>1
    <2>2. ASSUME NEW t \in live, t \notin Idle'
          PROVE  \E d \in Callers : pc'[d] = "using" /\ held'[d] = t
      BY <1>0, <1>2, <1>3, <2>2 DEF Books, InUse
    <2> QED
      BY <1>1, <2>1, <2>2 DEF InUse
  <1> QED
    BY <1>5, <1>6, <1>7 DEF Books

LEMMA EvictKeepsBooks ==
    ASSUME ReplPoolAssumption, Apart, Books, NEW c \in Callers, NEW s \in Idle,
           pc[c] = "acquire", ~closed, Evict(c, s)
    PROVE  Books'
  <1> USE DEF sessionVars, closeVars, guardVars
  <1>0. s \in Sessions /\ s \in live /\ \A d \in Callers : held[d] # s
    BY DEF Apart, Types, IdleApart
  <1>1. /\ idle' = Without(idle, s) /\ live' = live \ {s} /\ registered' = registered \ {s}
        /\ closing' = closing \cup {s}
        /\ held' = [held EXCEPT ![c] = s] /\ pc' = [pc EXCEPT ![c] = "evict"]
        /\ UNCHANGED <<opening, closed, out, proc, stray, ownerless, gpc, gtodo, gsess, cpc,
                       doomed>>
    BY DEF Evict, GoesTo, Unregistered
  <1>2. Idle' = Idle \ {s}
    BY <1>1, IdleWithout DEF Apart
  <1>3. /\ \A d \in Callers \ {c} : held'[d] = held[d] /\ pc'[d] = pc[d]
        /\ pc'[c] = "evict"
    BY <1>1 DEF Apart, Types
  <1>4. Opening' = Opening
    BY <1>1, <1>3, SameOpening
  <1>5. BookTypes' /\ OpeningCounted'
    BY <1>0, <1>1, <1>4 DEF Books, BookTypes, OpeningCounted
  <1>6. Owned'
    BY <1>1, <1>4 DEF Books, Owned
  <1>7. Abandoned'
    BY <1>1 DEF Books, Abandoned
  <1>8. InUse'
    BY <1>0, <1>1, <1>2, <1>3 DEF Books, InUse
  <1> QED
    BY <1>5, <1>6, <1>7, <1>8 DEF Books

LEMMA StartSpawnKeepsBooks ==
    ASSUME ReplPoolAssumption, Apart, Books, NEW c \in Callers, StartSpawn(c)
    PROVE  Books'
  <1> USE DEF closeVars, guardVars
  <1>1. PICK s \in Sessions :
          /\ Fresh(s) /\ proc' = [proc EXCEPT ![s] = "starting"]
          /\ held' = [held EXCEPT ![c] = s]
    BY DEF StartSpawn
  <1>2. /\ pc[c] = "acquire" /\ ~closed /\ pc' = [pc EXCEPT ![c] = "spawn"]
        /\ opening' = opening + 1
        /\ UNCHANGED <<live, registered, idle, closed, out, closing, stray, ownerless,
                       gpc, gtodo, gsess, cpc, doomed>>
    BY DEF StartSpawn, GoesTo
  <1>3. /\ held'[c] = s /\ pc'[c] = "spawn" /\ proc'[s] = "starting" /\ proc[s] = "none"
        /\ \A d \in Callers \ {c} : held'[d] = held[d] /\ pc'[d] = pc[d]
        /\ \A t \in Sessions \ {s} : proc'[t] = proc[t]
    BY <1>1, <1>2 DEF Apart, Types, Fresh
  <1>4. s \notin Opening
    BY <1>3, OpeningIsApart DEF Books, BeingOpened
  <1>5. Opening' = Opening \cup {s}
    BY <1>1, <1>2, <1>3 DEF Opening
  <1>6. OpeningCounted'
    BY <1>2, <1>4, <1>5, OpensOne DEF Books
  <1>7. BookTypes' /\ Abandoned'
    BY <1>2 DEF Books, BookTypes, Abandoned
  <1>8. Owned'
    BY <1>2, <1>3, <1>5 DEF Books, Owned
  <1>9. InUse'
    <2>1. Idle' = Idle
      BY <1>2, SameIdle
    <2> QED
      BY <1>2, <1>3, <2>1 DEF Books, InUse
  <1> QED
    BY <1>6, <1>7, <1>8, <1>9 DEF Books

LEMMA SpawnEndsKeepsBooks ==
    ASSUME ReplPoolAssumption, Apart, Books, NEW c \in Callers, Spawned(c) \/ SpawnFails(c)
    PROVE  Books'
  <1> USE DEF closeVars, guardVars, sessionVars
  <1> DEFINE s == held[c]
  <1>1. /\ pc[c] = "spawn" /\ opening' = opening - 1
        /\ UNCHANGED <<idle, closed, stray, ownerless, gpc, gtodo, gsess, cpc, doomed>>
    BY DEF Spawned, SpawnFails
  <1>2. \/ /\ ~closed /\ live' = live \cup {s} /\ registered' = registered \cup {s}
           /\ pc' = [Woken(pc) EXCEPT ![c] = "using"] /\ closing' = closing /\ held' = held
           /\ proc' = [proc EXCEPT ![s] = "running"] /\ out' = [out EXCEPT ![s] = TRUE]
        \/ /\ closed /\ closing' = closing \cup {s}
           /\ pc' = [Woken(pc) EXCEPT ![c] = "giveup"] /\ UNCHANGED <<live, registered, held>>
           /\ proc' = [proc EXCEPT ![s] = "running"] /\ out' = [out EXCEPT ![s] = TRUE]
        \/ /\ proc' = [proc EXCEPT ![s] = "none"]
           /\ pc' = [Woken(pc) EXCEPT ![c] = "free"] /\ held' = [held EXCEPT ![c] = NoSession]
           /\ UNCHANGED <<live, registered, closing, out>>
    BY DEF Spawned, SpawnFails, NotifiesAndGoesTo
  <1>3. BeingOpened(s) /\ s # gsess /\ s \in Sessions /\ s # NoSession /\ s \notin ownerless
    BY <1>1 DEF Apart, SpawnsApart, BeingOpened, Books, Abandoned, ReplPoolAssumption
  <1>4. /\ pc' \in [Callers -> States] /\ pc'[c] # "spawn"
        /\ \A d \in Callers \ {c} : /\ pc'[d] = "spawn" <=> pc[d] = "spawn"
                                    /\ pc'[d] = "using" <=> pc[d] = "using"
    BY <1>2, WokenKeeps DEF Apart, Types, States
  <1>5. \A d \in Callers \ {c} : held'[d] = held[d] /\ held[d] # s
    BY <1>2, <1>3 DEF Apart, Types, HeldApart
  <1>6. Opening' = Opening \ {s} /\ s \in Opening
    BY <1>1, <1>3, <1>4, <1>5 DEF Opening
  <1>7. OpeningCounted'
    BY <1>1, <1>6, EndsOne DEF Books
  <1>8. BookTypes'
    BY <1>1, <1>2, <1>3 DEF Books, BookTypes
  <1>9. \A t \in Sessions \ {s} : proc'[t] = proc[t] /\ out'[t] = out[t]
    BY <1>2, <1>3 DEF Apart, Types
  <1>10. Abandoned'
    <2>1. ASSUME NEW t \in ownerless
          PROVE  BeingOpened(t)' /\ \A d \in Callers : held'[d] # t
      <3>1. t # s /\ t \in Sessions /\ BeingOpened(t) /\ t # NoSession /\ closed
        BY <1>3, <2>1 DEF Books, BookTypes, Abandoned, ReplPoolAssumption
      <3>2. UNCHANGED <<live, registered>> /\ closing' \subseteq closing \cup {s}
        BY <1>2, <3>1
      <3>3. BeingOpened(t)'
        BY <1>1, <1>9, <3>1, <3>2 DEF BeingOpened
      <3>4. \A d \in Callers : held'[d] # t
        <4>1. held'[c] \in {s, NoSession}
          BY <1>2 DEF Apart, Types
        <4> QED
          BY <1>5, <2>1, <3>1, <4>1 DEF Books, Abandoned
      <3> QED
        BY <3>3, <3>4
    <2> QED
      BY <1>1, <2>1 DEF Books, Abandoned
  <1>11. Owned'
    <2>1. proc'[s] # "none" => s \in registered' \cup closing'
      BY <1>2, <1>3 DEF Apart, Types
    <2>2. registered \subseteq registered' /\ closing \subseteq closing'
      BY <1>2
    <2> QED
      BY <1>6, <1>9, <2>1, <2>2 DEF Books, Owned
  <1>12. InUse'
    <2>1. Idle' = Idle
      BY <1>1, SameIdle
    <2>2. s \notin live
      BY <1>3 DEF BeingOpened
    <2>3. ASSUME NEW d \in Callers \ {c}, pc'[d] = "using", ~closed
          PROVE  held'[d] \in live' /\ out'[held'[d]]
      <3>1. held'[d] = held[d] /\ held[d] \in live /\ out[held[d]] /\ held[d] # s
        BY <1>4, <1>5, <2>3 DEF Books, InUse
      <3>2. held[d] \in Sessions /\ live \subseteq live'
        BY <1>2, <3>1 DEF Apart, Types
      <3> QED
        BY <1>9, <3>1, <3>2
    <2>4. pc'[c] = "using" => held'[c] = s /\ s \in live' /\ out'[s]
      BY <1>2, <1>3, <1>4 DEF Apart, Types, States, Woken
    <2>5. ASSUME NEW t \in live', t \notin Idle, ~closed
          PROVE  \E d \in Callers : pc'[d] = "using" /\ held'[d] = t
      <3>1. CASE t \in live
        <4>1. PICK d \in Callers : pc[d] = "using" /\ held[d] = t
          BY <2>5, <3>1 DEF Books, InUse
        <4> QED
          BY <1>1, <1>4, <1>5, <4>1
      <3>2. CASE t \notin live
        <4>1. t = s /\ pc' = [Woken(pc) EXCEPT ![c] = "using"] /\ held' = held
          BY <1>2, <2>5, <3>2
        <4>2. pc'[c] = "using"
          BY <4>1 DEF Woken
        <4> QED
          BY <4>1, <4>2
      <3> QED
        BY <3>1, <3>2
    <2>6. \A d \in Callers : pc'[d] = "using" /\ ~closed => held'[d] \in live' /\ out'[held'[d]]
      BY <2>3, <2>4
    <2> QED
      BY <1>1, <2>1, <2>5, <2>6 DEF InUse
  <1> QED
    BY <1>7, <1>8, <1>10, <1>11, <1>12 DEF Books

LEMMA ReleaseKeepsBooks ==
    ASSUME ReplPoolAssumption, Apart, Books, NEW c \in Callers, NEW drop, pc[c] = "using",
           Release(c, drop), stray' \subseteq stray \cup {held[c]}, stray \subseteq stray',
           UNCHANGED <<opening, closed, proc, ownerless, guardVars, closeVars>>
    PROVE  Books'
  <1> USE DEF closeVars, guardVars
  <1> DEFINE s == held[c]
  <1>1. /\ s \in Sessions /\ s \notin Idle /\ s # NoSession /\ s \notin ownerless
        /\ \A d \in Callers \ {c} : held[d] # s
        /\ ~closed => s \in live
    BY DEF Apart, Types, HeldApart, IdleApart, Books, Abandoned, InUse, ReplPoolAssumption
  <1>2. /\ out' = [out EXCEPT ![s] = FALSE]
        /\ \/ /\ s \notin live
              /\ pc' = [pc EXCEPT ![c] = "free"]
              /\ held' = [held EXCEPT ![c] = NoSession]
              /\ UNCHANGED <<live, registered, idle, closing>>
           \/ /\ s \in live
              /\ live' = live \ {s} /\ registered' = registered \ {s}
              /\ closing' = closing \cup {s}
              /\ pc' = [Woken(pc) EXCEPT ![c] = "release"]
              /\ UNCHANGED <<idle, held>>
           \/ /\ s \in live
              /\ idle' = Append(idle, s)
              /\ pc' = [Woken(pc) EXCEPT ![c] = "free"]
              /\ held' = [held EXCEPT ![c] = NoSession]
              /\ UNCHANGED <<live, registered, closing>>
    BY DEF Release, GoesTo, NotifiesAndGoesTo, MustGo, Unregistered
  <1>3. /\ pc' \in [Callers -> States] /\ pc'[c] \in {"free", "release"}
        /\ \A d \in Callers \ {c} : /\ pc'[d] = "spawn" <=> pc[d] = "spawn"
                                    /\ pc'[d] = "using" <=> pc[d] = "using"
    BY <1>2, WokenKeeps DEF Apart, Types, States
  <1>4. /\ held'[c] \in {s, NoSession} /\ \A d \in Callers \ {c} : held'[d] = held[d]
        /\ \A t \in Sessions \ {s} : out'[t] = out[t]
    BY <1>1, <1>2 DEF Apart, Types
  <1>5. Opening' = Opening
    BY <1>3, <1>4, SameOpening
  <1>6. BookTypes' /\ OpeningCounted'
    BY <1>1, <1>2, <1>5 DEF Books, BookTypes, OpeningCounted
  <1>7. Owned'
    BY <1>2, <1>5 DEF Books, Owned
  <1>8. Abandoned'
    <2>1. ASSUME NEW t \in ownerless
          PROVE  BeingOpened(t)' /\ \A d \in Callers : held'[d] # t
      <3>1. /\ t # s /\ t \in Sessions /\ BeingOpened(t) /\ t # NoSession
            /\ \A d \in Callers : held[d] # t
        BY <1>1, <2>1 DEF Books, BookTypes, Abandoned, ReplPoolAssumption
      <3>2. live' \subseteq live /\ registered' \subseteq registered /\ closing' \subseteq closing \cup {s}
        BY <1>2
      <3> QED
        BY <1>4, <3>1, <3>2 DEF BeingOpened
    <2> QED
      BY <2>1 DEF Books, Abandoned
  <1>9. InUse'
    <2>1. CASE closed
      BY <2>1 DEF InUse
    <2>2. CASE ~closed
      <3>1. \/ Idle' = Idle /\ live' = live \ {s}
            \/ Idle' = Idle \cup {s} /\ live' = live
        <4>1. CASE idle' = idle /\ live' = live \ {s}
          BY <4>1, SameIdle
        <4>2. CASE idle' = Append(idle, s) /\ live' = live
          BY <1>1, <4>2, IdleWith DEF Apart
        <4> QED
          BY <1>1, <1>2, <2>2, <4>1, <4>2
      <3>2. ASSUME NEW d \in Callers, pc'[d] = "using"
            PROVE  held'[d] \in live' /\ out'[held'[d]]
        <4>1. d # c /\ held'[d] = held[d] /\ held[d] \in live /\ out[held[d]] /\ held[d] # s
          BY <1>1, <1>3, <1>4, <2>2, <3>2 DEF Books, InUse
        <4>2. held[d] \in Sessions /\ live \ {s} \subseteq live'
          BY <3>1, <4>1 DEF Apart, Types
        <4> QED
          BY <1>4, <4>1, <4>2
      <3>3. ASSUME NEW t \in live', t \notin Idle'
            PROVE  \E d \in Callers : pc'[d] = "using" /\ held'[d] = t
        <4>1. t \in live /\ t \notin Idle /\ t # s
          BY <3>1, <3>3
        <4>2. PICK d \in Callers : pc[d] = "using" /\ held[d] = t
          BY <2>2, <4>1 DEF Books, InUse
        <4> QED
          BY <1>3, <1>4, <4>1, <4>2
      <3> QED
        BY <3>2, <3>3 DEF InUse
    <2> QED
      BY <2>1, <2>2
  <1> QED
    BY <1>6, <1>7, <1>8, <1>9 DEF Books

LEMMA CloseEndsKeepsBooks ==
    ASSUME ReplPoolAssumption, Apart, Books, NEW s \in Sessions, CloseEnds(s)
    PROVE  Books'
  <1> USE DEF poolVars, closeVars
  <1>1. /\ s \in closing /\ closing' = closing \ {s} /\ proc' = [proc EXCEPT ![s] = "none"]
        /\ out' = [out EXCEPT ![s] = FALSE]
        /\ UNCHANGED <<live, registered, idle, opening, closed, stray, ownerless, gtodo, gsess,
                       cpc, doomed>>
        /\ gpc' = gpc \/ (gpc = "close" /\ gpc' = "rebuild")
    BY DEF CloseEnds
  <1>2. /\ s \notin live /\ s \notin Opening
        /\ \A c \in Callers : pc[c] = "spawn" => held[c] # s
    BY <1>1, OpeningIsApart DEF Books, Apart, LiveApart, SpawnsApart, BeingOpened
  <1>3. \A c \in Callers : /\ pc'[c] = "spawn" <=> pc[c] = "spawn"
                           /\ pc'[c] = "using" <=> pc[c] = "using"
    <2>1. pc' = [c \in Callers |->
                   CASE held[c] = s /\ pc[c] = "evict"                 -> "acquire"
                     [] held[c] = s /\ pc[c] \in {"release", "giveup"} -> "free"
                     [] OTHER                                          -> pc[c]]
      BY DEF CloseEnds
    <2> QED
      BY <2>1
  <1>4. \A c \in Callers : /\ held'[c] = held[c] \/ held'[c] = NoSession
                           /\ pc[c] \in {"using", "spawn"} => held'[c] = held[c]
    BY <1>2 DEF CloseEnds
  <1>5. /\ proc'[s] = "none"
        /\ \A t \in Sessions \ {s} : proc'[t] = proc[t] /\ out'[t] = out[t]
    BY <1>1 DEF Apart, Types
  <1>6. Opening' = Opening
    BY <1>1, <1>3, <1>4, SameOpening
  <1>7. BookTypes' /\ OpeningCounted'
    BY <1>1, <1>6 DEF Books, BookTypes, OpeningCounted, AtSession
  <1>8. Owned'
    BY <1>1, <1>5, <1>6 DEF Books, Owned
  <1>9. Abandoned'
    <2>1. ASSUME NEW t \in ownerless
          PROVE  BeingOpened(t)' /\ \A d \in Callers : held'[d] # t
      <3>1. t # s /\ t \in Sessions /\ t # NoSession /\ BeingOpened(t)
        BY <1>1, <2>1 DEF Books, BookTypes, Abandoned, BeingOpened, ReplPoolAssumption
      <3> QED
        BY <1>1, <1>4, <1>5, <2>1, <3>1 DEF Books, Abandoned, BeingOpened
    <2> QED
      BY <1>1, <2>1 DEF Books, Abandoned
  <1>10. InUse'
    <2>1. Idle' = Idle
      BY <1>1, SameIdle
    <2>2. ASSUME NEW d \in Callers, pc'[d] = "using", ~closed
          PROVE  held'[d] \in live /\ out'[held'[d]]
      <3>1. held'[d] = held[d] /\ held[d] \in live /\ out[held[d]]
        BY <1>3, <1>4, <2>2 DEF Books, InUse
      <3> QED
        BY <1>2, <1>5, <3>1 DEF Apart, Types
    <2> QED
      BY <1>1, <1>3, <1>4, <2>1, <2>2 DEF Books, InUse
  <1> QED
    BY <1>7, <1>8, <1>9, <1>10 DEF Books

LEMMA ProcessesKeepBooks ==
    ASSUME ReplPoolAssumption, Apart, Books, NEW s \in Sessions,
           ProcessDies(s) \/ StrayEnds(s) \/ OwnerlessStarts(s)
    PROVE  Books'
  <1> USE DEF poolVars, sessionVars, callerVars, guardVars, closeVars
  <1>1. /\ UNCHANGED <<live, registered, idle, opening, closed, out, closing, ownerless, pc,
                       held, gpc, gtodo, gsess, cpc, doomed>>
        /\ stray' \subseteq stray
        /\ \/ proc' = proc
           \/ proc[s] # "none" /\ proc' = [proc EXCEPT ![s] = "gone"]
           \/ proc[s] # "none" /\ proc' = [proc EXCEPT ![s] = "running"]
    BY DEF ProcessDies, StrayEnds, OwnerlessStarts
  <1>2. /\ Opening' = Opening /\ Idle' = Idle
        /\ \A t \in Sessions : proc'[t] = "none" <=> proc[t] = "none"
    BY <1>1, SameOpening, SameIdle DEF Apart, Types
  <1>3. BookTypes' /\ OpeningCounted' /\ Owned'
    BY <1>1, <1>2 DEF Books, BookTypes, OpeningCounted, Owned
  <1>4. Abandoned'
    BY <1>1, <1>2 DEF Books, BookTypes, Abandoned, BeingOpened
  <1>5. InUse'
    BY <1>1, <1>2 DEF Books, InUse
  <1> QED
    BY <1>3, <1>4, <1>5 DEF Books

LEMMA GuardLooksKeepBooks ==
    ASSUME ReplPoolAssumption, Apart, Books, GuardSweep \/ GuardNext
    PROVE  Books'
  <1> USE DEF poolVars, sessionVars, threadVars, callerVars, closeVars
  <1>1. /\ UNCHANGED <<live, registered, idle, opening, closed, out, proc, closing, stray,
                       ownerless, pc, held, cpc, doomed>>
        /\ gpc # "spawn" /\ gpc' \in {"sweep", "sleep", "read"}
        /\ gtodo' \subseteq registered \cup gtodo /\ gsess' \in gtodo \cup {gsess}
    BY DEF GuardSweep, GuardNext
  <1>2. Opening' = Opening /\ Idle' = Idle
    BY <1>1, SameOpening, SameIdle
  <1>3. BookTypes' /\ OpeningCounted' /\ Owned'
    BY <1>1, <1>2 DEF Books, BookTypes, OpeningCounted, Owned, AtSession
  <1>4. Abandoned' /\ InUse'
    BY <1>1, <1>2 DEF Books, Abandoned, BeingOpened, InUse
  <1> QED
    BY <1>3, <1>4 DEF Books

LEMMA GuardMeasuresKeepsBooks ==
    ASSUME ReplPoolAssumption, Apart, Books, GuardMeasures
    PROVE  Books'
  <1> USE DEF closeVars
  <1> DEFINE s == gsess
  <1>1. s \in Sessions /\ gpc = "read" /\ ~closed
    BY DEF GuardMeasures, GuardMayRun, Apart, GuardApart, ClosedPool, AtSession
  <1>2. UNCHANGED <<opening, closed, out, proc, stray, ownerless, held, gtodo, cpc, doomed>>
    BY DEF GuardMeasures
  <1>3. /\ \/ gpc' = "sweep" /\ gsess' = NoSession
           \/ gpc' = "close" /\ gsess' = s
        /\ \/ UNCHANGED <<live, registered, idle, closing, pc>>
           \/ /\ s \in live /\ ~out[s] /\ idle' = Without(idle, s)
              /\ live' = live \ {s} /\ registered' = registered \ {s}
              /\ closing' = closing \cup {s} /\ pc' = Woken(pc)
    BY DEF GuardMeasures, GuardGoesTo, Unregistered
  <1>4. \A c \in Callers : /\ pc'[c] = "spawn" <=> pc[c] = "spawn"
                           /\ pc'[c] = "using" <=> pc[c] = "using"
    BY <1>3, WokenKeeps DEF Apart, Types
  <1>5. Opening' = Opening
    BY <1>1, <1>2, <1>3, <1>4, SameOpening
  <1>6. BookTypes' /\ OpeningCounted' /\ Owned'
    BY <1>1, <1>2, <1>3, <1>5 DEF Books, BookTypes, OpeningCounted, Owned, AtSession
  <1>7. Abandoned'
    BY <1>1, <1>2 DEF Books, Abandoned
  <1>8. InUse'
    <2>1. CASE UNCHANGED <<live, idle>>
      BY <1>2, <1>4, <2>1, SameIdle DEF Books, InUse
    <2>2. CASE s \in live /\ ~out[s] /\ live' = live \ {s} /\ idle' = Without(idle, s)
      <3>1. Idle' = Idle \ {s}
        BY <2>2, IdleWithout DEF Apart
      <3> QED
        BY <1>1, <1>2, <1>4, <2>2, <3>1 DEF Books, InUse
    <2> QED
      BY <1>3, <2>1, <2>2
  <1> QED
    BY <1>6, <1>7, <1>8 DEF Books

LEMMA GuardRebuildKeepsBooks ==
    ASSUME ReplPoolAssumption, Apart, Books, GuardRebuild
    PROVE  Books'
  <1> USE DEF callerVars, closeVars
  <1>1. PICK s \in Sessions :
          /\ Fresh(s) /\ proc' = [proc EXCEPT ![s] = "starting"] /\ gsess' = s
    BY DEF GuardRebuild
  <1>2. /\ gpc = "rebuild" /\ gpc' = "spawn" /\ ~closed /\ opening' = opening + 1
        /\ UNCHANGED <<live, registered, idle, closed, out, closing, stray, ownerless, pc,
                       held, gtodo, cpc, doomed>>
    BY DEF GuardRebuild, GuardMayRun, Apart, ClosedPool, AtSession
  <1>3. /\ proc'[s] = "starting" /\ proc[s] = "none"
        /\ \A t \in Sessions \ {s} : proc'[t] = proc[t]
    BY <1>1 DEF Apart, Types, Fresh
  <1>4. s \notin Opening
    BY <1>3, OpeningIsApart DEF Books, BeingOpened
  <1>5. Opening' = Opening \cup {s}
    BY <1>1, <1>2 DEF Opening
  <1>6. OpeningCounted'
    BY <1>2, <1>4, <1>5, OpensOne DEF Books
  <1>7. BookTypes' /\ Abandoned'
    BY <1>1, <1>2 DEF Books, BookTypes, Abandoned, AtSession
  <1>8. Owned'
    BY <1>2, <1>3, <1>5 DEF Books, Owned
  <1>9. InUse'
    BY <1>2, SameIdle DEF Books, InUse
  <1> QED
    BY <1>6, <1>7, <1>8, <1>9 DEF Books

LEMMA GuardSpawnedKeepsBooks ==
    ASSUME ReplPoolAssumption, Apart, Books, GuardSpawned
    PROVE  Books'
  <1> USE DEF closeVars
  <1> DEFINE s == gsess
  <1>1. /\ gpc = "spawn" /\ s \in Sessions /\ ~closed /\ BeingOpened(s) /\ s \notin Idle
        /\ s \notin live /\ ownerless = {} /\ \A c \in Callers : held[c] # s
    BY DEF GuardSpawned, GuardMayRun, Apart, GuardApart, ClosedPool, AtSession, BeingOpened,
           IdleApart, Books, Abandoned
  <1>2. /\ gpc' = "sweep" /\ gsess' = NoSession /\ pc' = Woken(pc) /\ opening' = opening - 1
        /\ UNCHANGED <<closed, closing, stray, ownerless, held, gtodo, cpc, doomed>>
    BY DEF GuardSpawned, GuardGoesTo
  <1>3. \/ /\ proc' = [proc EXCEPT ![s] = "running"] /\ out' = [out EXCEPT ![s] = FALSE]
           /\ live' = live \cup {s} /\ registered' = registered \cup {s}
           /\ idle' = Append(idle, s)
        \/ /\ proc' = [proc EXCEPT ![s] = "none"]
           /\ UNCHANGED <<live, registered, idle, out>>
    BY DEF GuardSpawned
  <1>4. \A c \in Callers : /\ pc'[c] = "spawn" <=> pc[c] = "spawn"
                           /\ pc'[c] = "using" <=> pc[c] = "using"
    BY <1>2, WokenKeeps DEF Apart, Types
  <1>5. Opening' = Opening \ {s} /\ s \in Opening
    BY <1>1, <1>2, <1>4 DEF Opening
  <1>6. OpeningCounted'
    BY <1>2, <1>5, EndsOne DEF Books
  <1>7. BookTypes' /\ Abandoned'
    BY <1>1, <1>2, <1>3 DEF Books, BookTypes, Abandoned
  <1>8. Owned'
    <2>1. \A t \in Sessions \ {s} : proc'[t] = proc[t]
      BY <1>3 DEF Apart, Types
    <2>2. proc'[s] # "none" => s \in registered'
      BY <1>1, <1>3 DEF Apart, Types
    <2>3. registered \subseteq registered'
      BY <1>3
    <2> QED
      BY <1>2, <1>5, <2>1, <2>2, <2>3 DEF Books, Owned
  <1>9. InUse'
    <2>1. CASE UNCHANGED <<live, idle, out>>
      BY <1>2, <1>4, <2>1, SameIdle DEF Books, InUse
    <2>2. CASE live' = live \cup {s} /\ idle' = Append(idle, s) /\ out' = [out EXCEPT ![s] = FALSE]
      <3>1. Idle' = Idle \cup {s}
        BY <1>1, <2>2, IdleWith DEF Apart
      <3>2. \A t \in Sessions \ {s} : out'[t] = out[t]
        BY <2>2 DEF Apart, Types
      <3>3. \A d \in Callers : pc[d] = "using" => held[d] \in Sessions \ {s}
        BY <1>1 DEF Apart, HeldApart
      <3> QED
        BY <1>1, <1>2, <1>4, <2>2, <3>1, <3>2, <3>3 DEF Books, InUse
    <2> QED
      BY <1>3, <2>1, <2>2
  <1> QED
    BY <1>6, <1>7, <1>8, <1>9 DEF Books

LEMMA CloseKeepsBooks ==
    ASSUME ReplPoolAssumption, Apart, Books, Close \/ CloseSessions \/ CloseReturns
    PROVE  Books'
  <1> USE DEF poolVars, sessionVars, threadVars, callerVars, guardVars
  <1>1. CASE Close
    <2>1. \A c \in Callers : /\ pc'[c] = "spawn" <=> pc[c] = "spawn"
                             /\ pc'[c] = "using" <=> pc[c] = "using"
      BY <1>1, WokenKeeps DEF Close, Apart, Types
    <2>2. Opening' = Opening
      BY <1>1, <2>1, SameOpening DEF Close
    <2>3. ownerless = {}
      BY <1>1 DEF Close, Books, Abandoned
    <2> QED
      BY <1>1, <2>2, <2>3 DEF Close, Books, BookTypes, OpeningCounted, Abandoned, InUse, Owned
  <1>2. CASE CloseSessions
    <2>1. /\ gpc' = "off" /\ gsess' = NoSession /\ gtodo' = {} /\ cpc = "join" /\ cpc' = "closing"
          /\ ownerless' = IF gpc = "spawn" THEN ownerless \cup {gsess} ELSE ownerless
          /\ registered' = registered \ doomed /\ closing' = closing \cup doomed
          /\ UNCHANGED <<live, idle, opening, closed, out, proc, stray, pc, held, doomed>>
      BY <1>2 DEF CloseSessions
    <2>2. /\ closed /\ ownerless = {}
          /\ gpc = "spawn" => gsess \in Sessions /\ BeingOpened(gsess) /\ \A c \in Callers : held[c] # gsess
      BY <2>1 DEF Apart, ClosedPool, GuardApart, Books, Abandoned, BeingOpened
    <2>3. Opening' = Opening
      BY <2>1 DEF Opening
    <2>4. BookTypes' /\ OpeningCounted' /\ Owned' /\ InUse'
      BY <2>1, <2>2, <2>3 DEF Books, BookTypes, OpeningCounted, Owned, InUse
    <2>5. Abandoned'
      BY <2>1, <2>2 DEF Abandoned, BeingOpened
    <2> QED
      BY <2>4, <2>5 DEF Books
  <1>3. CASE CloseReturns
    <2>1. /\ cpc = "closing" /\ cpc' = "closed" /\ doomed' = {}
          /\ UNCHANGED <<live, registered, idle, opening, closed, out, proc, closing, stray,
                         ownerless, pc, held, gpc, gtodo, gsess>>
      BY <1>3 DEF CloseReturns
    <2>2. Opening' = Opening /\ closed
      BY <2>1 DEF Opening, Apart, ClosedPool
    <2> QED
      BY <2>1, <2>2 DEF Books, BookTypes, OpeningCounted, Abandoned, BeingOpened, InUse, Owned
  <1> QED
    BY <1>1, <1>2, <1>3

LEMMA NextKeepsBooks ==
    ASSUME ReplPoolAssumption, Cancels = FALSE, Apart, Books, [Next]_vars
    PROVE  Books'
  <1>1. ASSUME NEW c \in Callers,
               (\E k \in Keys : Call(c, k)) \/ Refused(c) \/ Wait(c) \/ ToolError(c)
        PROVE  Books'
    BY <1>1, CallingKeepsBooks
  <1>2. ASSUME NEW c \in Callers, Reuse(c) \/ ReapBroken(c) \/ EvictLRU(c)
        PROVE  Books'
    <2>1. CASE ReapBroken(c)
      <3>1. LastFor(want[c]) \in Idle
        BY <2>1, LastForIsIdle DEF ReapBroken, Apart, Types
      <3> QED
        BY <2>1, <3>1, EvictKeepsBooks DEF ReapBroken
    <2>2. CASE EvictLRU(c)
      <3>1. EvictionChoice(want[c]) \in Idle
        BY <2>2, EvictionIsIdle DEF EvictLRU, Apart, Types
      <3> QED
        BY <2>2, <3>1, EvictKeepsBooks DEF EvictLRU
    <2> QED
      BY <1>2, <2>1, <2>2, ReuseKeepsBooks
  <1>3. ASSUME NEW c \in Callers, StartSpawn(c) \/ Spawned(c) \/ SpawnFails(c)
        PROVE  Books'
    BY <1>3, StartSpawnKeepsBooks, SpawnEndsKeepsBooks
  <1>4. ASSUME NEW c \in Callers, Verdict(c) \/ TacticTimesOut(c)
        PROVE  Books'
    <2>1. /\ pc[c] = "using" /\ \E drop \in BOOLEAN : Release(c, drop)
          /\ stray' \subseteq stray \cup {held[c]} /\ stray \subseteq stray'
          /\ UNCHANGED <<opening, closed, proc, ownerless, guardVars, closeVars>>
      BY <1>4 DEF Verdict, TacticTimesOut
    <2> QED
      BY <2>1, ReleaseKeepsBooks
  <1>5. ASSUME NEW s \in Sessions, ThreadEnds(s) \/ ProcessDies(s)
        PROVE  Books'
    BY <1>5, CloseEndsKeepsBooks, ProcessesKeepBooks DEF ThreadEnds
  <1>6. CASE GuardStep
    BY <1>6, GuardLooksKeepBooks, GuardMeasuresKeepsBooks, GuardRebuildKeepsBooks,
       GuardSpawnedKeepsBooks DEF GuardStep
  <1>7. CASE Close \/ CloseGoesOn
    BY <1>7, CloseKeepsBooks DEF CloseGoesOn
  <1>8. CASE UNCHANGED vars
    <2>1. /\ UNCHANGED <<live, registered, idle, opening, closed, out, proc, closing, stray,
                         ownerless, pc, held, gpc, gtodo, gsess, cpc, doomed>>
      BY <1>8 DEF vars, poolVars, sessionVars, threadVars, callerVars, guardVars, closeVars
    <2>2. Opening' = Opening /\ Idle' = Idle
      BY <2>1, SameOpening, SameIdle
    <2> QED
      BY <2>1, <2>2 DEF Books, BookTypes, OpeningCounted, Abandoned, BeingOpened, InUse, Owned
  <1>9. \A c \in Callers : ~Cancel(c)
    BY DEF Cancel
  <1> QED
    BY <1>1, <1>2, <1>3, <1>4, <1>5, <1>6, <1>7, <1>8, <1>9 DEF Next, CallerGoesOn

\* A list without repetitions is as long as it has members.
LEMMA LengthOfDistinct ==
    ASSUME NEW S, NEW seq \in Seq(S), Distinct(seq)
    PROVE  Len(seq) = Cardinality(Members(seq))
  <1>1. PICK n \in Nat : n = Len(seq)
    OBVIOUS
  <1>2. seq \in Bijection(1..n, Members(seq))
    <2>1. seq \in [1..n -> Members(seq)]
      BY <1>1 DEF Members
    <2> QED
      BY <1>1, <2>1 DEF Distinct, Members, Bijection, Injection, Surjection, IsInjective
  <1>3. Cardinality(1..n) = n /\ IsFiniteSet(1..n)
    BY FS_Interval
  <1>4. Cardinality(Members(seq)) = Cardinality(1..n)
    BY <1>2, <1>3, FS_Bijection DEF ExistsBijection
  <1> QED
    BY <1>1, <1>3, <1>4

\* While the pool is open, the places are those of the callers that spawn and of the guard.
LEMMA PlacesOfSpawners ==
    ASSUME ReplPoolAssumption, Apart, Books, ~closed
    PROVE  opening = Cardinality({c \in Callers : pc[c] = "spawn"})
                     + (IF gpc = "spawn" THEN 1 ELSE 0)
  <1> DEFINE C == {c \in Callers : pc[c] = "spawn"}
             H == {s \in Sessions : \E c \in Callers : pc[c] = "spawn" /\ held[c] = s}
             f == [c \in C |-> held[c]]
  <1>1. /\ \A c \in C : held[c] \in Sessions /\ held[c] \in H /\ held[c] # gsess
        /\ \A c, d \in C : held[c] = held[d] => c = d
    BY DEF Apart, SpawnsApart, BeingOpened, HeldApart, ReplPoolAssumption
  <1>2. f \in Bijection(C, H)
    BY <1>1 DEF Bijection, Injection, Surjection, IsInjective
  <1>3. IsFiniteSet(C)
    <2>1. C \in SUBSET Callers /\ IsFiniteSet(Callers)
      BY DEF ReplPoolAssumption
    <2> QED
      BY <2>1, FS_Subset
  <1>4. IsFiniteSet(H) /\ Cardinality(H) = Cardinality(C) /\ Cardinality(C) \in Nat
    BY <1>2, <1>3, FS_Bijection, FS_CardinalityType DEF ExistsBijection
  <1>5. ownerless = {} /\ opening = Cardinality(Opening)
    BY DEF Books, Abandoned, OpeningCounted
  <1>6. CASE gpc = "spawn"
    <2>1. gsess \in Sessions /\ gsess \notin H
      BY <1>1, <1>6 DEF Apart, GuardApart, BeingOpened
    <2>2. Opening = H \cup {gsess}
      BY <1>5, <1>6, <2>1 DEF Opening
    <2>3. Cardinality(H \cup {gsess}) = Cardinality(H) + 1
      BY <1>4, <2>1, FS_AddElement
    <2> QED
      BY <1>4, <1>5, <1>6, <2>2, <2>3
  <1>7. CASE gpc # "spawn"
    <2>1. Opening = H
      BY <1>5, <1>7 DEF Opening
    <2> QED
      BY <1>4, <1>5, <1>7, <2>1
  <1> QED
    BY <1>6, <1>7

LEMMA BooksAreInOrder ==
    ASSUME ReplPoolAssumption, Apart, Room, Books
    PROVE  MonitorInvariant
  <1>1. TypeOK
    <2>1. opening \in 0..Cardinality(Sessions)
      <3>1. Cardinality(Sessions) \in Nat
        BY FS_CardinalityType DEF ReplPoolAssumption
      <3> QED
        BY <3>1, OpeningIsFinite DEF Books, OpeningCounted
    <2> QED
      BY <2>1 DEF TypeOK, Optional, Apart, Types, States, Books, BookTypes, AtSession
  <1>2. BooksBalance
    <2> SUFFICES ASSUME ~closed
                 PROVE  /\ live = Idle \cup {held[c] : c \in Users}
                        /\ Len(idle) = Cardinality(Idle)
                        /\ registered = live
                        /\ \A s \in live : out[s] <=> s \notin Idle
                        /\ opening = Cardinality({c \in Callers : pc[c] = "spawn"})
                                     + (IF gpc = "spawn" THEN 1 ELSE 0)
      BY DEF BooksBalance
    <2>1. live = Idle \cup {held[c] : c \in Users}
      BY DEF Apart, IdleApart, Books, InUse, Users
    <2>2. Len(idle) = Cardinality(Idle)
      <3>1. idle \in Seq(Sessions) /\ Distinct(idle) /\ Idle = Members(idle)
        BY DEF Apart, Types, Idle, Members
      <3> QED
        BY <3>1, LengthOfDistinct
    <2>3. registered = live
      BY DEF Apart, ClosedPool
    <2>4. \A s \in live : out[s] <=> s \notin Idle
      BY DEF Apart, IdleApart, Books, InUse
    <2> QED
      BY <2>1, <2>2, <2>3, <2>4, PlacesOfSpawners
  <1>3. NoPoisonIdle /\ WaitHasReason
    BY DEF Apart, IdleApart, NoPoisonIdle, Room
  <1> QED
    BY <1>1, <1>2, <1>3 DEF MonitorInvariant

\* As long as no caller is cancelled, whatever the guard and close() do: the pool's books have
\* their types; while it is open, the live sessions are the idle ones and the ones in use, and a
\* place is reserved for exactly the spawns in flight; no poisoned session is idle, and whoever
\* waits has a reason to.
THEOREM MonitorIsKept ==
    ASSUME Cancels = FALSE
    PROVE  Spec => []MonitorInvariant
  <1>1. Init => Apart /\ Room /\ Books
    BY ReplPoolAssumption, InitApart, InitRoom, InitBooks
  <1>2. Apart /\ Room /\ Books /\ [Next]_vars => (Apart /\ Room /\ Books)'
    BY ReplPoolAssumption, NextKeeps, NextKeepsRoom, NextKeepsBooks
  <1>3. Apart /\ Room /\ Books => MonitorInvariant
    BY ReplPoolAssumption, BooksAreInOrder
  <1> QED
    BY <1>1, <1>2, <1>3, PTL DEF Spec

\* Without the guard no REPL process leaks: each one is registered with the pool, or is being torn
\* down, or is opened by a spawn that its caller awaits.
THEOREM ProcessesAreOwned ==
    ASSUME Cancels = FALSE, Guarded = FALSE
    PROVE  Spec => []NoProcessLeaks
  <1> DEFINE Idles == gpc = "off" /\ ownerless = {}
  <1>1. Init => Apart /\ Room /\ Books /\ Idles
    BY ReplPoolAssumption, InitApart, InitRoom, InitBooks DEF Init
  <1>2. Apart /\ Room /\ Books /\ Idles /\ [Next]_vars => (Apart /\ Room /\ Books /\ Idles)'
    <2> SUFFICES ASSUME Apart, Room, Books, Idles, [Next]_vars
                 PROVE  (Apart /\ Room /\ Books /\ Idles)'
      OBVIOUS
    <2>1. (Apart /\ Room /\ Books)'
      BY ReplPoolAssumption, NextKeeps, NextKeepsRoom, NextKeepsBooks
    <2>2. gpc' = "off"
      BY <2>1 DEF Room
    <2>3. ownerless' = {}
      <3> USE DEF threadVars
      <3>1. ~GuardStep /\ \A c \in Callers : ~Cancel(c)
        BY DEF GuardStep, GuardSweep, GuardNext, GuardMeasures, GuardRebuild, GuardSpawned, Cancel
      <3>2. ASSUME NEW c \in Callers,
                   CallerGoesOn(c) \/ ToolError(c) \/ \E k \in Keys : Call(c, k)
            PROVE  ownerless' = ownerless
        BY <3>2 DEF CallerGoesOn, ToolError, Call, Refused, Reuse, ReapBroken, EvictLRU, Evict,
           StartSpawn, Wait, Spawned, SpawnFails, Verdict, TacticTimesOut
      <3>3. ASSUME NEW s \in Sessions, ThreadEnds(s) \/ ProcessDies(s)
            PROVE  ownerless' = ownerless
        BY <3>3 DEF ThreadEnds, CloseEnds, StrayEnds, OwnerlessStarts, ProcessDies
      <3>4. ASSUME Close \/ CloseGoesOn PROVE ownerless' = ownerless
        BY <3>4 DEF Close, CloseGoesOn, CloseSessions, CloseReturns
      <3> QED
        BY <3>1, <3>2, <3>3, <3>4 DEF Next, vars
    <2> QED
      BY <2>1, <2>2, <2>3
  <1>3. Books /\ Idles => NoProcessLeaks
    BY DEF Books, Owned, Opening, NoProcessLeaks
  <1> QED
    BY <1>1, <1>2, <1>3, PTL DEF Spec
=============================================================================
