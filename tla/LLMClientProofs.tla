--------------------------- MODULE LLMClientProofs ---------------------------
(***************************************************************************)
(* Theorems about LLMClient, for any providers, callers, requests, limits  *)
(* and number of calls: what the circuit breaker does under concurrent     *)
(* calls, retries and cancellations.                                       *)
(***************************************************************************)
EXTENDS LLMClient, FiniteSetTheorems, WellFoundedInduction, TLAPS

----------------------------------------------------------------------------
(* An open breaker was earned                                              *)

Tallies == [calls : Nat, errors : Nat, hits : Nat]

\* The types of what the breaker depends on, and its reason: a strike is an error that
\* was counted in the same turn, and only the breaker's own threshold opens it.
BreakerKept ==
    /\ breaker \in [Providers -> BOOLEAN]
    /\ strikes \in [Providers -> Nat]
    /\ tally \in [Providers -> Tallies]
    /\ \A p \in Providers : strikes[p] <= tally[p].errors
    /\ BreakerIsEarned

LEMMA InitBreakerKept == Init => BreakerKept
  BY DEF Init, BreakerKept, BreakerIsEarned, Tallies

\* The counters grow by what is counted.
LEMMA CountsGrow ==
    ASSUME tally \in [Providers -> Tallies],
           NEW p, NEW calls \in Nat, NEW errors \in Nat, NEW hits \in Nat,
           Counts(p, calls, errors, hits)
    PROVE  /\ tally' \in [Providers -> Tallies]
           /\ \A q \in Providers :
                /\ tally'[q].errors >= tally[q].errors
                /\ q = p => tally'[q].errors = tally[q].errors + errors
  <1>1. ASSUME NEW q \in Providers
        PROVE  /\ tally'[q] \in Tallies
               /\ tally'[q].errors >= tally[q].errors
               /\ q = p => tally'[q].errors = tally[q].errors + errors
    <2>1. tally[q] \in Tallies
      OBVIOUS
    <2>2. CASE q = p
      <3>1. tally'[q] = [calls  |-> tally[q].calls + calls,
                         errors |-> tally[q].errors + errors,
                         hits   |-> tally[q].hits + hits]
        BY <2>2 DEF Counts
      <3> QED
        BY <2>1, <3>1 DEF Tallies
    <2>3. CASE q # p
      <3>1. tally'[q] = tally[q]
        BY <2>3 DEF Counts
      <3> QED
        BY <2>1, <2>3, <3>1 DEF Tallies
    <2> QED
      BY <2>2, <2>3
  <1>2. tally' = [q \in Providers |-> tally'[q]]
    BY DEF Counts
  <1> QED
    BY <1>1, <1>2

\* Errors that are counted without a strike, and strikes that are taken back, keep it.
LEMMA CountingKeepsBreaker ==
    ASSUME BreakerKept, tally' \in [Providers -> Tallies],
           \A q \in Providers : tally'[q].errors >= tally[q].errors,
           strikes' \in [Providers -> Nat],
           \A q \in Providers : strikes'[q] <= strikes[q],
           breaker' \in [Providers -> BOOLEAN],
           \A q \in Providers : breaker'[q] => breaker[q]
    PROVE  BreakerKept'
  <1>1. \A q \in Providers : /\ tally[q].errors \in Nat /\ tally'[q].errors \in Nat
                             /\ strikes[q] \in Nat /\ strikes'[q] \in Nat
    BY DEF BreakerKept, Tallies
  <1>2. Threshold \in Nat
    BY LLMClientAssumption DEF LLMClientAssumption
  <1>3. \A q \in Providers : strikes'[q] <= tally'[q].errors
    BY <1>1 DEF BreakerKept
  <1>4. BreakerIsEarned'
    BY <1>1, <1>2 DEF BreakerKept, BreakerIsEarned
  <1> QED
    BY <1>3, <1>4 DEF BreakerKept

\* A client error is a strike and an error at once; it opens the breaker when the strikes
\* in a row, none of them more than the errors, have reached the threshold.
LEMMA ClientErrorKeepsBreaker ==
    ASSUME BreakerKept, NEW c \in Callers, ClientError(c)
    PROVE  BreakerKept'
  <1> DEFINE p == at[c]
  <1>1. strikes' = [strikes EXCEPT ![p] = @ + 1] /\ Counts(p, 1, 1, 0)
    BY DEF ClientError, CountsError
  <1>2. breaker' = [breaker EXCEPT ![p] = @ \/ StrikesOut(p)]
    BY DEF ClientError
  <1>3. /\ tally' \in [Providers -> Tallies]
        /\ \A q \in Providers :
             /\ tally'[q].errors >= tally[q].errors
             /\ q = p => tally'[q].errors = tally[q].errors + 1
    <2>1. 1 \in Nat /\ 0 \in Nat
      OBVIOUS
    <2> HIDE DEF p
    <2> QED
      BY <1>1, <2>1, CountsGrow DEF BreakerKept, Counts
  <1>4. \A q \in Providers : /\ tally[q].errors \in Nat /\ tally'[q].errors \in Nat
                             /\ strikes[q] \in Nat
    BY <1>3 DEF BreakerKept, Tallies
  <1>5. Threshold \in Nat
    BY LLMClientAssumption DEF LLMClientAssumption
  <1>6. strikes' \in [Providers -> Nat] /\ breaker' \in [Providers -> BOOLEAN]
    <2>1. strikes' \in [Providers -> Nat]
      <3>1. strikes \in [Providers -> Nat]
        BY DEF BreakerKept
      <3>2. strikes' = [strikes EXCEPT ![p] = @ + 1]
        BY <1>1
      <3>3. ASSUME NEW q \in Providers PROVE strikes'[q] \in Nat
        <4>1. CASE q = p
          BY <4>1, <3>1, <3>2
        <4>2. CASE q # p
          BY <4>2, <3>1, <3>2
        <4> QED
          BY <4>1, <4>2
      <3>4. strikes' = [q \in Providers |-> strikes'[q]]
        BY <3>1, <3>2
      <3> QED
        BY <3>3, <3>4
    <2>2. breaker' = [q \in Providers |-> IF q = p THEN breaker[p] \/ StrikesOut(p)
                                                  ELSE breaker[q]]
      BY <1>2, Zenon DEF BreakerKept
    <2>3. \A q \in Providers : breaker[q] \in BOOLEAN
      BY DEF BreakerKept
    <2>4. (breaker[p] \/ StrikesOut(p)) \in BOOLEAN
      BY Zenon
    <2> QED
      BY <2>1, <2>2, <2>3, <2>4, Zenon
  <1>7. \A q \in Providers : strikes'[q] <= tally'[q].errors
    BY <1>1, <1>3, <1>4 DEF BreakerKept
  <1>8. ASSUME NEW q \in Providers, breaker'[q]
        PROVE  tally'[q].errors >= Threshold
    <2>1. CASE q = p /\ StrikesOut(p)
      BY <2>1, <1>3, <1>4, <1>5 DEF BreakerKept, StrikesOut
    <2>2. CASE ~(q = p /\ StrikesOut(p))
      <3>1. breaker[q]
        BY <2>2, <1>2, <1>8, Zenon DEF BreakerKept
      <3> QED
        BY <3>1, <1>3, <1>4, <1>5 DEF BreakerKept, BreakerIsEarned
    <2> QED
      BY <2>1, <2>2
  <1> QED
    BY <1>3, <1>6, <1>7, <1>8 DEF BreakerKept, BreakerIsEarned

\* A step that only counts keeps it.
LEMMA CountsKeepsBreaker ==
    ASSUME BreakerKept, NEW p, NEW calls \in Nat, NEW errors \in Nat, NEW hits \in Nat,
           Counts(p, calls, errors, hits), breaker' = breaker, strikes' = strikes
    PROVE  BreakerKept'
  <1>1. /\ tally' \in [Providers -> Tallies]
        /\ \A q \in Providers : tally'[q].errors >= tally[q].errors
    BY CountsGrow DEF BreakerKept, Counts
  <1>2. /\ strikes' \in [Providers -> Nat]
        /\ \A q \in Providers : strikes'[q] <= strikes[q]
    BY DEF BreakerKept
  <1>3. /\ breaker' \in [Providers -> BOOLEAN]
        /\ \A q \in Providers : breaker'[q] => breaker[q]
    BY DEF BreakerKept
  <1> QED
    BY <1>1, <1>2, <1>3, CountingKeepsBreaker

\* So does one that takes the strikes of a provider back, and may close its breaker.
LEMMA ResetKeepsBreaker ==
    ASSUME BreakerKept, NEW p, strikes' = [strikes EXCEPT ![p] = 0],
           breaker' = breaker \/ breaker' = [breaker EXCEPT ![p] = FALSE],
           tally' \in [Providers -> Tallies],
           \A q \in Providers : tally'[q].errors >= tally[q].errors
    PROVE  BreakerKept'
  <1>1. /\ strikes' \in [Providers -> Nat]
        /\ \A q \in Providers : strikes'[q] <= strikes[q]
    <2>1. strikes \in [Providers -> Nat]
      BY DEF BreakerKept
    <2>2. ASSUME NEW q \in Providers PROVE strikes'[q] \in Nat /\ strikes'[q] <= strikes[q]
      <3>1. strikes'[q] = 0 \/ strikes'[q] = strikes[q]
        BY <2>1
      <3> QED
        BY <2>1, <3>1
    <2>3. strikes' = [q \in Providers |-> strikes'[q]]
      BY <2>1
    <2> QED
      BY <2>2, <2>3
  <1>2. /\ breaker' \in [Providers -> BOOLEAN]
        /\ \A q \in Providers : breaker'[q] => breaker[q]
    BY Zenon DEF BreakerKept
  <1> QED
    BY <1>1, <1>2, CountingKeepsBreaker

LEMMA StutterKeepsBreaker ==
    BreakerKept /\ UNCHANGED <<breaker, strikes, tally>> => BreakerKept'
  BY DEF BreakerKept, BreakerIsEarned

LEMMA NextKeepsBreaker == BreakerKept /\ [Next]_vars => BreakerKept'
  <1> SUFFICES ASSUME BreakerKept, [Next]_vars PROVE BreakerKept'
    OBVIOUS
  <1> 0 \in Nat /\ 1 \in Nat
    OBVIOUS
  <1>1. ASSUME NEW p \in Providers, ProbeSucceeds(p) PROVE BreakerKept'
    <2>1. /\ strikes' = [strikes EXCEPT ![p] = 0]
          /\ breaker' = [breaker EXCEPT ![p] = FALSE]
          /\ tally' = tally
      BY <1>1 DEF ProbeSucceeds
    <2>2. /\ tally' \in [Providers -> Tallies]
          /\ \A q \in Providers : tally'[q].errors >= tally[q].errors
      BY <2>1 DEF BreakerKept, Tallies
    <2> QED
      BY <2>1, <2>2, ResetKeepsBreaker
  <1>2. ASSUME NEW p \in Providers, NoChatRoute(p) \/ ProbeFails(p) PROVE BreakerKept'
    BY <1>2, StutterKeepsBreaker DEF NoChatRoute, ProbeFails, bookVars
  <1>3. CASE HealthChecked
    BY <1>3, StutterKeepsBreaker DEF HealthChecked, bookVars
  <1>4. ASSUME NEW c \in Callers, NEW r \in Requests, Generate(c, r) PROVE BreakerKept'
    <2>1. CASE UNCHANGED tally
      BY <1>4, <2>1, StutterKeepsBreaker DEF Generate
    <2>2. CASE CountsError(Resolve(r.role))
      BY <1>4, <2>2, CountsKeepsBreaker DEF Generate, CountsError, Counts
    <2> QED
      BY <1>4, <2>1, <2>2 DEF Generate
  <1>5. ASSUME NEW c \in Callers, Succeeds(c) PROVE BreakerKept'
    <2>1. /\ tally' \in [Providers -> Tallies]
          /\ \A q \in Providers : tally'[q].errors >= tally[q].errors
      BY <1>5, CountsGrow DEF BreakerKept, Succeeds, Counts
    <2> QED
      BY <1>5, <2>1, ResetKeepsBreaker DEF Succeeds
  <1>6. ASSUME NEW c \in Callers, ClientError(c) PROVE BreakerKept'
    BY <1>6, ClientErrorKeepsBreaker
  <1>7. ASSUME NEW c \in Callers, Fails(c) PROVE BreakerKept'
    BY <1>7, CountsKeepsBreaker DEF Fails, CountsError, Counts
  <1>8. ASSUME NEW c \in Callers, CacheHit(c) PROVE BreakerKept'
    BY <1>8, CountsKeepsBreaker DEF CacheHit, Counts
  <1>9. ASSUME NEW c \in Callers,
               \/ RetryableError(c) \/ BackedOff(c) \/ CacheMiss(c) \/ GetSlot(c)
               \/ Store(c) \/ Cancel(c)
        PROVE  BreakerKept'
    BY <1>9, StutterKeepsBreaker
       DEF RetryableError, BackedOff, CacheMiss, GetSlot, Store, Cancel, bookVars
  <1>10. CASE UNCHANGED vars
    BY <1>10, StutterKeepsBreaker DEF vars, bookVars
  <1> QED
    BY <1>1, <1>2, <1>3, <1>4, <1>5, <1>6, <1>7, <1>8, <1>9, <1>10
       DEF Next, Probing, Responds, GoesOn

\* A provider's breaker opens only after as many of its calls have failed as it takes
\* strikes, however concurrent answers, retries and cancellations mix.
THEOREM BreakerOpensWhenEarned == Spec => []BreakerIsEarned
  <1>1. BreakerKept => BreakerIsEarned
    BY DEF BreakerKept
  <1> QED
    BY <1>1, InitBreakerKept, NextKeepsBreaker, PTL DEF Spec

----------------------------------------------------------------------------
(* An open breaker admits nobody                                           *)

\* What the calls are is known for every caller, and for no provider that is none.
CallsKept ==
    /\ pc = [c \in Callers |-> pc[c]]
    /\ at = [c \in Callers |-> at[c]]

LEMMA InitCallsKept == Init => CallsKept
  BY DEF Init, CallsKept

LEMMA NextCallsKept == CallsKept /\ [Next]_vars => CallsKept'
  <1> SUFFICES ASSUME CallsKept, [Next]_vars PROVE CallsKept'
    OBVIOUS
  <1>1. CASE UNCHANGED <<pc, at>>
    BY <1>1 DEF CallsKept
  <1>2. ASSUME NEW c \in Callers, NEW s, NEW q,
               pc' = [pc EXCEPT ![c] = s], at' = at \/ at' = [at EXCEPT ![c] = q]
        PROVE  CallsKept'
    BY <1>2 DEF CallsKept
  <1>3. ASSUME NEW p \in Providers, Probing(p) PROVE CallsKept'
    BY <1>1, <1>3 DEF Probing, ProbeSucceeds, NoChatRoute, ProbeFails, callVars
  <1>4. CASE HealthChecked
    BY <1>1, <1>4 DEF HealthChecked, callVars
  <1>5. ASSUME NEW c \in Callers, NEW r \in Requests, Generate(c, r) PROVE CallsKept'
    BY <1>1, <1>2, <1>5 DEF Generate
  <1>6. ASSUME NEW c \in Callers, Responds(c) PROVE CallsKept'
    BY <1>2, <1>6 DEF Responds, Succeeds, ClientError, RetryableError, Fails, Ends
  <1>7. ASSUME NEW c \in Callers, GoesOn(c) PROVE CallsKept'
    BY <1>2, <1>7 DEF GoesOn, CacheHit, CacheMiss, GetSlot, Store, BackedOff, Ends
  <1>8. ASSUME NEW c \in Callers, Cancel(c) PROVE CallsKept'
    BY <1>2, <1>8 DEF Cancel, Ends
  <1>9. CASE UNCHANGED vars
    BY <1>1, <1>9 DEF vars, callVars
  <1> QED
    BY <1>3, <1>4, <1>5, <1>6, <1>7, <1>8, <1>9 DEF Next

\* No step of a call lets another one past an open breaker: it may move on, or end.
LEMMA StepAdmitsNone ==
    ASSUME CallsKept, [Next]_vars, NEW p \in Providers, breaker[p],
           NEW d \in Callers, at'[d] = p, pc'[d] \in {"lookup", "queued", "sending", "backoff"}
    PROVE  at[d] = p /\ pc[d] \in {"lookup", "queued", "sending", "backoff"}
  <1> DEFINE Past == {"lookup", "queued", "sending", "backoff"}
  <1>1. CASE UNCHANGED <<pc, at>>
    BY <1>1
  <1>2. ASSUME NEW c \in Callers, Ends(c) PROVE at[d] = p /\ pc[d] \in Past
    BY <1>2, LLMClientAssumption DEF Ends, CallsKept, LLMClientAssumption
  <1>3. ASSUME NEW c \in Callers, NEW s, pc' = [pc EXCEPT ![c] = s], at' = at, pc[c] \in Past
        PROVE  at[d] = p /\ pc[d] \in Past
    BY <1>3 DEF CallsKept
  <1>4. ASSUME NEW q \in Providers, Probing(q) PROVE at[d] = p /\ pc[d] \in Past
    BY <1>1, <1>4 DEF Probing, ProbeSucceeds, NoChatRoute, ProbeFails, callVars
  <1>5. CASE HealthChecked
    BY <1>1, <1>5 DEF HealthChecked, callVars
  <1>6. ASSUME NEW c \in Callers, NEW r \in Requests, Generate(c, r)
        PROVE  at[d] = p /\ pc[d] \in Past
    <2>1. CASE UNCHANGED <<pc, at>>
      BY <1>1, <2>1
    <2>2. CASE /\ ~breaker[Resolve(r.role)]
               /\ pc' = [pc EXCEPT ![c] = Admission(r)]
               /\ at' = [at EXCEPT ![c] = Resolve(r.role)]
      BY <2>2 DEF CallsKept
    <2> QED
      BY <1>6, <2>1, <2>2 DEF Generate, BreakerTest
  <1>7. ASSUME NEW c \in Callers, Responds(c) PROVE at[d] = p /\ pc[d] \in Past
    <2>1. CASE Succeeds(c)
      BY <1>2, <1>3, <2>1 DEF Succeeds
    <2>2. CASE RetryableError(c)
      BY <1>3, <2>2 DEF RetryableError
    <2>3. CASE ClientError(c) \/ Fails(c)
      BY <1>2, <2>3 DEF ClientError, Fails
    <2> QED
      BY <1>7, <2>1, <2>2, <2>3 DEF Responds
  <1>8. ASSUME NEW c \in Callers, GoesOn(c) PROVE at[d] = p /\ pc[d] \in Past
    <2>1. CASE CacheHit(c) \/ Store(c)
      BY <1>2, <2>1 DEF CacheHit, Store
    <2>2. CASE CacheMiss(c) \/ GetSlot(c) \/ BackedOff(c)
      BY <1>3, <2>2 DEF CacheMiss, GetSlot, BackedOff
    <2> QED
      BY <1>8, <2>1, <2>2 DEF GoesOn
  <1>9. ASSUME NEW c \in Callers, Cancel(c) PROVE at[d] = p /\ pc[d] \in Past
    BY <1>2, <1>9 DEF Cancel
  <1>10. CASE UNCHANGED vars
    BY <1>1, <1>10 DEF vars, callVars
  <1> QED
    BY <1>4, <1>5, <1>6, <1>7, <1>8, <1>9, <1>10 DEF Next

\* Once the breaker of a provider is open, only calls that were past its test reach that
\* provider: those that queued for the semaphore or were on the wire.
THEOREM OpenBreakerKeepsOut == Spec => OpenBreakerAdmitsNone
  <1>1. CallsKept /\ [Next]_vars
          => [\A p \in Providers : breaker[p] => Underway(p)' \subseteq Underway(p)]_vars
    BY StepAdmitsNone DEF Underway
  <1>2. Spec => []CallsKept
    BY InitCallsKept, NextCallsKept, PTL DEF Spec
  <1> QED
    BY <1>1, <1>2, PTL DEF Spec, OpenBreakerAdmitsNone

----------------------------------------------------------------------------
(* Calls are in order: with whom they are, and that each is counted once.  *)

States == {"idle", "lookup", "queued", "sending", "backoff", "store"}
Past   == {"lookup", "queued", "sending", "backoff"}

\* The health gate: a provider that passed has a model that answered, and once the program
\* runs nothing of this changes any more.
Gated ==
    /\ phase \in {"probing", "running", "refused"}
    /\ probe \in [Providers -> {"chat", "models", "ok", "bad"} \cup AliasStage]
    /\ model \in [Providers -> {"configured", "alias"}]
    /\ DOMAIN answered = Providers
    /\ \A p \in Providers : probe[p] = "ok" => model[p] \in answered[p]
    /\ clients \subseteq Providers
    /\ phase = "running" => clients = Survivors /\ Survivors # {}

\* The callers: a call goes on with a client of a program that runs.
Calling ==
    /\ CallsKept /\ attempt = [c \in Callers |-> attempt[c]]
    /\ \A c \in Callers :
        /\ pc[c] \in States
        /\ pc[c] = "idle" => at[c] = NoProvider
        /\ pc[c] # "idle" => phase = "running" /\ at[c] \in clients
        /\ attempt[c] \in 0..(Retries + 1)
        /\ pc[c] = "backoff" => attempt[c] <= Retries

\* The books of each provider, and what bounds its strikes.
Counted ==
    /\ taken \in [Providers -> Nat] /\ dropped \in [Providers -> Nat]
    /\ tally \in [Providers -> Tallies] /\ strikes \in [Providers -> Nat]
    /\ made \in 0..MaxCalls
    /\ EveryCallCountedOnce
    /\ \A p \in Providers : /\ taken[p] <= made /\ strikes[p] <= tally[p].errors
                            /\ tally[p].errors <= tally[p].calls

Orderly == Gated /\ Calling /\ Counted /\ BreakerKept

\* A set of numbers that is not empty has a least one.
LEMMA LeastIs ==
    ASSUME NEW S \in SUBSET Nat, S # {}
    PROVE  Min(S) \in S /\ \A y \in S : Min(S) <= y
  <1>1. PICK R : R = {p \in Nat \X Nat : p[1] < p[2]} /\ IsWellFoundedOn(R, Nat)
    BY NatLessThanWellFounded DEF OpToRel
  <1>2. PICK x \in S : \A y \in S : ~(<<y, x>> \in R)
    BY <1>1, WFMin
  <1>3. ASSUME NEW y \in S PROVE x <= y
    <2>1. x \in Nat /\ y \in Nat /\ ~(<<y, x>> \in R)
      BY <1>2
    <2>2. y < x => <<y, x>> \in R
      BY <1>1, <2>1
    <2> QED
      BY <2>1, <2>2
  <1> QED
    BY <1>3 DEF Min

\* _resolve: while there is a client, every role has one, its own if that is a client.
LEMMA ResolveIs ==
    ASSUME clients \subseteq Providers, NEW role
    PROVE  /\ clients # {} => Resolve(role) \in clients
           /\ Primary[role] \in clients => Resolve(role) = Primary[role]
           /\ Resolve(role) # NoProvider => Resolve(role) \in clients
  <1> DEFINE usable == {i \in DOMAIN Chain : Chain[i] \in clients}
  <1>1. CASE Primary[role] \in clients
    BY <1>1 DEF Resolve
  <1>2. CASE Primary[role] \notin clients
    <2>1. Resolve(role) = IF usable = {} THEN NoProvider ELSE Chain[Min(usable)]
      BY <1>2 DEF Resolve
    <2>2. clients # {} => usable # {}
      BY LLMClientAssumption DEF LLMClientAssumption, Range
    <2>3. usable # {} => Chain[Min(usable)] \in clients
      <3>1. usable \subseteq Nat
        BY LLMClientAssumption DEF LLMClientAssumption
      <3> HIDE DEF usable
      <3>2. usable # {} => Min(usable) \in usable
        BY <3>1, LeastIs
      <3> QED
        BY <3>2 DEF usable
    <2> QED
      BY <1>2, <2>1, <2>2, <2>3
  <1> QED
    BY <1>1, <1>2

LEMMA InitOrderly == Init => Orderly
  <1> SUFFICES ASSUME Init PROVE Orderly
    OBVIOUS
  <1>1. Gated
    BY DEF Init, Gated
  <1>2. Calling
    BY InitCallsKept, LLMClientAssumption DEF Init, Calling, States
  <1>3. Counted
    <2>1. \A p \in Providers : Underway(p) = {}
      BY DEF Init, Underway
    <2>2. \A p \in Providers : Cardinality(Underway(p)) = 0
      BY <2>1, FS_EmptySet
    <2>3. EveryCallCountedOnce
      BY <2>2 DEF Init, EveryCallCountedOnce
    <2> QED
      BY <2>3, LLMClientAssumption DEF Init, Counted, Tallies
  <1> QED
    BY <1>1, <1>2, <1>3, InitBreakerKept DEF Orderly

\* Finitely many calls are underway; what one caller does is one call more or less.
LEMMA UnderwayIs ==
    ASSUME NEW p
    PROVE  IsFiniteSet(Underway(p)) /\ Cardinality(Underway(p)) \in Nat
  <1>1. Underway(p) \subseteq Callers /\ IsFiniteSet(Callers)
    BY LLMClientAssumption DEF Underway
  <1> QED
    BY <1>1, FS_Subset, FS_CardinalityType

LEMMA EndsUnderway ==
    ASSUME CallsKept, NEW c \in Callers, NEW p \in Providers,
           Ends(c) \/ (pc' = [pc EXCEPT ![c] = "store"] /\ at' = at)
    PROVE  /\ Underway(p)' = Underway(p) \ {c}
           /\ pc[c] \in Past /\ at[c] = p =>
                 Cardinality(Underway(p)') = Cardinality(Underway(p)) - 1
           /\ ~(pc[c] \in Past /\ at[c] = p) =>
                 Cardinality(Underway(p)') = Cardinality(Underway(p))
  <1>1. Underway(p)' = Underway(p) \ {c}
    <2>1. NoProvider # p
      BY LLMClientAssumption DEF LLMClientAssumption
    <2> QED
      BY <2>1 DEF Ends, CallsKept, Underway
  <1>2. c \in Underway(p) <=> pc[c] \in Past /\ at[c] = p
    BY DEF Underway, Past
  <1>3. PICK U : U = Underway(p)
    OBVIOUS
  <1>4. c \in U => Cardinality(U \ {c}) = Cardinality(U) - 1
    BY <1>3, UnderwayIs, FS_RemoveElement
  <1>5. c \notin U => U \ {c} = U
    OBVIOUS
  <1> QED
    BY <1>1, <1>2, <1>3, <1>4, <1>5

LEMMA MovesUnderway ==
    ASSUME CallsKept, NEW c \in Callers, NEW p \in Providers, pc[c] \in Past, NEW s \in Past,
           pc' = [pc EXCEPT ![c] = s], at' = at
    PROVE  Underway(p)' = Underway(p)
  BY DEF CallsKept, Underway, Past

LEMMA JoinsUnderway ==
    ASSUME CallsKept, NEW c \in Callers, NEW p \in Providers, NEW q \in Providers, NEW s \in Past,
           pc[c] = "idle", pc' = [pc EXCEPT ![c] = s], at' = [at EXCEPT ![c] = q]
    PROVE  /\ p = q => Cardinality(Underway(p)') = Cardinality(Underway(p)) + 1
           /\ p # q => Cardinality(Underway(p)') = Cardinality(Underway(p))
  <1>1. c \notin Underway(p)
    BY DEF Underway
  <1>2. p = q => Underway(p)' = Underway(p) \cup {c}
    BY DEF CallsKept, Underway, Past
  <1>3. p # q => Underway(p)' = Underway(p)
    BY DEF CallsKept, Underway, Past
  <1>4. PICK U : U = Underway(p)
    OBVIOUS
  <1>5. Cardinality(U \cup {c}) = Cardinality(U) + 1
    BY <1>1, <1>4, UnderwayIs, FS_AddElement
  <1> QED
    BY <1>2, <1>3, <1>4, <1>5

\* What the breaker's own proof says of the types is kept with the books.
LEMMA NumbersAre ==
    ASSUME Counted, NEW p \in Providers
    PROVE  /\ taken[p] \in Nat /\ dropped[p] \in Nat /\ strikes[p] \in Nat
           /\ tally[p].calls \in Nat /\ tally[p].errors \in Nat
           /\ Cardinality(Underway(p)) \in Nat /\ made \in Nat
           /\ tally[p].calls = taken[p] - dropped[p] - Cardinality(Underway(p))
           /\ strikes[p] <= tally[p].errors /\ tally[p].errors <= tally[p].calls
           /\ taken[p] <= made /\ made <= MaxCalls
  BY UnderwayIs, LLMClientAssumption DEF Counted, Tallies, EveryCallCountedOnce, LLMClientAssumption

LEMMA GateSteps ==
    ASSUME Orderly, HealthChecked \/ \E p \in Providers : Probing(p)
    PROVE  Gated' /\ Calling'
  <1>1. phase = "probing"
    BY DEF HealthChecked, Probing, ProbeSucceeds, NoChatRoute, ProbeFails
  <1>2. UNCHANGED <<pc, at, attempt>>
    BY DEF HealthChecked, Probing, ProbeSucceeds, NoChatRoute, ProbeFails, callVars
  <1>3. \A c \in Callers : pc[c] = "idle"
    BY <1>1 DEF Orderly, Calling
  <1>4. Calling'
    BY <1>2, <1>3 DEF Orderly, Calling, CallsKept, States
  <1>5. CASE HealthChecked
    <2>1. UNCHANGED <<probe, model, answered>> /\ clients' = Survivors /\ phase' = Gate
      BY <1>5 DEF HealthChecked
    <2>2. Survivors' = Survivors
      BY <2>1 DEF Survivors
    <2>3. Survivors \subseteq Providers
      BY DEF Survivors
    <2> QED
      BY <1>4, <2>1, <2>2, <2>3 DEF Orderly, Gated, Gate
  <1>6. ASSUME NEW p \in Providers, ProbeSucceeds(p) PROVE Gated'
    <2>1. probe' \in [Providers -> {"chat", "models", "ok", "bad"} \cup AliasStage]
      BY <1>6 DEF Orderly, Gated, ProbeSucceeds
    <2>2. model' \in [Providers -> {"configured", "alias"}]
      BY <1>6 DEF Orderly, Gated, ProbeSucceeds, Adopted, ProbedModel
    <2>3. \A q \in Providers : probe'[q] = "ok" => model'[q] \in answered'[q]
      BY <1>6 DEF Orderly, Gated, ProbeSucceeds, Adopted
    <2> QED
      BY <1>1, <1>6, <2>1, <2>2, <2>3 DEF Orderly, Gated, ProbeSucceeds
  <1>7. ASSUME NEW p \in Providers, NoChatRoute(p) \/ ProbeFails(p) PROVE Gated'
    BY <1>1, <1>7 DEF Orderly, Gated, NoChatRoute, ProbeFails, AliasStage
  <1> QED
    BY <1>4, <1>5, <1>6, <1>7 DEF Probing

\* A step of a call leaves the gate as it is.
LEMMA GateStays ==
    Gated /\ UNCHANGED healthVars => Gated'
  BY DEF Gated, healthVars, Survivors

\* A call moves on: its slot and attempts are those of a call, with the same provider.
LEMMA MovesCalling ==
    ASSUME Orderly, UNCHANGED healthVars, NEW c \in Callers, pc[c] # "idle", NEW s \in States \ {"idle"},
           pc' = [pc EXCEPT ![c] = s], at' = at,
           \/ attempt' = attempt /\ (s = "backoff" => attempt[c] <= Retries)
           \/ \E n \in 0..(Retries + 1) :
                 attempt' = [attempt EXCEPT ![c] = n] /\ s # "backoff"
    PROVE  Calling'
  <1>1. \A d \in Callers : d # c => pc'[d] = pc[d] /\ attempt'[d] = attempt[d]
    BY DEF Orderly, Calling, CallsKept
  <1>2. pc'[c] = s /\ attempt'[c] \in 0..(Retries + 1) /\ (s = "backoff" => attempt'[c] <= Retries)
    BY DEF Orderly, Calling, CallsKept
  <1>3. CallsKept' /\ attempt' = [d \in Callers |-> attempt'[d]]
    BY DEF Orderly, Calling, CallsKept
  <1> QED
    BY <1>1, <1>2, <1>3 DEF Orderly, Calling, healthVars

LEMMA EndsCalling ==
    ASSUME Orderly, UNCHANGED healthVars, NEW c \in Callers, Ends(c)
    PROVE  Calling'
  <1>1. \A d \in Callers : d # c => pc'[d] = pc[d] /\ attempt'[d] = attempt[d] /\ at'[d] = at[d]
    BY DEF Orderly, Calling, CallsKept, Ends
  <1>2. pc'[c] = "idle" /\ at'[c] = NoProvider /\ attempt'[c] = 0
    BY DEF Orderly, Calling, CallsKept, Ends
  <1>3. CallsKept' /\ attempt' = [d \in Callers |-> attempt'[d]]
    BY DEF Orderly, Calling, CallsKept, Ends
  <1>4. 0 \in 0..(Retries + 1)
    BY LLMClientAssumption DEF LLMClientAssumption
  <1> QED
    BY <1>1, <1>2, <1>3, <1>4 DEF Orderly, Calling, healthVars, States

\* What Counts writes in the books of a provider.
LEMMA CountsIs ==
    ASSUME tally \in [Providers -> Tallies], NEW p \in Providers,
           NEW calls \in Nat, NEW errors \in Nat, NEW hits \in Nat,
           Counts(p, calls, errors, hits)
    PROVE  /\ tally' \in [Providers -> Tallies]
           /\ tally'[p].calls = tally[p].calls + calls
           /\ tally'[p].errors = tally[p].errors + errors
           /\ \A q \in Providers : q # p => tally'[q] = tally[q]
  <1>1. tally' \in [Providers -> Tallies]
    BY CountsGrow
  <1> QED
    BY <1>1 DEF Counts

\* A step after which the books of every provider still add up keeps them.
LEMMA CountedFrom ==
    ASSUME Counted,
           taken' \in [Providers -> Nat], dropped' \in [Providers -> Nat],
           tally' \in [Providers -> Tallies], strikes' \in [Providers -> Nat],
           made' \in 0..MaxCalls,
           \A p \in Providers :
              /\ tally'[p].calls = taken'[p] - dropped'[p] - Cardinality(Underway(p)')
              /\ taken'[p] <= made' /\ strikes'[p] <= tally'[p].errors
              /\ tally'[p].errors <= tally'[p].calls
    PROVE  Counted'
  BY DEF Counted, EveryCallCountedOnce

LEMMA StillCounted ==
    ASSUME Counted, UNCHANGED <<taken, dropped, tally, strikes, made>>,
           \A p \in Providers : Cardinality(Underway(p)') = Cardinality(Underway(p))
    PROVE  Counted'
  BY DEF Counted, EveryCallCountedOnce

\* A call that was underway ends, and is counted in the same turn.
LEMMA EndCounted ==
    ASSUME Orderly, NEW c \in Callers, pc[c] \in Past,
           Ends(c) \/ (pc' = [pc EXCEPT ![c] = "store"] /\ at' = at),
           NEW errors \in {0, 1}, NEW hits \in Nat, Counts(at[c], 1, errors, hits),
           UNCHANGED <<taken, dropped, made>>, strikes' \in [Providers -> Nat],
           \A q \in Providers : strikes'[q] <= strikes[q] + (IF q = at[c] THEN errors ELSE 0)
    PROVE  Counted'
  <1> DEFINE p == at[c]
  <1>1. p \in Providers /\ Counted /\ CallsKept
    BY DEF Orderly, Calling, Past, Gated
  <1>2. 1 \in Nat /\ errors \in Nat /\ tally \in [Providers -> Tallies]
    BY <1>1 DEF Counted
  <1>3. Counts(p, 1, errors, hits)
    OBVIOUS
  <1> HIDE DEF p
  <1>4. /\ tally' \in [Providers -> Tallies]
        /\ tally'[p].calls = tally[p].calls + 1
        /\ tally'[p].errors = tally[p].errors + errors
        /\ \A q \in Providers : q # p => tally'[q] = tally[q]
    BY <1>1, <1>2, <1>3, CountsIs
  <1>5. ASSUME NEW q \in Providers
        PROVE  /\ tally'[q].calls = taken'[q] - dropped'[q] - Cardinality(Underway(q)')
               /\ taken'[q] <= made' /\ strikes'[q] <= tally'[q].errors
               /\ tally'[q].errors <= tally'[q].calls
    <2>1. strikes'[q] \in Nat
      OBVIOUS
    <2>2. CASE q = p
      <3>1. Cardinality(Underway(q)') = Cardinality(Underway(q)) - 1
        BY <1>1, <2>2, EndsUnderway DEF p
      <3>2. strikes'[q] <= strikes[q] + errors
        BY <2>2 DEF p
      <3> QED
        BY <1>1, <1>2, <1>4, <2>1, <2>2, <3>1, <3>2, NumbersAre
    <2>3. CASE q # p
      <3>1. Cardinality(Underway(q)') = Cardinality(Underway(q))
        BY <1>1, <2>3, EndsUnderway DEF p
      <3>2. strikes'[q] <= strikes[q] + 0
        BY <2>3 DEF p
      <3> QED
        BY <1>1, <1>4, <2>1, <2>3, <3>1, <3>2, NumbersAre
    <2> QED
      BY <2>2, <2>3
  <1> QED
    BY <1>1, <1>4, <1>5, CountedFrom DEF Counted

LEMMA GenerateKeeps ==
    ASSUME Orderly, NEW c \in Callers, NEW r \in Requests, Generate(c, r)
    PROVE  Calling' /\ Counted'
  <1> DEFINE p == Resolve(r.role)
  <1>1. /\ phase = "running" /\ pc[c] = "idle" /\ p # NoProvider /\ made < MaxCalls
        /\ made' = made + 1 /\ taken' = [taken EXCEPT ![p] = @ + 1]
        /\ UNCHANGED <<healthVars, strikes, attempt, dropped>>
    BY Zenon DEF Generate
  <1>2. Gated /\ Calling /\ CallsKept /\ Counted /\ clients \subseteq Providers
    BY DEF Orderly, Calling, Gated
  <1>3. p \in clients /\ p \in Providers
    BY <1>1, <1>2, ResolveIs
  <1>4. \/ Counts(p, 1, 1, 0) /\ UNCHANGED <<pc, at>>
        \/ /\ pc' = [pc EXCEPT ![c] = Admission(r)] /\ at' = [at EXCEPT ![c] = p]
           /\ UNCHANGED tally
    BY Zenon DEF Generate, CountsError
  <1> HIDE DEF p
  <1>5. /\ taken' \in [Providers -> Nat] /\ taken'[p] = taken[p] + 1
        /\ \A q \in Providers : q # p => taken'[q] = taken[q]
    BY <1>1, <1>2, <1>3 DEF Counted
  <1>6. made' \in 0..MaxCalls /\ made' = made + 1 /\ made \in Nat
    BY <1>1, <1>2, LLMClientAssumption DEF Counted, LLMClientAssumption
  <1>7. CASE Counts(p, 1, 1, 0) /\ UNCHANGED <<pc, at>>
    <2>1. Calling'
      BY <1>1, <1>2, <1>7 DEF Calling, CallsKept, healthVars
    <2>2. 0 \in Nat /\ 1 \in Nat /\ tally \in [Providers -> Tallies]
      BY <1>2 DEF Counted
    <2>3. /\ tally' \in [Providers -> Tallies]
          /\ tally'[p].calls = tally[p].calls + 1
          /\ tally'[p].errors = tally[p].errors + 1
          /\ \A q \in Providers : q # p => tally'[q] = tally[q]
      BY <1>3, <1>7, <2>2, CountsIs
    <2>4. \A q \in Providers : Underway(q)' = Underway(q)
      BY <1>7 DEF Underway
    <2>5. ASSUME NEW q \in Providers
          PROVE  /\ tally'[q].calls = taken'[q] - dropped'[q] - Cardinality(Underway(q)')
                 /\ taken'[q] <= made' /\ strikes'[q] <= tally'[q].errors
                 /\ tally'[q].errors <= tally'[q].calls
      <3>1. Cardinality(Underway(q)') = Cardinality(Underway(q))
        BY <2>4
      <3>2. strikes'[q] = strikes[q] /\ dropped'[q] = dropped[q]
        BY <1>1
      <3>3. CASE q = p
        BY <1>2, <1>5, <1>6, <2>3, <3>1, <3>2, <3>3, NumbersAre
      <3>4. CASE q # p
        BY <1>2, <1>5, <1>6, <2>3, <3>1, <3>2, <3>4, NumbersAre
      <3> QED
        BY <3>3, <3>4
    <2> QED
      BY <1>1, <1>2, <1>5, <1>6, <2>1, <2>3, <2>5, CountedFrom DEF Counted
  <1>8. CASE /\ pc' = [pc EXCEPT ![c] = Admission(r)] /\ at' = [at EXCEPT ![c] = p]
             /\ UNCHANGED tally
    <2>1. Admission(r) \in Past /\ Admission(r) \notin {"backoff", "idle"} /\ Admission(r) \in States
      BY DEF Admission, Past, States
    <2>2. Calling'
      <3>1. \A d \in Callers : d # c => pc'[d] = pc[d] /\ at'[d] = at[d]
        BY <1>2, <1>8 DEF CallsKept
      <3>2. pc'[c] = Admission(r) /\ at'[c] = p
        BY <1>2, <1>8 DEF CallsKept
      <3>3. CallsKept'
        BY <1>2, <1>8 DEF CallsKept
      <3> QED
        BY <1>1, <1>2, <1>3, <2>1, <3>1, <3>2, <3>3 DEF Calling, healthVars
    <2>3. \A q \in Providers :
            /\ q = p => Cardinality(Underway(q)') = Cardinality(Underway(q)) + 1
            /\ q # p => Cardinality(Underway(q)') = Cardinality(Underway(q))
      BY <1>1, <1>2, <1>3, <1>8, <2>1, JoinsUnderway
    <2>4. ASSUME NEW q \in Providers
          PROVE  /\ tally'[q].calls = taken'[q] - dropped'[q] - Cardinality(Underway(q)')
                 /\ taken'[q] <= made' /\ strikes'[q] <= tally'[q].errors
                 /\ tally'[q].errors <= tally'[q].calls
      <3>1. strikes'[q] = strikes[q] /\ dropped'[q] = dropped[q] /\ tally'[q] = tally[q]
        BY <1>1, <1>8
      <3>2. CASE q = p
        <4>1. Cardinality(Underway(q)') = Cardinality(Underway(q)) + 1 /\ taken'[q] = taken[q] + 1
          BY <1>5, <2>3, <3>2
        <4> QED
          BY <1>2, <1>6, <3>1, <4>1, NumbersAre
      <3>3. CASE q # p
        BY <1>2, <1>5, <1>6, <2>3, <3>1, <3>3, NumbersAre
      <3> QED
        BY <3>2, <3>3
    <2> QED
      BY <1>1, <1>2, <1>5, <1>6, <1>8, <2>2, <2>4, CountedFrom DEF Counted
  <1> QED
    BY <1>4, <1>7, <1>8

LEMMA SucceedsKeeps ==
    ASSUME Orderly, NEW c \in Callers, Succeeds(c)
    PROVE  Calling' /\ Counted'
  <1>1. /\ pc[c] = "sending" /\ strikes' = [strikes EXCEPT ![at[c]] = 0]
        /\ Counts(at[c], 1, 0, 0) /\ UNCHANGED <<healthVars, made, taken, dropped>>
    BY Zenon DEF Succeeds
  <1>2. \/ Ends(c)
        \/ pc' = [pc EXCEPT ![c] = "store"] /\ at' = at /\ attempt' = attempt
    BY Zenon DEF Succeeds
  <1>3. Calling'
    <2>1. CASE Ends(c)
      BY <1>1, <2>1, EndsCalling
    <2>2. CASE pc' = [pc EXCEPT ![c] = "store"] /\ at' = at /\ attempt' = attempt
      <3>1. "store" \in States \ {"idle"} /\ pc[c] # "idle"
        BY <1>1 DEF States
      <3> QED
        BY <1>1, <2>2, <3>1, MovesCalling
    <2> QED
      BY <1>2, <2>1, <2>2
  <1>4. strikes \in [Providers -> Nat]
    BY DEF Orderly, Counted
  <1>5. strikes' \in [Providers -> Nat]
    BY <1>1, <1>4
  <1>6. \A q \in Providers : strikes'[q] <= strikes[q] + (IF q = at[c] THEN 0 ELSE 0)
    BY <1>1, <1>4
  <1>7. pc[c] \in Past /\ 0 \in Nat /\ 0 \in {0, 1}
    BY <1>1 DEF Past
  <1> QED
    BY <1>1, <1>2, <1>3, <1>5, <1>6, <1>7, EndCounted

LEMMA ClientErrorKeeps ==
    ASSUME Orderly, NEW c \in Callers, ClientError(c)
    PROVE  Calling' /\ Counted'
  <1>1. /\ pc[c] = "sending" /\ strikes' = [strikes EXCEPT ![at[c]] = @ + 1]
        /\ Counts(at[c], 1, 1, 0) /\ Ends(c) /\ UNCHANGED <<healthVars, made, taken, dropped>>
    BY Zenon DEF ClientError, CountsError
  <1>2. Calling'
    BY <1>1, EndsCalling
  <1>3. strikes \in [Providers -> Nat]
    BY DEF Orderly, Counted
  <1>4. strikes' \in [Providers -> Nat]
    <2>1. \A q \in Providers : strikes'[q] \in {strikes[q], strikes[q] + 1}
      BY <1>1, <1>3
    <2>2. \A q \in Providers : strikes'[q] \in Nat
      BY <1>3, <2>1
    <2>3. strikes' = [q \in Providers |-> strikes'[q]]
      BY <1>1, <1>3
    <2> QED
      BY <2>2, <2>3
  <1>5. \A q \in Providers : strikes'[q] <= strikes[q] + (IF q = at[c] THEN 1 ELSE 0)
    BY <1>1, <1>3
  <1>6. pc[c] \in Past /\ 0 \in Nat /\ 1 \in {0, 1}
    BY <1>1 DEF Past
  <1> QED
    BY <1>1, <1>2, <1>4, <1>5, <1>6, EndCounted

\* Fails and CacheHit: the call ends and is counted, the strikes stay.
LEMMA EndsKeeps ==
    ASSUME Orderly, NEW c \in Callers, Fails(c) \/ CacheHit(c)
    PROVE  Calling' /\ Counted'
  <1>1. PICK errors \in {0, 1}, hits \in {0, 1} :
          /\ Counts(at[c], 1, errors, hits) /\ pc[c] \in Past /\ Ends(c)
          /\ UNCHANGED <<healthVars, strikes, made, taken, dropped>>
    BY DEF Fails, CacheHit, CountsError, Past
  <1>2. Calling'
    BY <1>1, EndsCalling
  <1>3. strikes \in [Providers -> Nat]
    BY DEF Orderly, Counted
  <1>4. \A q \in Providers : strikes'[q] <= strikes[q] + (IF q = at[c] THEN errors ELSE 0)
    BY <1>1, <1>3
  <1>5. hits \in Nat
    OBVIOUS
  <1> QED
    BY <1>1, <1>2, <1>3, <1>4, <1>5, EndCounted

\* The steps within a call: it stays underway with its provider.
LEMMA MovesKeep ==
    ASSUME Orderly, NEW c \in Callers,
           CacheMiss(c) \/ GetSlot(c) \/ RetryableError(c) \/ BackedOff(c)
    PROVE  Calling' /\ Counted'
  <1>1. /\ UNCHANGED <<healthVars, bookVars, at, made, taken, dropped>>
        /\ pc[c] \in Past /\ pc[c] # "idle"
    BY DEF CacheMiss, GetSlot, RetryableError, BackedOff, Past
  <1>2. Retries \in Nat /\ attempt[c] \in 0..(Retries + 1)
    BY LLMClientAssumption DEF LLMClientAssumption, Orderly, Calling
  <1>3. PICK s \in {"queued", "sending", "backoff"} :
          /\ pc' = [pc EXCEPT ![c] = s]
          /\ \/ attempt' = attempt /\ (s = "backoff" => attempt[c] <= Retries)
             \/ \E n \in 0..(Retries + 1) : attempt' = [attempt EXCEPT ![c] = n] /\ s # "backoff"
    <2>1. CASE CacheMiss(c)
      BY <2>1 DEF CacheMiss
    <2>2. CASE GetSlot(c)
      <3>1. 1 \in 0..(Retries + 1)
        BY <1>2
      <3>2. pc' = [pc EXCEPT ![c] = "sending"] /\ attempt' = [attempt EXCEPT ![c] = 1]
        BY <2>2, Zenon DEF GetSlot
      <3> QED
        BY <3>1, <3>2
    <2>3. CASE RetryableError(c)
      BY <2>3 DEF RetryableError, MayRetry
    <2>4. CASE BackedOff(c)
      <3>1. attempt[c] + 1 \in 0..(Retries + 1)
        BY <1>2, <2>4 DEF BackedOff, Orderly, Calling
      <3>2. attempt' = [attempt EXCEPT ![c] = attempt[c] + 1] /\ pc' = [pc EXCEPT ![c] = "sending"]
        BY <2>4 DEF BackedOff
      <3> QED
        BY <3>1, <3>2
    <2> QED
      BY <2>1, <2>2, <2>3, <2>4
  <1>4. s \in States \ {"idle"} /\ s \in Past
    BY DEF States, Past
  <1>5. Calling'
    BY <1>1, <1>3, <1>4, MovesCalling
  <1>6. CallsKept /\ Counted
    BY DEF Orderly, Calling
  <1>7. \A q \in Providers : Underway(q)' = Underway(q)
    BY <1>1, <1>3, <1>4, <1>6, MovesUnderway
  <1>8. UNCHANGED <<tally, strikes>>
    BY <1>1 DEF bookVars
  <1> QED
    BY <1>1, <1>5, <1>6, <1>7, <1>8, StillCounted

LEMMA StoreKeeps ==
    ASSUME Orderly, NEW c \in Callers, Store(c)
    PROVE  Calling' /\ Counted'
  <1>1. /\ pc[c] = "store" /\ Ends(c)
        /\ UNCHANGED <<healthVars, tally, strikes, made, taken, dropped>>
    BY Zenon DEF Store
  <1>2. Calling'
    BY <1>1, EndsCalling
  <1>3. CallsKept /\ Counted
    BY DEF Orderly, Calling
  <1>4. \A q \in Providers : Cardinality(Underway(q)') = Cardinality(Underway(q))
    BY <1>1, <1>3, EndsUnderway DEF Past
  <1> QED
    BY <1>1, <1>2, <1>3, <1>4, StillCounted

LEMMA CancelKeeps ==
    ASSUME Orderly, NEW c \in Callers, Cancel(c)
    PROVE  Calling' /\ Counted'
  <1> DEFINE p == at[c]
  <1>1. /\ pc[c] # "idle" /\ Ends(c) /\ UNCHANGED <<healthVars, bookVars, made, taken>>
        /\ dropped' = [dropped EXCEPT ![p] = @ + IF pc[c] = "store" THEN 0 ELSE 1]
    BY Zenon DEF Cancel
  <1>2. Calling'
    BY <1>1, EndsCalling
  <1>3. CallsKept /\ Counted /\ p \in Providers /\ pc[c] \in States
    BY <1>1 DEF Orderly, Calling, Gated
  <1> HIDE DEF p
  <1>4. /\ dropped' \in [Providers -> Nat]
        /\ dropped'[p] = dropped[p] + IF pc[c] = "store" THEN 0 ELSE 1
        /\ \A q \in Providers : q # p => dropped'[q] = dropped[q]
    BY <1>1, <1>3 DEF Counted
  <1>5. UNCHANGED <<tally, strikes>>
    BY <1>1 DEF bookVars
  <1>6. ASSUME NEW q \in Providers
        PROVE  /\ tally'[q].calls = taken'[q] - dropped'[q] - Cardinality(Underway(q)')
               /\ taken'[q] <= made' /\ strikes'[q] <= tally'[q].errors
               /\ tally'[q].errors <= tally'[q].calls
    <2>1. taken'[q] = taken[q] /\ tally'[q] = tally[q] /\ strikes'[q] = strikes[q] /\ made' = made
      BY <1>1, <1>5
    <2>2. CASE q = p /\ pc[c] # "store"
      <3>1. Cardinality(Underway(q)') = Cardinality(Underway(q)) - 1
        BY <1>1, <1>3, <2>2, EndsUnderway DEF p, Past, States
      <3>2. dropped'[q] = dropped[q] + 1
        BY <1>4, <2>2
      <3> QED
        BY <1>3, <2>1, <3>1, <3>2, NumbersAre
    <2>3. CASE q # p \/ pc[c] = "store"
      <3>1. Cardinality(Underway(q)') = Cardinality(Underway(q))
        BY <1>1, <1>3, <2>3, EndsUnderway DEF p, Past
      <3>2. dropped[q] \in Nat
        BY <1>3, NumbersAre
      <3>3. dropped'[q] = dropped[q]
        BY <1>4, <2>3, <3>2
      <3> QED
        BY <1>3, <2>1, <3>1, <3>3, NumbersAre
    <2> QED
      BY <2>2, <2>3
  <1> QED
    BY <1>1, <1>2, <1>3, <1>4, <1>5, <1>6, CountedFrom DEF Counted

LEMMA NextKeepsOrder == Orderly /\ [Next]_vars => Orderly'
  <1> SUFFICES ASSUME Orderly, [Next]_vars PROVE Orderly'
    OBVIOUS
  <1>1. BreakerKept'
    BY NextKeepsBreaker DEF Orderly
  <1>2. CASE HealthChecked \/ \E p \in Providers : Probing(p)
    <2>1. Gated' /\ Calling'
      BY <1>2, GateSteps
    <2>2. UNCHANGED callVars /\ tally' = tally
      BY <1>2 DEF HealthChecked, Probing, ProbeSucceeds, NoChatRoute, ProbeFails, bookVars
    <2>3. \A p \in Providers : Underway(p)' = Underway(p)
      BY <2>2 DEF callVars, Underway
    <2>4. strikes' \in [Providers -> Nat] /\ \A q \in Providers : strikes'[q] <= tally'[q].errors
      BY <1>1 DEF BreakerKept
    <2>5. \A p \in Providers :
            /\ tally'[p].calls = taken'[p] - dropped'[p] - Cardinality(Underway(p)')
            /\ taken'[p] <= made' /\ tally'[p].errors <= tally'[p].calls
      BY <2>2, <2>3 DEF Orderly, Counted, callVars, EveryCallCountedOnce
    <2>6. Counted'
      BY <2>2, <2>4, <2>5, CountedFrom DEF Orderly, Counted, callVars
    <2> QED
      BY <1>1, <2>1, <2>6 DEF Orderly
  <1>3. ASSUME NEW c \in Callers, NEW r \in Requests, Generate(c, r) PROVE Orderly'
    <2>1. UNCHANGED healthVars
      BY <1>3, Zenon DEF Generate
    <2> QED
      BY <1>1, <1>3, <2>1, GenerateKeeps, GateStays DEF Orderly
  <1>4. ASSUME NEW c \in Callers, Responds(c) \/ GoesOn(c) \/ Cancel(c) PROVE Orderly'
    <2>1. UNCHANGED healthVars
      BY <1>4 DEF Responds, GoesOn, Cancel, Succeeds, ClientError, RetryableError, Fails,
                  CacheHit, CacheMiss, GetSlot, Store, BackedOff
    <2>2. Calling' /\ Counted'
      BY <1>4, SucceedsKeeps, ClientErrorKeeps, EndsKeeps, MovesKeep, StoreKeeps, CancelKeeps
         DEF Responds, GoesOn
    <2> QED
      BY <1>1, <2>1, <2>2, GateStays DEF Orderly
  <1>5. CASE UNCHANGED vars
    <2>1. UNCHANGED <<healthVars, bookVars, callVars>>
      BY <1>5 DEF vars
    <2>2. Calling'
      BY <2>1 DEF healthVars, callVars, Orderly, Calling, CallsKept
    <2>3. \A p \in Providers : Underway(p)' = Underway(p)
      BY <2>1 DEF callVars, Underway
    <2>4. Counted'
      BY <2>1, <2>3, StillCounted DEF callVars, bookVars, Orderly
    <2> QED
      BY <1>1, <2>1, <2>2, <2>4, GateStays DEF Orderly
  <1> QED
    BY <1>2, <1>3, <1>4, <1>5 DEF Next

LEMMA OrderlyIsInOrder == Orderly => CallsInOrder
  <1> SUFFICES ASSUME Orderly PROVE CallsInOrder
    OBVIOUS
  <1>1. TypeOK
    <2>1. \A p \in Providers : strikes[p] \in 0..MaxCalls
      BY NumbersAre, LLMClientAssumption DEF Orderly, LLMClientAssumption
    <2>2. strikes \in [Providers -> 0..MaxCalls]
      BY <2>1 DEF Orderly, Counted
    <2>3. \A c \in Callers : at[c] \in Providers \cup {NoProvider}
                             /\ (at[c] = NoProvider <=> pc[c] = "idle")
      BY LLMClientAssumption DEF LLMClientAssumption, Orderly, Calling, Gated
    <2> QED
      BY <2>2, <2>3 DEF TypeOK, Orderly, Gated, Calling, BreakerKept, States
  <1>2. RolesAreServed
    BY ResolveIs DEF RolesAreServed, Orderly, Gated
  <1>3. SendsToProbedModel
    BY DEF SendsToProbedModel, Orderly, Gated, Calling, Survivors, ModelFor
  <1>4. EveryCallCountedOnce
    BY DEF Orderly, Counted
  <1> QED
    BY <1>1, <1>2, <1>3, <1>4 DEF CallsInOrder

\* Whatever becomes of a call, for any number of providers, callers and calls: it is with a
\* provider that the health check let pass, under a name that answered a probe, with
\* attempts left, and in the books of that provider exactly once.
THEOREM CallsStayInOrder == Spec => []CallsInOrder
  <1>1. Spec => []Orderly
    BY InitOrderly, NextKeepsOrder, PTL DEF Spec
  <1> QED
    BY <1>1, OrderlyIsInOrder, PTL

=============================================================================
