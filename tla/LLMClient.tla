----------------------------- MODULE LLMClient -----------------------------
(***************************************************************************)
(* The LLM providers behind the router (llm/client.py, llm/router.py): the *)
(* health gate at start, the routing of roles to the providers that passed *)
(* it, and the life of a call: circuit breaker, cache, semaphore, attempts *)
(* with backoff, books.                                                    *)
(*                                                                         *)
(* A step is a turn of the event loop.  Texts, tokens and latencies are    *)
(* left out.  A provider's client is handed out only while it is enabled,  *)
(* so the test of cfg.enabled in generate never fires and is left out.     *)
(***************************************************************************)
EXTENDS Integers, FiniteSets, Sequences, Functions, SequencesExt, FiniteSetsExt

CONSTANTS
    Providers,     \* the providers with a key
    DeepSeek,      \* those with a legacy alias and a reasoner model
    Roles,
    Primary,       \* ROLE_TO_PROVIDER
    Chain,         \* _FALLBACK_CHAIN, as providers
    Callers,       \* the coroutines that call generate
    Requests,      \* what they ask: [role, key, thinking]
    MaxConcurrent, \* cfg.max_concurrent
    Retries,       \* len(RETRY_BACKOFF_S)
    Threshold,     \* BREAKER_4XX_THRESHOLD
    MaxCalls,      \* bound: the calls of a run
    NoKey, NoProvider

ASSUME LLMClientAssumption ==
    /\ DeepSeek \subseteq Providers /\ NoProvider \notin Providers
    /\ MaxConcurrent \in Nat \ {0} /\ Retries \in Nat /\ Threshold \in Nat \ {0}
    /\ MaxCalls \in Nat /\ IsFiniteSet(Callers)
    /\ Chain \in Seq(Range(Chain))
    /\ Providers \subseteq Range(Chain)    \* each is the primary of a role of the chain

VARIABLES
    phase,    \* "probing", "running", or "refused" by the health gate
    probe,    \* probe[p]: where the health check of p is
    model,    \* model[p]: cfg.model, "configured" or "alias"
    answered, \* answered[p]: history, the models whose probe succeeded
    clients,  \* router._clients
    breaker,  \* self._breaker_open
    strikes,  \* self._consecutive_4xx
    tally,    \* tally[p]: self._calls, self._errors, self._cache_hits
    cache,    \* the keys under which answers are stored
    queue,    \* queue[p]: who waits for the semaphore, in order
    pc,       \* pc[c]: "idle", "lookup", "queued", "sending", "backoff", "store"
    at,       \* at[c]: the provider of the call
    req,      \* req[c]: the request
    attempt,  \* attempt[c]: the requests sent for it
    made,     \* history: the calls that were made
    taken,    \* taken[p]: history, those that went to p
    dropped   \* dropped[p]: history, those cancelled before they were counted

healthVars == <<phase, probe, model, answered, clients>>
bookVars   == <<breaker, strikes, tally, cache>>
callVars   == <<queue, pc, at, req, attempt, made, taken, dropped>>
vars == <<healthVars, bookVars, callVars>>

----------------------------------------------------------------------------
NoRequest == [role |-> NoProvider, key |-> NoKey, thinking |-> FALSE]

Holders(p) == {c \in Callers : at[c] = p /\ pc[c] \in {"sending", "backoff", "store"}}

\* The calls on p that passed the test of the breaker and are not answered yet.
Underway(p) ==
    {c \in Callers : at[c] = p /\ pc[c] \in {"lookup", "queued", "sending", "backoff"}}

Resolve(role) ==
    IF Primary[role] \in clients THEN Primary[role]
    ELSE LET usable == {i \in DOMAIN Chain : Chain[i] \in clients}
         IN  IF usable = {} THEN NoProvider ELSE Chain[Min(usable)]

\* The reasoner model follows the model to its legacy alias.
ModelFor(p, thinking) ==
    IF thinking /\ p \in DeepSeek
    THEN IF model[p] = "alias" THEN "reasonerAlias" ELSE "reasoner"
    ELSE model[p]

CacheKey(c) == <<at[c], ModelFor(at[c], req[c].thinking), req[c].key>>

Counts(p, calls, errors, hits) ==
    tally' = [tally EXCEPT ![p] = [calls  |-> @.calls + calls,
                                   errors |-> @.errors + errors,
                                   hits   |-> @.hits + hits]]

CountsError(p) == Counts(p, 1, 1, 0)

----------------------------------------------------------------------------
Init ==
    /\ phase = "probing"
    /\ probe = [p \in Providers |-> "chat"]
    /\ model = [p \in Providers |-> "configured"]
    /\ answered = [p \in Providers |-> {}]
    /\ clients = Providers
    /\ breaker = [p \in Providers |-> FALSE]
    /\ strikes = [p \in Providers |-> 0]
    /\ tally = [p \in Providers |-> [calls |-> 0, errors |-> 0, hits |-> 0]]
    /\ cache = {}
    /\ queue = [p \in Providers |-> <<>>]
    /\ pc = [c \in Callers |-> "idle"]
    /\ at = [c \in Callers |-> NoProvider]
    /\ req = [c \in Callers |-> NoRequest]
    /\ attempt = [c \in Callers |-> 0]
    /\ made = 0
    /\ taken = [p \in Providers |-> 0] /\ dropped = [p \in Providers |-> 0]

----------------------------------------------------------------------------
(* The health gate: every provider is probed, all of them at once.         *)

AliasStage == {"aliasChat", "aliasModels"}
ProbedModel(p) == IF probe[p] \in AliasStage THEN "alias" ELSE "configured"

\* health_check adopts the alias whose probe succeeded.
Adopted(p) == [model EXCEPT ![p] = ProbedModel(p)]

ProbeSucceeds(p) ==
    /\ phase = "probing" /\ probe[p] \notin {"ok", "bad"}
    /\ model' = Adopted(p)
    /\ answered' = [answered EXCEPT ![p] = @ \cup {ProbedModel(p)}]
    /\ probe' = [probe EXCEPT ![p] = "ok"]
    /\ breaker' = [breaker EXCEPT ![p] = FALSE]
    /\ strikes' = [strikes EXCEPT ![p] = 0]
    /\ UNCHANGED <<phase, clients, tally, cache, callVars>>

\* The chat endpoint answers 404: the list of models decides.
NoChatRoute(p) ==
    /\ phase = "probing" /\ probe[p] \in {"chat", "aliasChat"}
    /\ probe' = [probe EXCEPT ![p] = IF @ = "chat" THEN "models" ELSE "aliasModels"]
    /\ UNCHANGED <<phase, model, answered, clients, bookVars, callVars>>

ProbeFails(p) ==
    /\ phase = "probing" /\ probe[p] \notin {"ok", "bad"}
    /\ probe' = [probe EXCEPT ![p] = IF @ \notin AliasStage /\ p \in DeepSeek
                                     THEN "aliasChat" ELSE "bad"]
    /\ UNCHANGED <<phase, model, answered, clients, bookVars, callVars>>

\* health_check_all drops the providers whose check failed.
Survivors == {p \in Providers : probe[p] = "ok"}

\* Mutant: the program runs without a provider.
GateOpen == "running"
\* The command line refuses to run without a provider.
Gate == IF Survivors = {} THEN "refused" ELSE "running"

HealthChecked ==
    /\ phase = "probing" /\ \A p \in Providers : probe[p] \in {"ok", "bad"}
    /\ clients' = Survivors
    /\ phase' = Gate
    /\ UNCHANGED <<probe, model, answered, bookVars, callVars>>

----------------------------------------------------------------------------
(* A call                                                                  *)

\* The call is over: its coroutine has its answer, or was cancelled.
Ends(c) ==
    /\ pc' = [pc EXCEPT ![c] = "idle"]
    /\ at' = [at EXCEPT ![c] = NoProvider]
    /\ req' = [req EXCEPT ![c] = NoRequest]
    /\ attempt' = [attempt EXCEPT ![c] = 0]

\* Where a call goes that the breaker lets through: the direct phase caches.
Admission(r) == IF r.key # NoKey THEN "lookup" ELSE "queued"

\* Mutant: the breaker is not tested.
IgnoresBreaker(p) == FALSE
BreakerTest(p) == breaker[p]

Generate(c, r) ==
    LET p == Resolve(r.role) IN
    /\ phase = "running" /\ pc[c] = "idle" /\ made < MaxCalls /\ p # NoProvider
    /\ made' = made + 1 /\ taken' = [taken EXCEPT ![p] = @ + 1]
    /\ IF BreakerTest(p)
       THEN CountsError(p) /\ UNCHANGED <<queue, pc, at, req>>
       ELSE /\ pc' = [pc EXCEPT ![c] = Admission(r)]
            /\ at' = [at EXCEPT ![c] = p]
            /\ req' = [req EXCEPT ![c] = r]
            /\ queue' = IF Admission(r) = "queued"
                        THEN [queue EXCEPT ![p] = Append(@, c)] ELSE queue
            /\ UNCHANGED tally
    /\ UNCHANGED <<healthVars, breaker, strikes, cache, attempt, dropped>>

CacheHit(c) ==
    /\ pc[c] = "lookup" /\ CacheKey(c) \in cache
    /\ Counts(at[c], 1, 0, 1) /\ Ends(c)
    /\ UNCHANGED <<healthVars, breaker, strikes, cache, queue, made, taken, dropped>>

CacheMiss(c) ==
    /\ pc[c] = "lookup" /\ CacheKey(c) \notin cache
    /\ pc' = [pc EXCEPT ![c] = "queued"]
    /\ queue' = [queue EXCEPT ![at[c]] = Append(@, c)]
    /\ UNCHANGED <<healthVars, bookVars, at, req, attempt, made, taken, dropped>>

\* The semaphore lets the first in, and the request goes out.
GetSlot(c) ==
    /\ pc[c] = "queued" /\ c = Head(queue[at[c]])
    /\ Cardinality(Holders(at[c])) < MaxConcurrent
    /\ pc' = [pc EXCEPT ![c] = "sending"]
    /\ attempt' = [attempt EXCEPT ![c] = 1]
    /\ queue' = [queue EXCEPT ![at[c]] = Tail(@)]
    /\ UNCHANGED <<healthVars, bookVars, at, req, made, taken, dropped>>

Succeeds(c) ==
    /\ pc[c] = "sending"
    /\ strikes' = [strikes EXCEPT ![at[c]] = 0]
    /\ Counts(at[c], 1, 0, 0)
    /\ IF req[c].key = NoKey THEN Ends(c)
       ELSE pc' = [pc EXCEPT ![c] = "store"] /\ UNCHANGED <<at, req, attempt>>
    /\ UNCHANGED <<healthVars, breaker, cache, queue, made, taken, dropped>>

\* A cache that fails costs nothing but the entry.
Store(c) ==
    /\ pc[c] = "store" /\ Ends(c)
    /\ \/ cache' = cache \cup {CacheKey(c)}
       \/ cache' = cache
    /\ UNCHANGED <<healthVars, breaker, strikes, tally, queue, made, taken, dropped>>

\* Mutant: the first client error opens the breaker.
OneStrikeOut(p) == TRUE
StrikesOut(p) == strikes[p] + 1 >= Threshold

\* A 4xx other than 429: never retried, and a strike.
ClientError(c) ==
    LET p == at[c] IN
    /\ pc[c] = "sending"
    /\ strikes' = [strikes EXCEPT ![p] = @ + 1]
    /\ breaker' = [breaker EXCEPT ![p] = @ \/ StrikesOut(p)]
    /\ CountsError(p) /\ Ends(c)
    /\ UNCHANGED <<healthVars, cache, queue, made, taken, dropped>>

MayRetry(c) == attempt[c] <= Retries

\* 429, 5xx, a timeout or a connection error: backoff, with the slot held.
RetryableError(c) ==
    /\ pc[c] = "sending" /\ MayRetry(c)
    /\ pc' = [pc EXCEPT ![c] = "backoff"]
    /\ UNCHANGED <<healthVars, bookVars, queue, at, req, attempt, made, taken, dropped>>

BackedOff(c) ==
    /\ pc[c] = "backoff"
    /\ pc' = [pc EXCEPT ![c] = "sending"]
    /\ attempt' = [attempt EXCEPT ![c] = @ + 1]
    /\ UNCHANGED <<healthVars, bookVars, queue, at, req, made, taken, dropped>>

\* An unexpected error, or a retryable one after the last attempt.
Fails(c) ==
    /\ pc[c] = "sending"
    /\ CountsError(at[c]) /\ Ends(c)
    /\ UNCHANGED <<healthVars, breaker, strikes, cache, queue, made, taken, dropped>>

\* Mutant: a cancelled caller stays in the queue of the semaphore.
StaysQueued(c) == queue
LeavesQueue(c) == [queue EXCEPT ![at[c]] = SelectSeq(@, LAMBDA x : x # c)]

\* The budget of the task runs out: the call counts only when it was answered.
Cancel(c) ==
    /\ pc[c] # "idle" /\ Ends(c)
    /\ queue' = LeavesQueue(c)
    /\ dropped' = [dropped EXCEPT ![at[c]] = @ + IF pc[c] = "store" THEN 0 ELSE 1]
    /\ UNCHANGED <<healthVars, bookVars, made, taken>>

----------------------------------------------------------------------------
Probing(p)  == ProbeSucceeds(p) \/ NoChatRoute(p) \/ ProbeFails(p)
Responds(c) == Succeeds(c) \/ ClientError(c) \/ RetryableError(c) \/ Fails(c)
GoesOn(c)   == CacheHit(c) \/ CacheMiss(c) \/ GetSlot(c) \/ Store(c) \/ BackedOff(c)

Next ==
    \/ \E p \in Providers : Probing(p)
    \/ HealthChecked
    \/ \E c \in Callers, r \in Requests : Generate(c, r)
    \/ \E c \in Callers : Responds(c) \/ GoesOn(c) \/ Cancel(c)

Spec == Init /\ [][Next]_vars

\* Every request has a timeout, the event loop runs what is ready and backoffs end.
\* That callers make calls, or cancel them, is not assumed.
FairSpec ==
    /\ Spec /\ WF_vars(HealthChecked)
    /\ \A p \in Providers : WF_vars(Probing(p))
    /\ \A c \in Callers : WF_vars(Responds(c)) /\ WF_vars(GoesOn(c))

----------------------------------------------------------------------------
(* Properties                                                              *)

\* The types; a call sends its request Retries + 1 times at most.
TypeOK ==
    /\ phase \in {"probing", "running", "refused"}
    /\ probe \in [Providers -> {"chat", "models", "ok", "bad"} \cup AliasStage]
    /\ model \in [Providers -> {"configured", "alias"}]
    /\ clients \subseteq Providers
    /\ breaker \in [Providers -> BOOLEAN] /\ strikes \in [Providers -> 0..MaxCalls]
    /\ \A c \in Callers :
        /\ pc[c] \in {"idle", "lookup", "queued", "sending", "backoff", "store"}
        /\ at[c] \in Providers \cup {NoProvider} /\ (at[c] = NoProvider <=> pc[c] = "idle")
        /\ attempt[c] \in 0..(Retries + 1)

\* Behind the gate every role has a provider that passed the health check, its own if
\* that one did: router.client never raises in a run (router.py:95-110, cli.py:287-301).
RolesAreServed ==
    phase = "running" => \A role \in Roles :
        /\ Resolve(role) \in Survivors
        /\ Primary[role] \in Survivors => Resolve(role) = Primary[role]

\* A call that does not think goes to a model that answered a probe at start, the
\* legacy alias when the configured one did not (client.py:249-271).
SendsToProbedModel ==
    \A c \in Callers : pc[c] \in {"sending", "backoff"} /\ ~req[c].thinking
        => ModelFor(at[c], FALSE) \in answered[at[c]]

\* An open breaker was earned: as many calls failed as it takes strikes, however the
\* answers of concurrent calls, retries and cancellations mix (client.py:184-197, 216-222).
BreakerIsEarned ==
    \A p \in Providers : breaker[p] => tally[p].errors >= Threshold

\* Once the breaker is open no call joins those that were past its test: the provider
\* gets only what was queued or in flight when it opened (client.py:139, 173-182).
OpenBreakerAdmitsNone ==
    [][\A p \in Providers : breaker[p] => Underway(p)' \subseteq Underway(p)]_vars

\* Every call is counted once, on the provider that took it: answered, failed or from
\* the cache; a call cancelled before its answer is not counted (client.py:433-471).
EveryCallCountedOnce ==
    \A p \in Providers :
        tally[p].calls = taken[p] - dropped[p] - Cardinality(Underway(p))

\* Whatever becomes of a call, it is with a provider that the health check let pass, under a
\* name that answered it, with attempts left, and once in the books.
CallsInOrder == TypeOK /\ RolesAreServed /\ SendsToProbedModel /\ EveryCallCountedOnce

\* Every call ends, and so does the health gate: no cancellation, failure or open
\* breaker leaves a later call waiting for the semaphore (client.py:173).
CallsEnd ==
    /\ phase = "probing" ~> phase # "probing"
    /\ \A c \in Callers : pc[c] # "idle" ~> pc[c] = "idle"
=============================================================================
