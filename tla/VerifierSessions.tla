-------------------------- MODULE VerifierSessions --------------------------
(***************************************************************************)
(* The verifiers that keep Lean processes between calls, in a table:       *)
(*   "dojo"      sessions by theorem, opened and used under one lock       *)
(*               (verify/dojo_v2.py);                                      *)
(*   "interact"  servers by project, built under one lock and used under   *)
(*               a lock of their own (verify/lean_interact.py);            *)
(*   "repl"      pools by project, without a lock (the verifier class of   *)
(*               verify/repl_pool.py; a pool itself is module ReplPool).   *)
(* A program uses one of them.  What a process answers is left out: a use  *)
(* goes well or fails.  A thread goes on when its coroutine is cancelled   *)
(* or stops waiting; one that closes a process is taken to end at once     *)
(* then.                                                                   *)
(***************************************************************************)
EXTENDS Integers, FiniteSets

CONSTANTS
    Backends,     \* the verifiers to be checked
    Callers,      \* coroutines that verify proofs or run tactics
    Keys,         \* theorems, or projects
    Procs,        \* bound: the processes, or pools, there can be at a time
    MaxAbandoned, \* bound: how often a thread is abandoned
    None

ASSUME VerifierSessionsAssumption ==
    /\ Backends \subseteq {"dojo", "interact", "repl"}
    /\ Procs \subseteq Nat /\ IsFiniteSet(Procs) /\ None \notin Procs \cup Callers \cup Keys
    /\ MaxAbandoned \in Nat

VARIABLES
    backend,
    table,     \* self._sessions, self._servers or self._pools
    lock,      \* who holds self._lock or self._build_lock
    proc,      \* proc[p]: "none" (or ended by itself), "starting", "running", "closed"
    pc,        \* pc[c]: "free", "lock", "look", "opening", "line", "using", "fresh",
               \* "dropping"
    key,       \* key[c]: the theorem or project of the call
    held,      \* held[c]: the process it opens, uses or closes
    openers,   \* abandoned threads that open a process: <<key, process>>
    checkers,  \* the processes of abandoned whole-proof checks
    spoiled,   \* history: the processes on which a use failed
    ready,     \* self._ready
    shutdown,  \* close(): "open", "closing", "closed"
    doomed,    \* what close() still has to close
    late,      \* history: close() met a call or a thread, or a call came after it
    abandoned  \* history: the threads that were abandoned

tableVars  == <<table, lock>>
callVars   == <<pc, key, held>>
threadVars == <<openers, checkers, abandoned>>
closeVars  == <<ready, shutdown, doomed>>
vars == <<backend, tableVars, proc, callVars, threadVars, spoiled, closeVars, late>>

----------------------------------------------------------------------------
InTable  == {table[k] : k \in Keys} \ {None}
InHands  == {held[c] : c \in Callers} \ {None}
InThread == {t[2] : t \in openers} \cup checkers
Referred == InTable \cup InHands \cup (InThread \ {None}) \cup doomed

\* An identity for a new process: the first that nothing refers to any more.
Unused == {p \in Procs : proc[p] \notin {"starting", "running"} /\ p \notin Referred}
New(p) == p \in Unused /\ \A q \in Unused : p <= q

Goes(c, st)  == pc' = [pc EXCEPT ![c] = st]
Holds(c, p)  == held' = [held EXCEPT ![c] = p]
Becomes(p, st) == proc' = [proc EXCEPT ![p] = st]
Unlocked(c)  == IF lock = c THEN None ELSE lock

Ends(c) ==
    /\ Goes(c, "free") /\ Holds(c, None)
    /\ key' = [key EXCEPT ![c] = None]
    /\ lock' = Unlocked(c)

Init ==
    /\ backend \in Backends
    /\ table = [k \in Keys |-> None] /\ lock = None
    /\ proc = [p \in Procs |-> "none"]
    /\ pc = [c \in Callers |-> "free"]
    /\ key = [c \in Callers |-> None]
    /\ held = [c \in Callers |-> None]
    /\ openers = {} /\ checkers = {} /\ abandoned = 0 /\ spoiled = {}
    /\ ready = TRUE /\ shutdown = "open" /\ doomed = {} /\ late = FALSE

----------------------------------------------------------------------------
(* A call finds or opens its process                                       *)

\* open_task and run_tactic of dojo; verify_proof of lean-interact, which asks for the
\* lock only when there is no server.
Call(c, k) ==
    /\ backend \in {"dojo", "interact"} /\ ready /\ pc[c] = "free"
    /\ key' = [key EXCEPT ![c] = k]
    /\ IF backend = "interact" /\ table[k] # None
       THEN Goes(c, "line") /\ Holds(c, table[k])
       ELSE Goes(c, "lock") /\ UNCHANGED held
    /\ UNCHANGED <<backend, tableVars, proc, threadVars, spoiled, closeVars, late>>

\* verify_proof of the pool verifier: pool_for, whether or not it is closed.
CallPool(c, k, p) ==
    /\ backend = "repl" /\ pc[c] = "free"
    /\ key' = [key EXCEPT ![c] = k]
    /\ Goes(c, "using") /\ Holds(c, p)
    /\ IF table[k] = None
       THEN New(p) /\ table' = [table EXCEPT ![k] = p] /\ Becomes(p, "running")
       ELSE p = table[k] /\ UNCHANGED <<table, proc>>
    /\ late' = (late \/ ~ready)
    /\ UNCHANGED <<backend, lock, threadVars, spoiled, closeVars>>

\* Mutant: the lock is not taken.
SharesLock == TRUE
MayTakeLock == lock = None

GetLock(c) ==
    /\ pc[c] = "lock" /\ MayTakeLock
    /\ lock' = c
    /\ Goes(c, "look")
    /\ UNCHANGED <<backend, table, proc, key, held, threadVars, spoiled, closeVars, late>>

\* What a call does with the process it got: run_tactic uses it, with the lock; open_task
\* returns what the session said at its start; lean-interact lines up at the server.
GoesOnWith(c, p) ==
    \/ /\ backend = "dojo" /\ Goes(c, "using") /\ Holds(c, p) /\ UNCHANGED <<key, lock>>
    \/ /\ backend = "dojo" /\ Ends(c)
    \/ /\ backend = "interact" /\ Goes(c, "line") /\ Holds(c, p) /\ lock' = Unlocked(c)
       /\ UNCHANGED key

FindSession(c) ==
    /\ pc[c] = "look" /\ table[key[c]] # None
    /\ GoesOnWith(c, table[key[c]])
    /\ UNCHANGED <<backend, table, proc, threadVars, spoiled, closeVars, late>>

StartSession(c, p) ==
    /\ pc[c] = "look" /\ table[key[c]] = None /\ New(p)
    /\ Goes(c, "opening") /\ Holds(c, p) /\ Becomes(p, "starting")
    /\ spoiled' = spoiled \ {p}
    /\ UNCHANGED <<backend, tableVars, key, threadVars, closeVars, late>>

Opened(c) ==
    LET p == held[c] IN
    /\ pc[c] = "opening"
    /\ Becomes(p, "running") /\ table' = [table EXCEPT ![key[c]] = p]
    /\ GoesOnWith(c, p)
    /\ UNCHANGED <<backend, threadVars, spoiled, closeVars, late>>

\* Mutant: the session stays in the table.
KeepsSession(c) == Ends(c) /\ UNCHANGED table
\* Mutant: the session is not closed.
PopsOnly(c) == Ends(c) /\ table' = [table EXCEPT ![key[c]] = None]

\* _drop_session: takes whatever the table has for the theorem, and closes it.
Drops(c) ==
    LET victim == table[key[c]] IN
    IF victim = None THEN Ends(c) /\ UNCHANGED table
    ELSE /\ table' = [table EXCEPT ![key[c]] = None]
         /\ Goes(c, "dropping") /\ Holds(c, victim)
         /\ lock' = Unlocked(c) /\ UNCHANGED key
\* The start fails: run_tactic drops a session, open_task and lean-interact do not.
OpenFails(c) ==
    /\ pc[c] = "opening"
    /\ Becomes(held[c], "none")
    /\ IF backend = "dojo" THEN Drops(c) \/ (Ends(c) /\ UNCHANGED table)
                           ELSE Ends(c) /\ UNCHANGED table
    /\ UNCHANGED <<backend, threadVars, spoiled, closeVars, late>>

\* lean-interact: the server's own lock.
GetServer(c) ==
    /\ pc[c] = "line" /\ \A d \in Callers : ~(pc[d] = "using" /\ key[d] = key[c])
    /\ Goes(c, "using")
    /\ UNCHANGED <<backend, tableVars, proc, key, held, threadVars, spoiled, closeVars, late>>

UseEnds(c) ==
    /\ pc[c] = "using" /\ proc[held[c]] = "running"
    /\ Ends(c)
    /\ UNCHANGED <<backend, table, proc, threadVars, spoiled, closeVars, late>>

\* A timeout or a crash.  Only dojo gives the process up.
UseFails(c) ==
    /\ pc[c] = "using"
    /\ IF backend = "dojo" THEN Drops(c) /\ spoiled' = spoiled \cup {held[c]}
                           ELSE Ends(c) /\ UNCHANGED <<table, spoiled>>
    /\ UNCHANGED <<backend, proc, threadVars, closeVars, late>>

DropEnds(c) ==
    /\ pc[c] = "dropping"
    /\ Becomes(held[c], "closed") /\ Ends(c)
    /\ UNCHANGED <<backend, table, threadVars, spoiled, closeVars, late>>

----------------------------------------------------------------------------
(* verify_proof of dojo: a process for this call only, and no lock          *)

CheckFresh(c, k, p) ==
    /\ backend = "dojo" /\ ready /\ pc[c] = "free" /\ New(p)
    /\ Goes(c, "fresh") /\ key' = [key EXCEPT ![c] = k] /\ Holds(c, p)
    /\ Becomes(p, "running") /\ spoiled' = spoiled \ {p}
    /\ UNCHANGED <<backend, tableVars, threadVars, closeVars, late>>

FreshEnds(c) ==
    /\ pc[c] = "fresh"
    /\ Becomes(held[c], "closed")
    /\ (Ends(c) /\ UNCHANGED table) \/ Drops(c)    \* an answer, or a crash
    /\ UNCHANGED <<backend, threadVars, spoiled, closeVars, late>>

----------------------------------------------------------------------------
(* Threads whose coroutine is gone                                         *)

Abandons == abandoned < MaxAbandoned /\ abandoned' = abandoned + 1

FreshTimesOut(c) ==
    /\ pc[c] = "fresh" /\ Abandons
    /\ checkers' = checkers \cup {held[c]}
    /\ Drops(c)
    /\ UNCHANGED <<backend, proc, openers, spoiled, closeVars, late>>

\* The caller is cancelled, or (lean-interact) waited 1800 s for the start.
Cancel(c) ==
    /\ pc[c] # "free" /\ Abandons
    /\ openers' = IF pc[c] = "opening" \/ (pc[c] = "look" /\ backend = "dojo")
                  THEN openers \cup {<<key[c], held[c]>>} ELSE openers
    /\ checkers' = IF pc[c] = "fresh" THEN checkers \cup {held[c]} ELSE checkers
    /\ proc' = IF pc[c] = "dropping" THEN [proc EXCEPT ![held[c]] = "closed"] ELSE proc
    /\ Ends(c)
    /\ UNCHANGED <<backend, table, spoiled, closeVars, late>>

\* The thread of dojo looks into the table itself, and stores what it opened.
ThreadLooks(k, p) ==
    /\ <<k, None>> \in openers
    /\ IF table[k] # None
       THEN openers' = openers \ {<<k, None>>} /\ UNCHANGED <<proc, spoiled>>
       ELSE /\ New(p) /\ Becomes(p, "starting") /\ spoiled' = spoiled \ {p}
            /\ openers' = (openers \ {<<k, None>>}) \cup {<<k, p>>}
    /\ UNCHANGED <<backend, tableVars, callVars, checkers, abandoned, closeVars, late>>

ThreadOpens(k, p) ==
    /\ <<k, p>> \in openers /\ p # None
    /\ openers' = openers \ {<<k, p>>}
    /\ \/ Becomes(p, "none") /\ UNCHANGED table
       \/ /\ Becomes(p, "running")
          /\ table' = IF backend = "dojo" THEN [table EXCEPT ![k] = p] ELSE table
    /\ UNCHANGED <<backend, lock, callVars, checkers, abandoned, spoiled, closeVars, late>>

CheckerEnds(p) ==
    /\ p \in checkers
    /\ checkers' = checkers \ {p} /\ Becomes(p, "closed")
    /\ UNCHANGED <<backend, tableVars, callVars, openers, abandoned, spoiled, closeVars, late>>

ProcDies(p) ==
    /\ proc[p] = "running" /\ p \in InTable
    /\ Becomes(p, "none")
    /\ UNCHANGED <<backend, tableVars, callVars, threadVars, spoiled, closeVars, late>>

----------------------------------------------------------------------------
(* close()                                                                 *)

Busy == openers # {} \/ checkers # {} \/ \E c \in Callers : pc[c] # "free"

Emptied == [k \in Keys |-> None]
ToClose == InTable

Close ==
    /\ shutdown = "open" /\ shutdown' = "closing"
    /\ ready' = FALSE
    /\ doomed' = ToClose /\ table' = Emptied
    /\ late' = (late \/ Busy)
    /\ UNCHANGED <<backend, lock, proc, callVars, threadVars, spoiled>>

CloseNext(p) ==
    /\ shutdown = "closing" /\ p \in doomed
    /\ doomed' = doomed \ {p} /\ Becomes(p, "closed")
    /\ UNCHANGED <<backend, tableVars, callVars, threadVars, spoiled, ready, shutdown, late>>

Closed ==
    /\ shutdown = "closing" /\ doomed = {} /\ shutdown' = "closed"
    /\ UNCHANGED <<backend, tableVars, proc, callVars, threadVars, spoiled, ready, doomed, late>>

----------------------------------------------------------------------------
Serves(c) ==
    \/ GetLock(c) \/ GetServer(c) \/ FindSession(c) \/ Opened(c) \/ OpenFails(c)
    \/ UseEnds(c) \/ UseFails(c) \/ DropEnds(c) \/ FreshEnds(c) \/ FreshTimesOut(c)
    \/ \E p \in Procs : StartSession(c, p)

\* The program is over: close() has returned, and nobody waits for a lock or a process.
Over ==
    /\ shutdown = "closed" /\ openers = {} /\ checkers = {}
    /\ \A c \in Callers : pc[c] = "free"
    /\ UNCHANGED vars

Next ==
    \/ \E c \in Callers, k \in Keys :
          Call(c, k) \/ \E p \in Procs : CallPool(c, k, p) \/ CheckFresh(c, k, p)
    \/ \E c \in Callers : Serves(c) \/ Cancel(c)
    \/ \E k \in Keys, p \in Procs : ThreadLooks(k, p) \/ ThreadOpens(k, p)
    \/ \E p \in Procs : CheckerEnds(p) \/ ProcDies(p) \/ CloseNext(p)
    \/ Close \/ Closed \/ Over

Spec == Init /\ [][Next]_vars

----------------------------------------------------------------------------
(* Properties                                                              *)

\* The shape of the state.
TypeOK ==
    /\ backend \in Backends
    /\ table \in [Keys -> Procs \cup {None}] /\ lock \in Callers \cup {None}
    /\ proc \in [Procs -> {"none", "starting", "running", "closed"}]
    /\ pc \in [Callers -> {"free", "lock", "look", "opening", "line", "using", "fresh",
                           "dropping"}]
    /\ key \in [Callers -> Keys \cup {None}] /\ held \in [Callers -> Procs \cup {None}]
    /\ openers \subseteq Keys \X (Procs \cup {None}) /\ checkers \subseteq Procs
    /\ abandoned \in 0..MaxAbandoned /\ spoiled \subseteq Procs
    /\ {ready, late} \subseteq BOOLEAN /\ shutdown \in {"open", "closing", "closed"}
    /\ doomed \subseteq Procs
    /\ \A c \in Callers : (pc[c] \in {"free", "lock", "look"}) = (held[c] = None)

\* A process of which a tactic timed out or broke is not found in the table by the next
\* call, whoever put what there in the meantime.
SpoiledNotReused == spoiled \cap InTable = {}

\* No process that close() or a drop has closed, or is closing, is left in the table for
\* the next call.
TableIsOpen == \A p \in InTable : proc[p] # "closed" /\ p \notin doomed

\* What the next call finds in the table is open, unspoiled and nobody's to close.
TableInOrder == TypeOK /\ SpoiledNotReused /\ TableIsOpen

\* Two callers never run on one Lean process at a time (a pool serves many).
OneUser ==
    \A c, d \in Callers :
        backend # "repl" /\ c # d /\ pc[c] = "using" /\ pc[d] = "using" => held[c] # held[d]

\* A process that runs is within somebody's reach, so that it is closed in the end.  What
\* escapes does so one by one, for a thread that was left alone.
ProcessesAccounted ==
    Cardinality({p \in Procs : proc[p] = "running" /\ p \notin Referred}) <= abandoned

\* Once close() has returned no process runs, unless one escaped as above, or a call that
\* close() did not wait for (or that came to the pool verifier after it) opens one.
ClosedMeansClosed ==
    shutdown = "closed" /\ ~late
        => Cardinality({p \in Procs : proc[p] = "running"}) <= abandoned

\* No Lean process escapes those who are to close it, before close() and after.
NoProcessEscapes == ProcessesAccounted /\ ClosedMeansClosed
=============================================================================
