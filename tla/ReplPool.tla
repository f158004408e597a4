------------------------------ MODULE ReplPool ------------------------------
(***************************************************************************)
(* The pool of resident REPL sessions (verify/repl_pool.py): callers       *)
(* acquire a session for a theorem, run tactics on it and release it; the  *)
(* pool reuses idle sessions, evicts them, spawns new ones up to its size, *)
(* and a memory guard poisons or rebuilds sessions that grew too large.    *)
(*                                                                         *)
(* A section under the condition variable has no await in it and is one    *)
(* action.  Spawning, closing and tactics run in threads, which go on when *)
(* the coroutine that awaits them is cancelled.  Ticks are left out: the   *)
(* idle sessions are a sequence in the order of their release.  So is      *)
(* session.closed: only the teardown sets it, after the session left _live *)
(***************************************************************************)
EXTENDS Integers, FiniteSets, Sequences

CONSTANTS
    Callers,    \* coroutines in verify_proof
    Sessions,   \* bound: the REPL processes there can be at a time
    Keys,       \* the (project, file, theorem) keys
    File,       \* File[k]: the (project, file) of key k
    Size,       \* self.size
    Guarded,    \* start_guard: the memory guard runs
    Cancels,    \* callers may be cancelled (the per-task budget of the pipeline)
    NoSession, NoKey

ASSUME ReplPoolAssumption ==
    /\ IsFiniteSet(Callers) /\ IsFiniteSet(Sessions)
    /\ NoSession \notin Sessions /\ NoKey \notin Keys
    /\ Size \in Nat \ {0}
    /\ Guarded \in BOOLEAN /\ Cancels \in BOOLEAN

VARIABLES
    live,       \* self._live
    registered, \* self._sessions
    idle,       \* self._idle, in the order of the ticks
    opening,    \* self._opening
    closed,     \* self._closed
    keyOf,      \* the fields key, checked_out and poisoned of the sessions
    out,
    poisoned,
    proc,       \* proc[s]: "none", "starting", "running" or "gone"
    closing,    \* sessions whose teardown thread runs
    stray,      \* sessions on which an abandoned tactic thread still runs
    ownerless,  \* sessions that an abandoned spawn thread opens or has opened
    pc,         \* pc[c]: "free", "acquire", "wait", "evict", "spawn", "using",
                \* "release", "giveup"
    want,       \* want[c]: the key c asks for
    held,       \* held[c]: the session c spawns, uses or closes
    gpc,        \* the guard: "off", "sleep", "sweep", "read", "close",
                \* "rebuild", "spawn"
    gtodo,      \* the rest of its snapshot
    gsess,      \* the session it deals with
    cpc,        \* close(): "open", "join", "closing", "closed"
    doomed      \* the sessions that close() tears down

poolVars    == <<live, registered, idle, opening, closed>>
sessionVars == <<keyOf, out, poisoned>>
threadVars  == <<proc, closing, stray, ownerless>>
callerVars  == <<pc, want, held>>
guardVars   == <<gpc, gtodo, gsess>>
closeVars   == <<cpc, doomed>>
vars == <<poolVars, sessionVars, threadVars, callerVars, guardVars, closeVars>>

----------------------------------------------------------------------------
Idle == {idle[i] : i \in 1..Len(idle)}

\* Mutant: the session is not taken out.
WithAll(seq, s) == seq
\* list.remove: the elements after the first s move up.
Without(seq, s) ==
    LET at == CHOOSE i \in 1..Len(seq) : seq[i] = s
    IN  IF \E i \in 1..Len(seq) : seq[i] = s
        THEN [i \in 1..Len(seq) - 1 |-> seq[IF i < at THEN i ELSE i + 1]]
        ELSE seq

\* An identity for a new REPL process: one that nothing refers to any more.
Fresh(s) ==
    /\ proc[s] = "none" /\ s \notin closing \cup stray \cup gtodo \cup {gsess}
    /\ \A c \in Callers : held[c] # s

\* Mutant: spawns in flight are not counted.
HasCapacityForLive == Cardinality(live) < Size
HasCapacity == Cardinality(live) + opening < Size

\* Mutant: a dead process is not noticed.
IsPoisoned(s) == poisoned[s]
IsUnusable(s) == poisoned[s] \/ proc[s] = "gone"

\* Mutant: no notify_all.
NobodyWoken(state) == state
\* The waiters that cond.notify_all wakes try again, each in a turn of its own.
Woken(state) == [c \in Callers |-> IF state[c] = "wait" THEN "acquire" ELSE state[c]]

\* The coroutine goes to state st, and all waiters are notified, or none.
GoesTo(c, st)       == pc' = [pc EXCEPT ![c] = st]
NotifiesAndGoesTo(c, st) == pc' = [Woken(pc) EXCEPT ![c] = st]

\* _close_session: the session is unregistered, its teardown thread starts.
Unregistered(s) == registered \ {s}

----------------------------------------------------------------------------
Init ==
    /\ live = {} /\ registered = {} /\ idle = <<>> /\ opening = 0 /\ closed = FALSE
    /\ keyOf = [s \in Sessions |-> NoKey]
    /\ out = [s \in Sessions |-> FALSE]
    /\ poisoned = [s \in Sessions |-> FALSE]
    /\ proc = [s \in Sessions |-> "none"]
    /\ closing = {} /\ stray = {} /\ ownerless = {}
    /\ pc = [c \in Callers |-> "free"]
    /\ want = [c \in Callers |-> NoKey]
    /\ held = [c \in Callers |-> NoSession]
    /\ gpc = "off" /\ gtodo = {} /\ gsess = NoSession
    /\ cpc = "open" /\ doomed = {}

----------------------------------------------------------------------------
(* acquire                                                                 *)

\* verify_proof calls acquire, which starts the guard if there is none.
Call(c, k) ==
    /\ pc[c] = "free"
    /\ GoesTo(c, "acquire")
    /\ want' = [want EXCEPT ![c] = k]
    /\ gpc' = IF Guarded /\ gpc = "off" /\ cpc # "join" THEN "sleep" ELSE gpc
    /\ UNCHANGED <<poolVars, sessionVars, threadVars, held, gtodo, gsess, closeVars>>

\* The pool is closed: ReplPoolClosedError, which verify_proof reports.
Refused(c) ==
    /\ pc[c] = "acquire" /\ closed
    /\ GoesTo(c, "free")
    /\ UNCHANGED <<poolVars, sessionVars, threadVars, want, held, guardVars, closeVars>>

\* The idle sessions with key k; the list of a key is used from its end.
IdleFor(k) == {i \in 1..Len(idle) : keyOf[idle[i]] = k}
LastFor(k) == idle[CHOOSE i \in IdleFor(k) : \A j \in IdleFor(k) : j <= i]

\* Mutant: the session stays among the idle ones.
ReuseButKeep(c) ==
    /\ pc[c] = "acquire" /\ ~closed /\ IdleFor(want[c]) # {}
    /\ LET s == LastFor(want[c])
       IN  /\ ~IsUnusable(s)
           /\ out' = [out EXCEPT ![s] = TRUE]
           /\ held' = [held EXCEPT ![c] = s]
    /\ GoesTo(c, "using")
    /\ UNCHANGED <<poolVars, keyOf, poisoned, threadVars, want, guardVars, closeVars>>

\* The warm session that was released last, unless it is broken.
Reuse(c) ==
    /\ pc[c] = "acquire" /\ ~closed /\ IdleFor(want[c]) # {}
    /\ LET s == LastFor(want[c])
       IN  /\ ~IsUnusable(s)
           /\ idle' = Without(idle, s)
           /\ out' = [out EXCEPT ![s] = TRUE]
           /\ held' = [held EXCEPT ![c] = s]
    /\ GoesTo(c, "using")
    /\ UNCHANGED <<live, registered, opening, closed, keyOf, poisoned, threadVars,
                   want, guardVars, closeVars>>

\* The session is taken out of the pool and torn down before c tries again.
Evict(c, s) ==
    /\ idle' = Without(idle, s)
    /\ live' = live \ {s}
    /\ registered' = Unregistered(s)
    /\ closing' = closing \cup {s}
    /\ held' = [held EXCEPT ![c] = s]
    /\ GoesTo(c, "evict")
    /\ UNCHANGED <<opening, closed, sessionVars, proc, stray, ownerless, want,
                   guardVars, closeVars>>

\* A broken idle session is reaped.
ReapBroken(c) ==
    /\ pc[c] = "acquire" /\ ~closed /\ IdleFor(want[c]) # {}
    /\ IsUnusable(LastFor(want[c]))
    /\ Evict(c, LastFor(want[c]))

\* There is room: a spawn thread starts.
StartSpawn(c) ==
    /\ pc[c] = "acquire" /\ ~closed /\ IdleFor(want[c]) = {} /\ HasCapacity
    /\ opening' = opening + 1
    /\ \E s \in Sessions :
         /\ Fresh(s)
         /\ proc' = [proc EXCEPT ![s] = "starting"]
         /\ keyOf' = [keyOf EXCEPT ![s] = want[c]]
         /\ held' = [held EXCEPT ![c] = s]
    /\ GoesTo(c, "spawn")
    /\ UNCHANGED <<live, registered, idle, closed, out, poisoned, closing, stray,
                   ownerless, want, guardVars, closeVars>>

\* _pick_eviction: the least recently used idle session, of another file if any.
EvictionChoice(k) ==
    LET others == {i \in 1..Len(idle) : File[keyOf[idle[i]]] # File[k]}
        pool   == IF others # {} THEN others ELSE 1..Len(idle)
    IN  idle[CHOOSE i \in pool : \A j \in pool : i <= j]

EvictLRU(c) ==
    /\ pc[c] = "acquire" /\ ~closed /\ IdleFor(want[c]) = {} /\ ~HasCapacity
    /\ idle # <<>>
    /\ Evict(c, EvictionChoice(want[c]))

\* Everything is checked out or being opened: wait for a release.
Wait(c) ==
    /\ pc[c] = "acquire" /\ ~closed /\ ~HasCapacity /\ idle = <<>>
    /\ GoesTo(c, "wait")
    /\ UNCHANGED <<poolVars, sessionVars, threadVars, want, held, guardVars, closeVars>>

\* Mutant: a pool that was closed meanwhile forgets the new session.
SpawnedUnlessClosed(c) ==
    /\ pc[c] = "spawn"
    /\ proc' = [proc EXCEPT ![held[c]] = "running"]
    /\ opening' = opening - 1
    /\ out' = [out EXCEPT ![held[c]] = TRUE]
    /\ poisoned' = [poisoned EXCEPT ![held[c]] = FALSE]
    /\ live' = IF closed THEN live ELSE live \cup {held[c]}
    /\ registered' = IF closed THEN registered ELSE registered \cup {held[c]}
    /\ NotifiesAndGoesTo(c, IF closed THEN "free" ELSE "using")
    /\ UNCHANGED <<idle, closed, keyOf, closing, stray, ownerless, want, held,
                   guardVars, closeVars>>

\* The spawn thread of c has ended.  If the pool was closed meanwhile the
\* session is torn down and the caller gets an error.
Spawned(c) ==
    LET s == held[c]
    IN  /\ pc[c] = "spawn"
        /\ proc' = [proc EXCEPT ![s] = "running"]
        /\ opening' = opening - 1
        /\ out' = [out EXCEPT ![s] = TRUE]
        /\ poisoned' = [poisoned EXCEPT ![s] = FALSE]
        /\ \/ /\ ~closed
              /\ live' = live \cup {s}
              /\ registered' = registered \cup {s}
              /\ NotifiesAndGoesTo(c, "using")
              /\ UNCHANGED closing
           \/ /\ closed
              /\ closing' = closing \cup {s}
              /\ NotifiesAndGoesTo(c, "giveup")
              /\ UNCHANGED <<live, registered>>
        /\ UNCHANGED <<idle, closed, keyOf, stray, ownerless, want, held, guardVars,
                       closeVars>>

\* The spawn thread raised.
SpawnFails(c) ==
    /\ pc[c] = "spawn"
    /\ proc' = [proc EXCEPT ![held[c]] = "none"]
    /\ opening' = opening - 1
    /\ NotifiesAndGoesTo(c, "free")
    /\ held' = [held EXCEPT ![c] = NoSession]
    /\ UNCHANGED <<live, registered, idle, closed, sessionVars, closing, stray,
                   ownerless, want, guardVars, closeVars>>

----------------------------------------------------------------------------
(* Tactics and release                                                     *)

MustGo(s, drop) == closed \/ drop \/ poisoned[s]

\* release: a session that the pool no longer knows is left alone, a broken one
\* is torn down, any other joins the idle ones.
Release(c, drop) ==
    LET s == held[c]
    IN  /\ out' = [out EXCEPT ![s] = FALSE]
        /\ \/ /\ s \notin live
              /\ GoesTo(c, "free")
              /\ held' = [held EXCEPT ![c] = NoSession]
              /\ UNCHANGED <<live, registered, idle, closing>>
           \/ /\ s \in live /\ MustGo(s, drop)
              /\ live' = live \ {s}
              /\ registered' = Unregistered(s)
              /\ closing' = closing \cup {s}
              /\ NotifiesAndGoesTo(c, "release")
              /\ UNCHANGED <<idle, held>>
           \/ /\ s \in live /\ ~MustGo(s, drop)
              /\ idle' = Append(idle, s)
              /\ NotifiesAndGoesTo(c, "free")
              /\ held' = [held EXCEPT ![c] = NoSession]
              /\ UNCHANGED <<live, registered, closing>>

\* The tactics of the proof have run, with whatever verdict.
Verdict(c) ==
    /\ pc[c] = "using"
    /\ Release(c, FALSE)
    /\ UNCHANGED <<opening, closed, keyOf, poisoned, proc, stray, ownerless, want,
                   guardVars, closeVars>>

\* run_tactic: the session raised; it is poisoned and the caller goes on with it
\* (from the whole proof to its single tactics) or ends.  It makes no difference
\* to a session that close() has taken out of the pool.
ToolError(c) ==
    /\ pc[c] = "using" /\ held[c] \in live /\ ~poisoned[held[c]]
    /\ poisoned' = [poisoned EXCEPT ![held[c]] = TRUE]
    /\ UNCHANGED <<poolVars, keyOf, out, threadVars, callerVars, guardVars, closeVars>>

\* run_tactic: the tactic takes too long.  Its thread stays behind; the whole
\* proof raises (drop = TRUE), a single tactic ends the attempt.
TacticTimesOut(c) ==
    /\ pc[c] = "using"
    /\ stray' = stray \cup {held[c]}
    /\ poisoned' = [poisoned EXCEPT ![held[c]] = TRUE]
    /\ Release(c, TRUE)
    /\ UNCHANGED <<opening, closed, keyOf, proc, ownerless, want, guardVars, closeVars>>

\* The task of c is cancelled at the await where it is.  Threads go on; the
\* handlers of acquire and run_tactic catch Exception and so miss the
\* cancellation; the finally of verify_proof releases with drop = FALSE.
Cancel(c) ==
    /\ Cancels
    /\ \/ /\ pc[c] \in {"acquire", "wait", "evict", "release", "giveup"}
          /\ GoesTo(c, "free")
          /\ held' = [held EXCEPT ![c] = NoSession]
          /\ UNCHANGED <<live, registered, idle, out, closing, stray, ownerless>>
       \/ /\ pc[c] = "spawn"
          /\ GoesTo(c, "free")
          /\ ownerless' = ownerless \cup {held[c]}
          /\ held' = [held EXCEPT ![c] = NoSession]
          /\ UNCHANGED <<live, registered, idle, out, closing, stray>>
       \/ /\ pc[c] = "using"
          /\ stray' = stray \cup {held[c]}
          /\ Release(c, FALSE)
          /\ UNCHANGED ownerless
    /\ UNCHANGED <<opening, closed, keyOf, poisoned, proc, want, guardVars, closeVars>>

----------------------------------------------------------------------------
(* Threads and processes                                                   *)

\* _close_session_sync has ended: the process tree is gone, its object is soon
\* forgotten, and the coroutine that waits for it, if any does, goes on.
CloseEnds(s) ==
    /\ s \in closing
    /\ closing' = closing \ {s}
    /\ proc' = [proc EXCEPT ![s] = "none"]
    /\ pc' = [c \in Callers |->
                CASE held[c] = s /\ pc[c] = "evict"                 -> "acquire"
                  [] held[c] = s /\ pc[c] \in {"release", "giveup"} -> "free"
                  [] OTHER                                          -> pc[c]]
    /\ held' = [c \in Callers |->
                  IF held[c] = s /\ pc[c] # "using" THEN NoSession ELSE held[c]]
    /\ gpc' = IF gpc = "close" /\ gsess = s THEN "rebuild" ELSE gpc
    /\ keyOf' = [keyOf EXCEPT ![s] = IF gsess = s THEN @ ELSE NoKey]
    /\ out' = [out EXCEPT ![s] = FALSE]
    /\ poisoned' = [poisoned EXCEPT ![s] = FALSE]
    /\ UNCHANGED <<poolVars, stray, ownerless, want, gtodo, gsess, closeVars>>

\* The process of a session vanishes (out of memory, a crash).
ProcessDies(s) ==
    /\ s \in live /\ proc[s] = "running"
    /\ proc' = [proc EXCEPT ![s] = "gone"]
    /\ UNCHANGED <<poolVars, sessionVars, closing, stray, ownerless, callerVars,
                   guardVars, closeVars>>

\* An abandoned tactic ends.
StrayEnds(s) ==
    /\ s \in stray
    /\ stray' = stray \ {s}
    /\ UNCHANGED <<poolVars, sessionVars, proc, closing, ownerless, callerVars,
                   guardVars, closeVars>>

\* An abandoned spawn thread ends.
OwnerlessStarts(s) ==
    /\ s \in ownerless /\ proc[s] = "starting"
    /\ proc' = [proc EXCEPT ![s] = "running"]
    /\ UNCHANGED <<poolVars, sessionVars, closing, stray, ownerless, callerVars,
                   guardVars, closeVars>>

----------------------------------------------------------------------------
(* The memory guard                                                        *)

\* close() cancels the guard, so the guard never sees a closed pool while it
\* rebuilds a session.
GuardMayRun == cpc # "join"

\* _check_memory_once: a snapshot of the sessions.
GuardSweep ==
    /\ gpc = "sleep" /\ GuardMayRun
    /\ gpc' = "sweep" /\ gtodo' = registered
    /\ UNCHANGED <<poolVars, sessionVars, threadVars, callerVars, gsess, closeVars>>

\* The next session of the snapshot that is live is measured in a thread.
GuardNext ==
    /\ gpc = "sweep" /\ GuardMayRun
    /\ \/ /\ gtodo \cap live = {}
          /\ gpc' = "sleep" /\ gtodo' = {}
          /\ UNCHANGED gsess
       \/ \E s \in gtodo \cap live :
            /\ gpc' = "read" /\ gtodo' = gtodo \ {s} /\ gsess' = s
    /\ UNCHANGED <<poolVars, sessionVars, threadVars, callerVars, closeVars>>

GuardGoesTo(st) ==
    /\ gpc' = st
    /\ gsess' = IF st = "sweep" THEN NoSession ELSE gsess

\* The measurement: within the bound, or unreadable; too large while the session
\* is checked out; too large and idle; too large but reaped in the meantime.
GuardMeasures ==
    /\ gpc = "read" /\ GuardMayRun
    /\ \/ /\ GuardGoesTo("sweep")
          /\ UNCHANGED <<live, registered, idle, poisoned, closing, pc>>
       \/ /\ out[gsess]
          /\ poisoned' = [poisoned EXCEPT ![gsess] = TRUE]
          /\ GuardGoesTo("sweep")
          /\ UNCHANGED <<live, registered, idle, closing, pc>>
       \/ /\ ~out[gsess] /\ gsess \in live
          /\ idle' = Without(idle, gsess)
          /\ live' = live \ {gsess}
          /\ registered' = Unregistered(gsess)
          /\ closing' = closing \cup {gsess}
          /\ pc' = Woken(pc)
          /\ GuardGoesTo("close")
          /\ UNCHANGED poisoned
    /\ UNCHANGED <<opening, closed, keyOf, out, proc, stray, ownerless, want, held,
                   gtodo, closeVars>>

\* _rebuild_idle: a new session for the key of the evicted one, whatever the
\* number of sessions is by now.
GuardRebuild ==
    /\ gpc = "rebuild" /\ GuardMayRun
    /\ opening' = opening + 1
    /\ \E s \in Sessions :
         /\ Fresh(s)
         /\ proc' = [proc EXCEPT ![s] = "starting"]
         /\ keyOf' = [keyOf EXCEPT ![s] = keyOf[gsess], ![gsess] = NoKey]
         /\ gsess' = s
    /\ gpc' = "spawn"
    /\ UNCHANGED <<live, registered, idle, closed, out, poisoned, closing, stray,
                   ownerless, callerVars, gtodo, closeVars>>

\* The spawn thread of the guard ends, with a session or without one.
GuardSpawned ==
    /\ gpc = "spawn" /\ GuardMayRun
    /\ opening' = opening - 1
    /\ \/ /\ proc' = [proc EXCEPT ![gsess] = "running"]
          /\ out' = [out EXCEPT ![gsess] = FALSE]
          /\ poisoned' = [poisoned EXCEPT ![gsess] = FALSE]
          /\ live' = live \cup {gsess}
          /\ registered' = registered \cup {gsess}
          /\ idle' = Append(idle, gsess)
       \/ /\ proc' = [proc EXCEPT ![gsess] = "none"]
          /\ UNCHANGED <<live, registered, idle, out, poisoned>>
    /\ pc' = Woken(pc)
    /\ GuardGoesTo("sweep")
    /\ UNCHANGED <<closed, keyOf, closing, stray, ownerless, want, held, gtodo,
                   closeVars>>

----------------------------------------------------------------------------
(* close                                                                   *)

Close ==
    /\ ~closed
    /\ closed' = TRUE
    /\ doomed' = registered
    /\ idle' = <<>> /\ live' = {}
    /\ pc' = Woken(pc)
    /\ cpc' = "join"
    /\ UNCHANGED <<registered, opening, sessionVars, threadVars, want, held, guardVars>>

\* The guard, if there is one, ends where it is; a spawn thread of its goes on.
\* Then every session of the snapshot is torn down.
CloseSessions ==
    /\ cpc = "join"
    /\ gpc' = "off" /\ gtodo' = {} /\ gsess' = NoSession
    /\ ownerless' = IF gpc = "spawn" THEN ownerless \cup {gsess} ELSE ownerless
    /\ registered' = registered \ doomed
    /\ closing' = closing \cup doomed
    /\ cpc' = "closing"
    /\ UNCHANGED <<live, idle, opening, closed, sessionVars, proc, stray, callerVars,
                   doomed>>

CloseReturns ==
    /\ cpc = "closing" /\ closing \cap doomed = {}
    /\ cpc' = "closed" /\ doomed' = {}
    /\ UNCHANGED <<poolVars, sessionVars, threadVars, callerVars, guardVars>>

----------------------------------------------------------------------------
CallerGoesOn(c) ==
    \/ Refused(c) \/ Reuse(c) \/ ReapBroken(c) \/ StartSpawn(c) \/ EvictLRU(c)
    \/ Wait(c) \/ Spawned(c) \/ SpawnFails(c) \/ Verdict(c) \/ TacticTimesOut(c)

ThreadEnds(s) == CloseEnds(s) \/ StrayEnds(s) \/ OwnerlessStarts(s)

GuardStep == GuardSweep \/ GuardNext \/ GuardMeasures \/ GuardRebuild \/ GuardSpawned

CloseGoesOn == CloseSessions \/ CloseReturns

Next ==
    \/ \E c \in Callers :
         CallerGoesOn(c) \/ ToolError(c) \/ Cancel(c) \/ \E k \in Keys : Call(c, k)
    \/ \E s \in Sessions : ThreadEnds(s) \/ ProcessDies(s)
    \/ GuardStep \/ Close \/ CloseGoesOn

Spec == Init /\ [][Next]_vars

\* Threads end: the session times tactics and spawns out.  What the loop can run
\* it runs.  Nobody has to call, to cancel or to close.
Fairness ==
    /\ \A c \in Callers : WF_vars(CallerGoesOn(c))
    /\ \A s \in Sessions : WF_vars(ThreadEnds(s))
    /\ WF_vars(GuardStep) /\ WF_vars(CloseGoesOn)

FairSpec == Spec /\ Fairness

----------------------------------------------------------------------------
(* Properties                                                              *)

Users == {c \in Callers : pc[c] = "using"}

Optional(S, no) == S \cup {no}

\* The types of the pool's books, of the sessions and of the coroutines.
TypeOK ==
    /\ live \subseteq Sessions /\ registered \subseteq Sessions
    /\ idle \in Seq(Sessions) /\ opening \in 0..Cardinality(Sessions)
    /\ closed \in BOOLEAN
    /\ keyOf \in [Sessions -> Optional(Keys, NoKey)]
    /\ out \in [Sessions -> BOOLEAN] /\ poisoned \in [Sessions -> BOOLEAN]
    /\ proc \in [Sessions -> {"none", "starting", "running", "gone"}]
    /\ closing \subseteq Sessions /\ stray \subseteq Sessions
    /\ ownerless \subseteq Sessions
    /\ pc \in [Callers -> {"free", "acquire", "wait", "evict", "spawn", "using",
                           "release", "giveup"}]
    /\ want \in [Callers -> Optional(Keys, NoKey)]
    /\ held \in [Callers -> Optional(Sessions, NoSession)]
    /\ gpc \in {"off", "sleep", "sweep", "read", "close", "rebuild", "spawn"}
    /\ gtodo \subseteq Sessions /\ gsess \in Optional(Sessions, NoSession)
    /\ cpc \in {"open", "join", "closing", "closed"} /\ doomed \subseteq Sessions

\* A session serves one caller at a time: it has no second user, it is not idle
\* while it has one, and no thread of an earlier user still runs a tactic on a
\* session that is idle or in use (acquire, release, run_tactic).
ExclusiveUse ==
    /\ \A c, d \in Users : held[c] = held[d] => c = d
    /\ \A c \in Users : held[c] \notin Idle \cup stray
    /\ Idle \cap stray = {}

\* A session that a session error or the memory guard poisoned never rests among
\* the idle ones (release, _check_memory_once).
NoPoisonIdle == \A s \in Idle : ~poisoned[s]

\* While the pool is open its books balance: the live sessions are the idle ones,
\* each listed once, and the ones in use; these are the ones close() would tear
\* down; and a place is reserved for exactly the spawns in flight.
BooksBalance ==
    ~closed =>
        /\ live = Idle \cup {held[c] : c \in Users}
        /\ Len(idle) = Cardinality(Idle)
        /\ registered = live
        /\ \A s \in live : out[s] <=> s \notin Idle
        /\ opening = Cardinality({c \in Callers : pc[c] = "spawn"})
                     + (IF gpc = "spawn" THEN 1 ELSE 0)

\* No more sessions are resident, or being opened, than the size of the pool.
SizeKept == Cardinality(live) + opening <= Size

\* The memory guard, which rebuilds without looking at the size, exceeds it by
\* one session at most, however long it runs.
AtMostOneOver == Cardinality(live) + opening <= Size + 1

\* No lost wakeup: whoever waits on the condition does so because, at this very
\* moment, the pool is open, full and has no idle session.
WaitHasReason ==
    (\E c \in Callers : pc[c] = "wait") => ~closed /\ idle = <<>> /\ ~HasCapacity

\* What holds whenever the condition is free: the types, the books, no broken session
\* among the idle ones, and no waiter without a reason.
MonitorInvariant == TypeOK /\ BooksBalance /\ NoPoisonIdle /\ WaitHasReason

\* The capacity is neither exceeded nor kept from a waiter, whatever callers give up.
CapacityIsKept == SizeKept /\ WaitHasReason

\* No REPL process leaks: each one is registered with the pool, or its teardown
\* runs, or a spawn that somebody still awaits is opening it.
NoProcessLeaks ==
    \A s \in Sessions : proc[s] # "none" =>
        \/ s \in registered \cup closing
        \/ \E c \in Callers : pc[c] = "spawn" /\ held[c] = s
        \/ gpc = "spawn" /\ gsess = s

\* A caller is handed a session for the theorem it asked for, and one that is
\* alive and not poisoned.
BrokenNeverHandedOut ==
    [][\A c \in Callers : (pc[c] # "using" /\ pc'[c] = "using") =>
          LET s == held'[c]
          IN  /\ keyOf'[s] = want[c]
              /\ proc'[s] = "running" /\ ~poisoned'[s] /\ s \notin closing']_vars

\* Whoever waits for a session is woken in the end.
WaitersWake == \A c \in Callers : pc[c] = "wait" ~> pc[c] # "wait"
=============================================================================
