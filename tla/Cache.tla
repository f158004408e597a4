------------------------------- MODULE Cache -------------------------------
(***************************************************************************)
(* The persistent cache (cache.py): a bounded LRU map in front of a sqlite *)
(* table that a single writer coroutine fills from a queue.                *)
(*                                                                         *)
(* get and set contain no await that suspends, so each is one action.  The *)
(* writer suspends only when its queue is empty: while it has work, it is  *)
(* "running" and nobody else acts.  The n-th call of set writes the value  *)
(* n, so that a larger value is a later one, and 0 stands for no entry.    *)
(* A get that fails or finds nothing, a set on a closed cache and a flush  *)
(* with nothing to wait for change nothing and are left out.               *)
(***************************************************************************)
EXTENDS Integers, Sequences, FiniteSetsExt, SequencesExt

CONSTANTS
    Clients,      \* coroutines that call flush and close
    Keys,         \* the keys, with their namespaces
    LruCapacity,  \* self._lru_capacity
    BatchSize,    \* self._write_batch_size
    ClosedAtExit, \* the program closes this cache before it ends
    MayDie,       \* a batch may hold a value that sqlite cannot encode
    MaxSets,      \* bound on the calls of set
    MaxLives      \* bound on the lives of the process

ASSUME CacheAssumption ==
    /\ LruCapacity \in Nat \ {0} /\ BatchSize \in Nat \ {0}
    /\ ClosedAtExit \in BOOLEAN /\ MayDie \in BOOLEAN
    /\ MaxSets \in Nat /\ MaxLives \in Nat \ {0}

VARIABLES
    lru,      \* self._lru, oldest entry first
    queue,    \* self._queue
    closed,   \* self._closed
    writer,   \* self._writer_task: "none", "waiting", "running", "done", "dead"
    pending,  \* the writer's batch so far
    db,       \* the table on disk
    pc,       \* pc[c]: "free", "flush" and "close" (awaits its event), then
              \* "flushed" and "joined"
    life,     \* lives so far
    ended,    \* the process has ended in the regular way
    sets,     \* calls of set so far
    latest,   \* history: the last value set for a key in this life, or found on disk
    due,      \* history: due[c] is latest at the time of c's call
    dropped,  \* history: values of batches that were logged and dropped
    unbacked  \* history: keys evicted from the LRU before they were written

memVars  == <<lru, queue, closed, writer, pending>>
histVars == <<sets, latest, due, dropped, unbacked>>
vars == <<memVars, db, pc, life, ended, histVars>>

----------------------------------------------------------------------------
Values == 1..MaxSets
Entry(k, v) == [key |-> k, value |-> v]
Entries == [key : Keys, value : Values]

\* What is enqueued: ("set", entry), ("flush", event), ("close", event).
SetOp(k, v)     == [op |-> "set", entry |-> Entry(k, v)]
Barrier(op, c)  == [op |-> op, by |-> c]

\* Mutant: the newest goes first.
Pushed(op)   == <<op>> \o queue
\* put_nowait.
Enqueued(op) == Append(queue, op)

KeysOf(entries) == {entries[i].key : i \in DOMAIN entries}

\* The value that entries have for k, the last one counts, or else the value v.
LastValue(entries, k, v) ==
    LET at == {i \in DOMAIN entries : entries[i].key = k}
    IN  IF at = {} THEN v ELSE entries[Max(at)].value

\* The LRU without its entry for k, of which it has one at most.
PlaceOf(k) == CHOOSE i \in DOMAIN lru : lru[i].key = k
Others(k)  == IF k \in KeysOf(lru) THEN RemoveAt(lru, PlaceOf(k)) ELSE lru

\* Mutant: the entry keeps its old value.
TouchedOld(k, v) == LET w == LastValue(lru, k, v) IN Append(Others(k), Entry(k, w))
\* _lru_put: at the most recent end, then the oldest go.
Touched(k, v) == Append(Others(k), Entry(k, v))
TrimmedOldest(entries) == IF Len(entries) > LruCapacity THEN Tail(entries) ELSE entries
LruPut(k, v) == TrimmedOldest(Touched(k, v))

\* The entries that are not written yet: collected by the writer, or still in the queue.
QueuedSets == {i \in DOMAIN queue : queue[i].op = "set"}
Unwritten  == {pending[i] : i \in DOMAIN pending} \cup {queue[i].entry : i \in QueuedSets}

\* The value that the row of k gets once they are written, in the order of the calls.
Arriving(k) ==
    LET at == {i \in QueuedSets : queue[i].entry.key = k}
    IN  IF at = {} THEN LastValue(pending, k, db[k]) ELSE queue[Max(at)].entry.value

\* Of these keys, the ones that are not written yet.
Unbacked(keys) == {k \in keys : \E e \in Unwritten : e.key = k}

LoopIsFree == writer # "running" /\ ~ended

Init ==
    /\ lru = <<>> /\ queue = <<>> /\ closed = FALSE /\ writer = "none" /\ pending = <<>>
    /\ db = [k \in Keys |-> 0]
    /\ pc = [c \in Clients |-> "free"]
    /\ life = 1 /\ ended = FALSE
    /\ sets = 0 /\ latest = [k \in Keys |-> 0]
    /\ due = [c \in Clients |-> [k \in Keys |-> 0]]
    /\ dropped = {} /\ unbacked = {}

----------------------------------------------------------------------------
(* The callers                                                             *)

\* A hit becomes the most recent entry; on a miss the row on disk is loaded.
Get(k) ==
    /\ LoopIsFree
    /\ LET hit  == k \in KeysOf(lru)
           next == LruPut(k, LastValue(lru, k, db[k]))
       IN  /\ hit \/ (~closed /\ db[k] # 0)
           /\ lru' = next
           /\ unbacked' = unbacked \cup
                Unbacked(KeysOf(lru) \ KeysOf(next))
    /\ UNCHANGED <<queue, closed, writer, pending, db, pc, life, ended, sets, latest, due, dropped>>

\* set: into the LRU, a writer if there is none that lives, into the queue.
WriterEnsured == IF writer \in {"none", "done", "dead"} THEN "waiting" ELSE writer

Set(k) ==
    /\ LoopIsFree /\ ~closed /\ sets < MaxSets
    /\ LET v    == sets + 1
           next == LruPut(k, v)
       IN  /\ lru' = next
           /\ queue' = Enqueued(SetOp(k, v))
           /\ sets' = v
           /\ latest' = [latest EXCEPT ![k] = v]
           /\ unbacked' = (unbacked \ {k}) \cup
                Unbacked(KeysOf(lru) \ KeysOf(next))
    /\ writer' = WriterEnsured
    /\ UNCHANGED <<closed, pending, db, pc, life, ended, due, dropped>>

Flush(c) ==
    /\ LoopIsFree /\ pc[c] = "free"
    /\ ~closed /\ writer # "none"
    /\ queue' = Enqueued(Barrier("flush", c))
    /\ pc' = [pc EXCEPT ![c] = "flush"]
    /\ due' = [due EXCEPT ![c] = latest]
    /\ UNCHANGED <<lru, closed, writer, pending, db, life, ended, sets, latest, dropped, unbacked>>

\* Later calls return at once, also while the first one waits.
Close(c) ==
    /\ LoopIsFree /\ pc[c] = "free" /\ ~closed
    /\ closed' = TRUE
    /\ IF writer = "none"
       THEN UNCHANGED <<queue, pc, due>>
       ELSE /\ queue' = Enqueued(Barrier("close", c))
            /\ pc' = [pc EXCEPT ![c] = "close"]
            /\ due' = [due EXCEPT ![c] = latest]
    /\ UNCHANGED <<lru, writer, pending, db, life, ended, sets, latest, dropped, unbacked>>

\* The event is set: flush returns.
FlushReturns(c) ==
    /\ LoopIsFree /\ pc[c] = "flushed"
    /\ pc' = [pc EXCEPT ![c] = "free"]
    /\ UNCHANGED <<memVars, db, life, ended, histVars>>

\* close finds the writer at its end, forgets it and closes the connection.
CloseReturns(c) ==
    /\ LoopIsFree /\ pc[c] = "joined"
    /\ pc' = [pc EXCEPT ![c] = "free"]
    /\ writer' = "none"
    /\ UNCHANGED <<lru, queue, closed, pending, db, life, ended, histVars>>

Return(c) == FlushReturns(c) \/ CloseReturns(c)

----------------------------------------------------------------------------
(* The writer                                                              *)

\* executemany in one transaction, in the order of the calls.
Stored(batch) == [k \in Keys |-> LastValue(batch, k, db[k])]

ValuesOf(batch) == {batch[i].value : i \in DOMAIN batch}

\* _write_batch: all of it, or nothing: an sqlite error is logged.
Write(batch) ==
    /\ pending' = <<>>
    /\ \/ db' = Stored(batch) /\ UNCHANGED dropped
       \/ dropped' = dropped \cup ValuesOf(batch) /\ UNCHANGED db

\* The writer goes on with the rest of the queue, or waits for more.
GoesOn == IF Len(queue) = 1 THEN "waiting" ELSE "running"

Collected(op) == Append(pending, op.entry)

\* Mutant: the value taken is written with the batch after it.
CollectLate(op) ==
    /\ IF Len(pending) < BatchSize - 1
       THEN pending' = Collected(op) /\ UNCHANGED <<db, dropped>>
       ELSE Write(pending)
    /\ writer' = GoesOn /\ UNCHANGED pc

Collect(op) ==
    /\ IF Len(Collected(op)) < BatchSize
       THEN pending' = Collected(op) /\ UNCHANGED <<db, dropped>>
       ELSE Write(Collected(op))
    /\ writer' = GoesOn /\ UNCHANGED pc

\* A barrier: what has been collected goes to disk, then the event is set.
SetEvent(op) ==
    pc' = [pc EXCEPT ![op.by] = IF op.op = "close" THEN "joined" ELSE "flushed"]

\* Mutant: a barrier does not write what was collected.
EventOnly(op) ==
    /\ SetEvent(op)
    /\ writer' = IF op.op = "close" THEN "done" ELSE GoesOn
    /\ UNCHANGED <<pending, db, dropped>>

\* Mutant: the writer ends at a barrier.
EndsAtBarrier(op) ==
    /\ IF pending = <<>> THEN UNCHANGED <<pending, db, dropped>> ELSE Write(pending)
    /\ SetEvent(op)
    /\ writer' = "done"

ReachBarrier(op) ==
    /\ IF pending = <<>> THEN UNCHANGED <<pending, db, dropped>> ELSE Write(pending)
    /\ SetEvent(op)
    /\ writer' = IF op.op = "close" THEN "done" ELSE GoesOn

WriterHasTurn == writer \in {"waiting", "running"} /\ queue # <<>> /\ ~ended

WriterTakes ==
    /\ WriterHasTurn
    /\ LET op == Head(queue)
       IN  IF op.op = "set" THEN Collect(op) ELSE ReachBarrier(op)
    /\ queue' = Tail(queue)
    /\ UNCHANGED <<lru, closed, life, ended, sets, latest, due, unbacked>>

\* The batch holds a value that cannot be encoded.  That is no sqlite3.Error:
\* the transaction is rolled back and the exception ends the writer.
WriterDies ==
    /\ MayDie /\ WriterHasTurn
    /\ LET op    == Head(queue)
           batch == IF op.op = "set" THEN Collected(op) ELSE pending
       IN  /\ batch # <<>>
           /\ op.op = "set" => Len(batch) = BatchSize
           /\ dropped' = dropped \cup ValuesOf(batch)
    /\ queue' = Tail(queue)
    /\ pending' = <<>> /\ writer' = "dead"
    /\ UNCHANGED <<lru, closed, db, pc, life, ended, sets, latest, due, unbacked>>

----------------------------------------------------------------------------
(* The process                                                             *)

\* A new process on the same file: only the table is there.
NewLife ==
    /\ life < MaxLives
    /\ life' = life + 1
    /\ lru' = <<>> /\ queue' = <<>> /\ closed' = FALSE /\ writer' = "none" /\ pending' = <<>>
    /\ pc' = [c \in Clients |-> "free"]
    /\ due' = [c \in Clients |-> [k \in Keys |-> 0]]
    /\ latest' = db /\ unbacked' = {} /\ ended' = FALSE
    /\ UNCHANGED <<db, sets, dropped>>

\* The process is killed, also in the middle of the writer's turn.
Crash == ~ended /\ NewLife

\* The main coroutine is over, after the cache has been closed or not.
Exit ==
    /\ LoopIsFree /\ \A c \in Clients : pc[c] = "free"
    /\ ClosedAtExit => closed
    /\ ended' = TRUE
    /\ UNCHANGED <<memVars, db, pc, life, histVars>>

Restart == ended /\ NewLife

Next ==
    \/ \E k \in Keys : Get(k) \/ Set(k)
    \/ \E c \in Clients : Flush(c) \/ Close(c) \/ Return(c)
    \/ WriterTakes \/ WriterDies
    \/ Crash \/ Exit \/ Restart

Spec == Init /\ [][Next]_vars

\* The loop runs what is ready: the writer, and whoever's event is set.
FairSpec == Spec /\ WF_vars(WriterTakes \/ WriterDies)
                 /\ \A c \in Clients : WF_vars(Return(c))

----------------------------------------------------------------------------
(* Properties                                                              *)

\* Types, and a table, an LRU and a batch within their bounds, no key twice.
TypeOK ==
    /\ lru \in Seq(Entries) /\ Len(lru) <= LruCapacity /\ IsInjective([i \in DOMAIN lru |-> lru[i].key])
    /\ \A i \in DOMAIN queue :
         \/ queue[i].op = "set" /\ queue[i].entry \in Entries
         \/ queue[i].op \in {"flush", "close"} /\ queue[i].by \in Clients
    /\ closed \in BOOLEAN /\ ended \in BOOLEAN
    /\ writer \in {"none", "waiting", "running", "done", "dead"}
    /\ pending \in Seq(Entries) /\ Len(pending) < BatchSize
    /\ db \in [Keys -> 0..sets] /\ latest \in [Keys -> 0..sets]
    /\ pc \in [Clients -> {"free", "flush", "close", "flushed", "joined"}]
    /\ life \in 1..MaxLives /\ sets \in 0..MaxSets
    /\ due \in [Clients -> [Keys -> 0..sets]]
    /\ dropped \subseteq 1..sets /\ unbacked \subseteq Keys

\* A value that is not in a dropped batch is on its way: once the writer is
\* through with what it has and what is queued, the table has the last value set
\* for every key (set, _writer_loop, _write_batch).
NothingLost ==
    ~ended => \A k \in Keys :
        latest[k] \in dropped \/ Arriving(k) = latest[k]

\* When flush or close returns, every value set before the call, or a later one,
\* is in the table, unless its batch was dropped (flush, close).
BarrierPersists ==
    \A c \in Clients : pc[c] \in {"flushed", "joined"} =>
        \A k \in Keys : due[c][k] \in dropped \/ db[k] >= due[c][k]

\* The program ends with all its values in the table, but the dropped ones: "close
\* flushes the queue" (close, async_main).
ExitPersists ==
    ended => \A k \in Keys : latest[k] \in dropped \/ db[k] = latest[k]

\* What holds at every await: the types and bounds; nothing is lost on its way to the
\* table, and nothing is on its way when the program has ended.
WriteBehindInvariant == TypeOK /\ NothingLost /\ ExitPersists

\* A key reads as it was last set, unless its entry was evicted before it was
\* written or was dropped: nothing else makes the cache answer with an old value (get).
ReadsLastSet ==
    (~ended /\ ~closed) => \A k \in Keys :
        \/ latest[k] \in dropped \/ k \in unbacked
        \/ LastValue(lru, k, db[k]) = latest[k]

\* No row on disk is ever replaced by an older value, over all lives: there is
\* one writer and it keeps the order of the calls.
RowsMoveForward == [][\A k \in Keys : db'[k] >= db[k]]_vars

\* flush and close come to an end ("flush pending writes, stop the writer task, close the
\* DB") as long as no exception ends the writer (flush, close, _writer_loop).
BarriersEndIfAlive ==
    [](writer # "dead") => \A c \in Clients : pc[c] # "free" ~> pc[c] = "free"
=============================================================================
