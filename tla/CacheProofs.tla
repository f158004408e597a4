---------------------------- MODULE CacheProofs ----------------------------
(***************************************************************************)
(* Theorems about Cache, for any clients, keys, capacities and batch       *)
(* sizes, and any numbers of sets, failures and lives: the way of the      *)
(* values from set to the table, what the LRU answers meanwhile, and what  *)
(* close leaves behind.                                                    *)
(***************************************************************************)
EXTENDS Cache, SequenceTheorems, WellFoundedInduction, TLAPS

----------------------------------------------------------------------------
(* The invariant                                                           *)

Ops == [op : {"set"}, entry : Entries] \cup [op : {"flush", "close"}, by : Clients]
Places == {"free", "flush", "close", "flushed", "joined"}

Shape ==
    /\ queue \in Seq(Ops) /\ pending \in Seq(Entries) /\ sets \in Nat
    /\ db \in [Keys -> Nat] /\ latest \in [Keys -> Nat]
    /\ due \in [Clients -> [Keys -> Nat]]
    /\ pc \in [Clients -> Places]

IsSet(o) == o.op = "set"

\* Values increase along the batch and the queue: they keep the order of the calls.
InOrder ==
    /\ \A i, j \in 1..Len(pending) : i < j => pending[i].value < pending[j].value
    /\ \A i \in 1..Len(pending), j \in 1..Len(queue) :
          IsSet(queue[j]) => pending[i].value < queue[j].entry.value
    /\ \A i, j \in 1..Len(queue) :
          i < j /\ IsSet(queue[i]) /\ IsSet(queue[j]) => queue[i].entry.value < queue[j].entry.value

\* What is on its way to a row is newer than the row.
Newer(e) == db[e.key] < e.value /\ e.value <= sets

Ahead ==
    /\ \A i \in 1..Len(pending) : Newer(pending[i])
    /\ \A i \in 1..Len(queue) : IsSet(queue[i]) => Newer(queue[i].entry)
    /\ \A k \in Keys : db[k] <= sets

\* The value v of k is in the table, or a newer one, or it is on its way in front of place p of
\* the queue, or its batch was dropped.
InTable(t, d, k, v) == v \in d \/ v <= t[k]
InBatch(b, k, v)    == \E i \in 1..Len(b) : b[i] = Entry(k, v)
InFrontOf(p, q, k, v) ==
    \E i \in 1..Len(q) : i < p /\ IsSet(q[i]) /\ q[i].entry = Entry(k, v)

OnItsWay(k, v, p) ==
    InTable(db, dropped, k, v) \/ InBatch(pending, k, v) \/ InFrontOf(p, queue, k, v)

\* Every value that a barrier is to wait for is in front of it, and every client has one
\* barrier in the queue at most.
InFront ==
    /\ \A k \in Keys : OnItsWay(k, latest[k], Len(queue) + 1)
    /\ \A p \in 1..Len(queue) : ~IsSet(queue[p]) =>
          /\ pc[queue[p].by] \in {"flush", "close"}
          /\ \A k \in Keys : OnItsWay(k, due[queue[p].by][k], p)
    /\ \A p, q \in 1..Len(queue) :
          ~IsSet(queue[p]) /\ ~IsSet(queue[q]) /\ queue[p].by = queue[q].by => p = q

WriteBehind == Shape /\ InOrder /\ Ahead /\ InFront /\ BarrierPersists

----------------------------------------------------------------------------
(* Batches                                                                 *)

\* A bounded set of numbers has a greatest one.
LEMMA Greatest ==
    ASSUME NEW n \in Nat, NEW S, S \subseteq 1..n, S # {}
    PROVE  \E x \in S : \A y \in S : y <= x
  <1>1. PICK R : R = {p \in Nat \X Nat : p[1] < p[2]} /\ IsWellFoundedOn(R, Nat)
    BY NatLessThanWellFounded DEF OpToRel
  <1> DEFINE T == {n - x : x \in S}
  <1>2. T \subseteq Nat /\ T # {}
    <2>1. \A x \in S : n - x \in Nat
      OBVIOUS
    <2> QED
      BY <2>1
  <1>3. PICK t \in T : \A u \in T : <<u, t>> \notin R
    BY <1>1, <1>2, WFMin
  <1>4. PICK x \in S : t = n - x
    BY <1>3
  <1>5. ASSUME NEW y \in S PROVE y <= x
    <2>1. n - y \in T /\ n - y \in Nat /\ n - x \in Nat /\ y \in 1..n /\ x \in 1..n
      BY <1>2
    <2>2. ~(n - y < n - x)
      BY <1>1, <1>3, <1>4, <2>1
    <2> QED
      BY <2>1, <2>2
  <1> QED
    BY <1>5

Rising(batch) ==
    \A i, j \in 1..Len(batch) : i < j => batch[i].value < batch[j].value

\* The last value that a batch has for a key is its newest.
LEMMA BatchTypes ==
    ASSUME NEW batch \in Seq(Entries)
    PROVE  /\ Len(batch) \in Nat /\ DOMAIN batch = 1..Len(batch)
           /\ \A i \in 1..Len(batch) :
                 batch[i] \in Entries /\ batch[i].key \in Keys /\ batch[i].value \in Nat
  <1>1. Len(batch) \in Nat /\ DOMAIN batch = 1..Len(batch)
    OBVIOUS
  <1>2. \A i \in 1..Len(batch) : batch[i] \in Entries
    BY <1>1
  <1>3. \A v \in Values : v \in Nat
    BY CacheAssumption DEF Values
  <1> QED
    BY <1>1, <1>2, <1>3 DEF Entries

LEMMA LastIsNewest ==
    ASSUME NEW batch \in Seq(Entries), Rising(batch), NEW k, NEW v
    PROVE  \/ /\ LastValue(batch, k, v) = v
              /\ \A i \in 1..Len(batch) : batch[i].key # k
           \/ \E i \in 1..Len(batch) :
                 /\ batch[i].key = k /\ LastValue(batch, k, v) = batch[i].value
                 /\ \A j \in 1..Len(batch) : batch[j].key = k => batch[j].value <= batch[i].value
  <1> DEFINE at == {i \in DOMAIN batch : batch[i].key = k}
  <1>1. Len(batch) \in Nat /\ DOMAIN batch = 1..Len(batch)
        /\ \A i \in 1..Len(batch) : batch[i].value \in Nat
    BY BatchTypes
  <1>2. CASE at = {}
    BY <1>1, <1>2 DEF LastValue
  <1>3. CASE at # {}
    <2>1. \E i \in at : \A j \in at : j <= i
      BY <1>1, <1>3, Greatest
    <2>2. PICK i \in at : Max(at) = i /\ \A j \in at : j <= i
      BY <2>1 DEF Max
    <2>3. LastValue(batch, k, v) = batch[i].value
      BY <1>3, <2>2 DEF LastValue
    <2>4. ASSUME NEW j \in 1..Len(batch), batch[j].key = k PROVE batch[j].value <= batch[i].value
      <3>1. j \in at /\ j <= i /\ i \in 1..Len(batch)
        BY <1>1, <2>2, <2>4
      <3>2. CASE j = i
        BY <1>1, <3>1, <3>2
      <3>3. CASE j < i
        BY <1>1, <3>1, <3>3 DEF Rising
      <3> QED
        BY <1>1, <3>1, <3>2, <3>3
    <2> QED
      BY <1>1, <2>2, <2>3, <2>4
  <1> QED
    BY <1>2, <1>3

\* A batch is through: rows have moved forward, to values of the batch, and each of its values is
\* in the table, or a newer one, or is among the dropped.
Through(batch) ==
    /\ db' \in [Keys -> Nat] /\ dropped \subseteq dropped'
    /\ \A k \in Keys :
          /\ db[k] <= db'[k]
          /\ db'[k] = db[k] \/ \E i \in 1..Len(batch) :
                                  batch[i].key = k /\ db'[k] = batch[i].value
    /\ \A i \in 1..Len(batch) :
          batch[i].value \in dropped' \/ batch[i].value <= db'[batch[i].key]

LEMMA WriteIsThrough ==
    ASSUME Shape, NEW batch \in Seq(Entries), Rising(batch),
           \A i \in 1..Len(batch) : Newer(batch[i]), Write(batch)
    PROVE  Through(batch)
  <1>1. /\ DOMAIN batch = 1..Len(batch) /\ db \in [Keys -> Nat]
        /\ \A i \in 1..Len(batch) : batch[i].key \in Keys /\ batch[i].value \in Nat
    BY BatchTypes DEF Shape
  <1>2. CASE db' = Stored(batch) /\ dropped' = dropped
    <2>1. ASSUME NEW k \in Keys
          PROVE  /\ db'[k] \in Nat /\ db[k] <= db'[k]
                 /\ db'[k] = db[k] \/ \E i \in 1..Len(batch) :
                                          batch[i].key = k /\ db'[k] = batch[i].value
                 /\ \A j \in 1..Len(batch) : batch[j].key = k => batch[j].value <= db'[k]
      <3>1. db'[k] = LastValue(batch, k, db[k])
        BY <1>2 DEF Stored
      <3>2. CASE /\ LastValue(batch, k, db[k]) = db[k]
                 /\ \A i \in 1..Len(batch) : batch[i].key # k
        BY <1>1, <3>1, <3>2
      <3>3. ASSUME NEW i \in 1..Len(batch), batch[i].key = k,
                   LastValue(batch, k, db[k]) = batch[i].value,
                   \A j \in 1..Len(batch) : batch[j].key = k => batch[j].value <= batch[i].value
            PROVE  /\ db'[k] \in Nat /\ db[k] <= db'[k] /\ db'[k] = batch[i].value
                   /\ \A j \in 1..Len(batch) : batch[j].key = k => batch[j].value <= db'[k]
        BY <1>1, <3>1, <3>3 DEF Newer
      <3> QED
        BY <3>2, <3>3, LastIsNewest
    <2>2. db' \in [Keys -> Nat]
      BY <1>2, <2>1 DEF Stored
    <2> QED
      BY <1>1, <1>2, <2>1, <2>2 DEF Through
  <1>3. CASE db' = db /\ dropped' = dropped \cup ValuesOf(batch)
    <2>1. \A i \in 1..Len(batch) : batch[i].value \in dropped'
      BY <1>1, <1>3 DEF ValuesOf
    <2> QED
      BY <1>1, <1>3, <2>1 DEF Through
  <1> QED
    BY <1>2, <1>3 DEF Write
----------------------------------------------------------------------------
(* The steps                                                               *)

LEMMA InitHolds == Init => WriteBehind
  <1> SUFFICES ASSUME Init PROVE WriteBehind
    OBVIOUS
  <1>1. /\ queue = <<>> /\ pending = <<>> /\ Len(queue) = 0 /\ Len(pending) = 0
        /\ queue \in Seq(Ops) /\ pending \in Seq(Entries)
    BY DEF Init
  <1> QED
    BY <1>1 DEF Init, WriteBehind, Shape, Places, InOrder, Ahead, InFront, OnItsWay, InTable, BarrierPersists

\* Steps that leave the way of the values alone; a call that returns was none in the queue.
Elsewhere ==
    /\ UNCHANGED <<queue, pending, db, dropped, sets, latest, due>>
    /\ pc' = pc \/ \E c \in Clients :
                      pc[c] \in {"flushed", "joined"} /\ pc' = [pc EXCEPT ![c] = "free"]

LEMMA ElsewhereKeeps ==
    ASSUME WriteBehind, Elsewhere
    PROVE  WriteBehind'
  <1>1. pc' \in [Clients -> Places]
    BY DEF Elsewhere, WriteBehind, Shape, Places
  <1>2. \A c \in Clients : \/ pc'[c] = pc[c]
                           \/ pc[c] \in {"flushed", "joined"} /\ pc'[c] = "free"
    BY DEF Elsewhere, WriteBehind, Shape
  <1>3. \A p \in 1..Len(queue) : ~IsSet(queue[p]) => queue[p].by \in Clients
    BY DEF WriteBehind, Shape, Ops, IsSet
  <1>4. Shape' /\ InOrder' /\ Ahead'
    BY <1>1 DEF Elsewhere, WriteBehind, Shape, InOrder, Ahead, Newer, IsSet
  <1>5. InFront'
    BY <1>2, <1>3 DEF Elsewhere, WriteBehind, InFront, OnItsWay, IsSet
  <1>6. BarrierPersists'
    BY <1>2 DEF Elsewhere, WriteBehind, BarrierPersists
  <1> QED
    BY <1>4, <1>5, <1>6 DEF WriteBehind

\* What an operation at the end of the queue does to the places in it.
LEMMA Enqueues ==
    ASSUME queue \in Seq(Ops), NEW op \in Ops, queue' = Append(queue, op)
    PROVE  /\ queue' \in Seq(Ops) /\ Len(queue') = Len(queue) + 1 /\ Len(queue) \in Nat
           /\ queue'[Len(queue) + 1] = op
           /\ \A i \in 1..Len(queue') : i \in 1..Len(queue) \/ i = Len(queue) + 1
           /\ \A i \in 1..Len(queue) : i \in 1..Len(queue') /\ queue'[i] = queue[i]
  <1>1. /\ queue' \in Seq(Ops) /\ Len(queue') = Len(queue) + 1 /\ Len(queue) \in Nat
        /\ queue'[Len(queue) + 1] = op
        /\ \A i \in 1..Len(queue) : queue'[i] = queue[i]
    BY AppendProperties
  <1> QED
    BY <1>1

\* What waits in the queue is what set, flush and close put there.
LEMMA QueueTypes ==
    ASSUME Shape
    PROVE  /\ Len(queue) \in Nat
           /\ \A i \in 1..Len(queue) :
                 /\ IsSet(queue[i]) => /\ queue[i].entry \in Entries /\ queue[i].entry.key \in Keys
                                /\ queue[i].entry.value \in Nat
                 /\ ~IsSet(queue[i]) => queue[i].by \in Clients
  <1>1. Len(queue) \in Nat /\ DOMAIN queue = 1..Len(queue)
    BY DEF Shape
  <1>2. \A i \in 1..Len(queue) : queue[i] \in Ops
    BY <1>1 DEF Shape
  <1>3. \A v \in Values : v \in Nat
    BY CacheAssumption DEF Values
  <1>4. ASSUME NEW i \in 1..Len(queue), IsSet(queue[i])
        PROVE  queue[i].entry \in Entries
    BY <1>2, <1>4 DEF Ops, IsSet
  <1>5. ASSUME NEW i \in 1..Len(queue), ~IsSet(queue[i])
        PROVE  queue[i].by \in Clients
    BY <1>2, <1>5 DEF Ops, IsSet
  <1> QED
    BY <1>1, <1>3, <1>4, <1>5 DEF Entries

LEMMA SetKeeps ==
    ASSUME WriteBehind, NEW k \in Keys, Set(k)
    PROVE  WriteBehind'
  <1>0. PICK n \in Nat, v \in Nat : n = Len(queue) /\ v = sets + 1
    BY DEF WriteBehind, Shape
  <1>1. /\ sets < MaxSets /\ queue' = Append(queue, SetOp(k, v)) /\ sets' = v
        /\ latest' = [latest EXCEPT ![k] = v]
        /\ UNCHANGED <<pending, db, pc, due, dropped>>
    BY <1>0 DEF Set, Enqueued
  <1>2. v \in Values /\ Entry(k, v) \in Entries /\ SetOp(k, v) \in Ops
    BY <1>0, <1>1, CacheAssumption DEF WriteBehind, Shape, Values, Entry, Entries, SetOp, Ops
  <1>3. /\ queue' \in Seq(Ops) /\ Len(queue') = n + 1 /\ n \in Nat /\ queue'[n + 1] = SetOp(k, v)
        /\ \A i \in 1..Len(queue') : i \in 1..n \/ i = n + 1
        /\ \A i \in 1..n : i \in 1..Len(queue') /\ queue'[i] = queue[i]
    BY <1>0, <1>1, <1>2, Enqueues DEF WriteBehind, Shape
  <1>4. /\ \A i \in 1..n : IsSet(queue'[i]) <=> IsSet(queue[i])
        /\ IsSet(queue'[n + 1]) /\ queue'[n + 1].entry = Entry(k, v)
        /\ Entry(k, v).key = k /\ Entry(k, v).value = v
    BY <1>0, <1>3 DEF IsSet, SetOp, Entry
  <1>5. Shape'
    BY <1>0, <1>1, <1>2, <1>3 DEF WriteBehind, Shape
  <1>6. /\ \A i \in 1..Len(pending) : pending[i].value < v /\ pending[i].value \in Nat
        /\ \A i \in 1..n : IsSet(queue[i]) => queue[i].entry.value < v /\ queue[i].entry.value \in Nat
        /\ sets \in Nat
    BY <1>0, BatchTypes, QueueTypes DEF WriteBehind, Shape, Ahead, Newer
  <1>7. InOrder'
    <2>1. /\ \A i, j \in 1..n : i < j /\ IsSet(queue[i]) /\ IsSet(queue[j]) =>
                queue[i].entry.value < queue[j].entry.value
          /\ \A i \in 1..Len(pending), j \in 1..n :
                IsSet(queue[j]) => pending[i].value < queue[j].entry.value
          /\ \A i, j \in 1..Len(pending) : i < j => pending[i].value < pending[j].value
      BY <1>0 DEF WriteBehind, InOrder
    <2>2. ASSUME NEW i \in 1..Len(queue'), NEW j \in 1..Len(queue'), i < j, IsSet(queue'[i]), IsSet(queue'[j])
          PROVE  queue'[i].entry.value < queue'[j].entry.value
      <3>1. i \in 1..n
        BY <1>3, <2>2
      <3>2. CASE j \in 1..n
        BY <1>3, <1>4, <2>1, <2>2, <3>1, <3>2
      <3>3. CASE j = n + 1
        BY <1>3, <1>4, <1>6, <2>2, <3>1, <3>3
      <3> QED
        BY <1>3, <3>2, <3>3
    <2>3. ASSUME NEW i \in 1..Len(pending), NEW j \in 1..Len(queue'), IsSet(queue'[j])
          PROVE  pending[i].value < queue'[j].entry.value
      <3>1. CASE j \in 1..n
        BY <1>3, <1>4, <2>1, <2>3, <3>1
      <3>2. CASE j = n + 1
        BY <1>4, <1>6, <3>2
      <3> QED
        BY <1>3, <3>1, <3>2
    <2> QED
      BY <1>1, <2>1, <2>2, <2>3 DEF InOrder
  <1>8. Ahead'
    <2>1. /\ \A j \in Keys : db[j] \in Nat /\ db[j] <= sets
          /\ \A i \in 1..Len(pending) : db[pending[i].key] < pending[i].value
          /\ \A i \in 1..n : IsSet(queue[i]) => db[queue[i].entry.key] < queue[i].entry.value
      BY <1>0 DEF WriteBehind, Shape, Ahead, Newer
    <2>2. ASSUME NEW i \in 1..Len(queue'), IsSet(queue'[i]) PROVE Newer(queue[i].entry)'
      <3>1. CASE i \in 1..n
        BY <1>0, <1>1, <1>3, <1>4, <1>6, <2>1, <2>2, <3>1 DEF Newer
      <3>2. CASE i = n + 1
        BY <1>0, <1>1, <1>4, <1>6, <2>1, <3>2 DEF Newer
      <3> QED
        BY <1>3, <3>1, <3>2
    <2>3. ASSUME NEW i \in 1..Len(pending) PROVE Newer(pending[i])'
      BY <1>0, <1>1, <1>6, <2>1 DEF Newer
    <2>4. \A j \in Keys : db[j] <= v
      BY <1>0, <1>6, <2>1
    <2> QED
      BY <1>1, <2>2, <2>3, <2>4 DEF Ahead
  <1>9. ASSUME NEW j, NEW w, NEW p \in 1..n + 1, InFrontOf(p, queue, j, w)
        PROVE  InFrontOf(p, queue', j, w) /\ InFrontOf(n + 2, queue', j, w)
    BY <1>0, <1>3, <1>4, <1>9 DEF InFrontOf
  <1>10. InFront'
    <2>1. ASSUME NEW j \in Keys
          PROVE  \/ InTable(db', dropped', j, latest'[j]) \/ InBatch(pending', j, latest'[j])
                 \/ InFrontOf(n + 2, queue', j, latest'[j])
      <3>1. CASE j = k
        <4>1. latest'[j] = v /\ n + 1 \in 1..Len(queue') /\ n + 1 < n + 2
          BY <1>0, <1>1, <1>3, <3>1 DEF WriteBehind, Shape
        <4> QED
          BY <1>4, <3>1, <4>1 DEF InFrontOf
      <3>2. CASE j # k
        <4>1. latest'[j] = latest[j] /\ n + 1 \in 1..n + 1
          BY <1>1, <3>2 DEF WriteBehind, Shape
        <4>2. \/ InTable(db, dropped, j, latest[j]) \/ InBatch(pending, j, latest[j])
              \/ InFrontOf(n + 1, queue, j, latest[j])
          BY <1>0 DEF WriteBehind, InFront, OnItsWay
        <4> QED
          BY <1>1, <1>9, <4>1, <4>2
      <3> QED
        BY <3>1, <3>2
    <2>2. ASSUME NEW p \in 1..Len(queue'), ~IsSet(queue'[p])
          PROVE  /\ p \in 1..n /\ ~IsSet(queue[p]) /\ queue'[p] = queue[p]
                 /\ \A j \in Keys : LET w == due[queue[p].by][j]
                                  IN  \/ InTable(db, dropped, j, w) \/ InBatch(pending, j, w)
                                      \/ InFrontOf(p, queue', j, w)
      <3>1. p \in 1..n /\ p \in 1..n + 1 /\ ~IsSet(queue[p]) /\ queue'[p] = queue[p]
        BY <1>3, <1>4, <2>2
      <3>2. \A j \in Keys : OnItsWay(j, due[queue[p].by][j], p)
        BY <1>0, <3>1 DEF WriteBehind, InFront
      <3> QED
        BY <1>9, <3>1, <3>2 DEF OnItsWay
    <2>3. Len(queue') + 1 = n + 2
      BY <1>3
    <2>4. \A p \in 1..n : ~IsSet(queue[p]) => pc[queue[p].by] \in {"flush", "close"}
      BY <1>0 DEF WriteBehind, InFront
    <2>5. \A p, q \in 1..n :
             ~IsSet(queue[p]) /\ ~IsSet(queue[q]) /\ queue[p].by = queue[q].by => p = q
      BY <1>0 DEF WriteBehind, InFront
    <2>6. \A j \in Keys : OnItsWay(j, latest[j], Len(queue) + 1)'
      BY <2>1, <2>3 DEF OnItsWay
    <2>7. ASSUME NEW p \in 1..Len(queue'), ~IsSet(queue'[p])
          PROVE  /\ pc'[queue'[p].by] \in {"flush", "close"}
                 /\ \A j \in Keys : OnItsWay(j, due[queue[p].by][j], p)'
      BY <1>1, <2>2, <2>4, <2>7 DEF OnItsWay
    <2>8. ASSUME NEW p \in 1..Len(queue'), NEW q \in 1..Len(queue'),
                 ~IsSet(queue'[p]), ~IsSet(queue'[q]), queue'[p].by = queue'[q].by
          PROVE  p = q
      BY <2>2, <2>5, <2>8
    <2> QED
      BY <2>6, <2>7, <2>8 DEF InFront
  <1>11. BarrierPersists'
    BY <1>0, <1>1 DEF WriteBehind, BarrierPersists
  <1> QED
    BY <1>0, <1>5, <1>7, <1>8, <1>10, <1>11 DEF WriteBehind

\* flush and close put a barrier behind everything that has been set.
LEMMA BarrierKeeps ==
    ASSUME WriteBehind, NEW c \in Clients, NEW op \in {"flush", "close"}, pc[c] = "free",
           queue' = Append(queue, Barrier(op, c)), pc' = [pc EXCEPT ![c] = op],
           due' = [due EXCEPT ![c] = latest], UNCHANGED <<pending, db, dropped, sets, latest>>
    PROVE  WriteBehind'
  <1>0. PICK n \in Nat : n = Len(queue)
    BY DEF WriteBehind, Shape
  <1>1. Barrier(op, c) \in Ops
    BY DEF Barrier, Ops
  <1>2. /\ queue' \in Seq(Ops) /\ Len(queue') = n + 1 /\ n \in Nat /\ queue'[n + 1] = Barrier(op, c)
        /\ \A i \in 1..Len(queue') : i \in 1..n \/ i = n + 1
        /\ \A i \in 1..n : i \in 1..Len(queue') /\ queue'[i] = queue[i]
    BY <1>0, <1>1, Enqueues DEF WriteBehind, Shape
  <1>3. /\ \A i \in 1..n : IsSet(queue'[i]) <=> IsSet(queue[i])
        /\ ~IsSet(queue'[n + 1]) /\ queue'[n + 1].by = c
    BY <1>0, <1>2 DEF IsSet, Barrier
  <1>4. /\ pc' \in [Clients -> Places] /\ due' \in [Clients -> [Keys -> Nat]]
        /\ pc'[c] = op /\ due'[c] = latest
        /\ \A d \in Clients \ {c} : pc'[d] = pc[d] /\ due'[d] = due[d]
    BY <1>0 DEF WriteBehind, Shape, Places
  <1>5. Shape'
    BY <1>0, <1>2, <1>4 DEF WriteBehind, Shape
  <1>6. InOrder' /\ Ahead'
    BY <1>0, <1>2, <1>3 DEF WriteBehind, InOrder, Ahead, Newer
  <1>7. ASSUME NEW j, NEW w, NEW p \in 1..n + 1, InFrontOf(p, queue, j, w)
        PROVE  InFrontOf(p, queue', j, w) /\ InFrontOf(n + 2, queue', j, w)
    BY <1>0, <1>2, <1>3, <1>7 DEF InFrontOf
  <1>8. ASSUME NEW p \in 1..n, ~IsSet(queue[p])
        PROVE  /\ queue[p].by \in Clients \ {c}
               /\ pc'[queue[p].by] \in {"flush", "close"}
               /\ \A k \in Keys : OnItsWay(k, due[queue[p].by][k], p)'
    <2>1. /\ queue[p].by \in Clients /\ pc[queue[p].by] \in {"flush", "close"}
          /\ p \in 1..n + 1
      BY <1>0, <1>8, QueueTypes DEF WriteBehind, InFront
    <2>2. queue[p].by \in Clients \ {c}
      BY <2>1
    <2>3. \A k \in Keys : OnItsWay(k, due[queue[p].by][k], p)
      BY <1>0, <1>8 DEF WriteBehind, InFront
    <2>4. due'[queue[p].by] = due[queue[p].by] /\ queue'[p] = queue[p]
      BY <1>2, <1>4, <2>2
    <2> QED
      BY <1>4, <1>7, <2>1, <2>2, <2>3, <2>4 DEF OnItsWay
  <1>9. ASSUME NEW k \in Keys, NEW p \in {n + 1, n + 2}
        PROVE  OnItsWay(k, latest[k], p)'
    <2>1. OnItsWay(k, latest[k], n + 1) /\ n + 1 \in 1..n + 1
      BY <1>0 DEF WriteBehind, InFront
    <2> QED
      BY <1>7, <2>1 DEF OnItsWay
  <1>10. InFront'
    <2>1. Len(queue') + 1 = n + 2
      BY <1>2
    <2>2. \A k \in Keys : OnItsWay(k, latest[k], Len(queue) + 1)'
      BY <1>9, <2>1 DEF OnItsWay
    <2>3. ASSUME NEW p \in 1..Len(queue'), ~IsSet(queue'[p])
          PROVE  /\ pc'[queue'[p].by] \in {"flush", "close"}
                 /\ \A k \in Keys : OnItsWay(k, due[queue[p].by][k], p)'
      <3>1. CASE p \in 1..n
        BY <1>2, <1>3, <1>8, <2>3, <3>1 DEF OnItsWay
      <3>2. CASE p = n + 1
        BY <1>3, <1>4, <1>9, <3>2 DEF OnItsWay
      <3> QED
        BY <1>2, <3>1, <3>2
    <2>4. ASSUME NEW p \in 1..Len(queue'), NEW q \in 1..Len(queue'),
                 ~IsSet(queue'[p]), ~IsSet(queue'[q]), queue'[p].by = queue'[q].by
          PROVE  p = q
      <3>1. \A i, j \in 1..n :
               ~IsSet(queue[i]) /\ ~IsSet(queue[j]) /\ queue[i].by = queue[j].by => i = j
        BY <1>0 DEF WriteBehind, InFront
      <3> QED
        BY <1>2, <1>3, <1>8, <2>4, <3>1
    <2> QED
      BY <2>2, <2>3, <2>4 DEF InFront
  <1>11. BarrierPersists'
    BY <1>0, <1>4 DEF WriteBehind, BarrierPersists
  <1> QED
    BY <1>0, <1>5, <1>6, <1>10, <1>11 DEF WriteBehind

----------------------------------------------------------------------------
(* The writer takes the first operation                                    *)

\* What the writer has in its hands then: its batch, with the set it took.
Taken == IF IsSet(Head(queue)) THEN Collected(Head(queue)) ELSE pending

LEMMA TakenIs ==
    ASSUME WriteBehind, queue # <<>>
    PROVE  /\ Taken \in Seq(Entries) /\ Rising(Taken)
           /\ \A i \in 1..Len(Taken) : Newer(Taken[i])
           /\ \A i \in 1..Len(Taken), j \in 2..Len(queue) :
                 IsSet(queue[j]) => Taken[i].value < queue[j].entry.value
           /\ \A k, v : InBatch(pending, k, v) => InBatch(Taken, k, v)
           /\ \A k, v : IsSet(queue[1]) /\ queue[1].entry = Entry(k, v) => InBatch(Taken, k, v)
  <1>0. PICK n \in Nat, m \in Nat : n = Len(queue) /\ m = Len(pending)
    BY DEF WriteBehind, Shape
  <1>1. /\ n \in Nat \ {0} /\ Head(queue) = queue[1] /\ pending \in Seq(Entries)
        /\ 1 \in 1..n
    BY <1>0 DEF WriteBehind, Shape
  <1>2. /\ \A i, j \in 1..m : i < j => pending[i].value < pending[j].value
        /\ \A i \in 1..m, j \in 1..n :
              IsSet(queue[j]) => pending[i].value < queue[j].entry.value
        /\ \A i, j \in 1..n : i < j /\ IsSet(queue[i]) /\ IsSet(queue[j]) =>
              queue[i].entry.value < queue[j].entry.value
        /\ \A i \in 1..m : Newer(pending[i])
        /\ IsSet(queue[1]) => Newer(queue[1].entry)
    BY <1>0, <1>1 DEF WriteBehind, InOrder, Ahead
  <1>3. CASE ~IsSet(queue[1])
    <2>1. Taken = pending
      BY <1>1, <1>3 DEF Taken
    <2>2. 2..n \subseteq 1..n
      BY <1>1
    <2> QED
      BY <1>0, <1>1, <1>2, <1>3, <2>1, <2>2 DEF Rising
  <1>4. CASE IsSet(queue[1])
    <2> DEFINE e == queue[1].entry
    <2>1. e \in Entries /\ Taken = Append(pending, e)
      BY <1>0, <1>1, <1>4, QueueTypes DEF WriteBehind, Taken, Collected
    <2>2. /\ Taken \in Seq(Entries) /\ Len(Taken) = m + 1 /\ Taken[m + 1] = e
          /\ \A i \in 1..m : Taken[i] = pending[i]
      BY <1>0, <1>1, <2>1, AppendProperties
    <2>3. \A i \in 1..Len(Taken) : (i \in 1..m /\ Taken[i] = pending[i]) \/ (i = m + 1 /\ Taken[i] = e)
      BY <2>2
    <2> HIDE DEF e
    <2>4. \A i \in 1..m : pending[i].value < e.value
      BY <1>1, <1>2, <1>4 DEF e
    <2>5. Rising(Taken)
      <3> SUFFICES ASSUME NEW i \in 1..Len(Taken), NEW j \in 1..Len(Taken), i < j
                   PROVE  Taken[i].value < Taken[j].value
        BY DEF Rising
      <3>1. i \in 1..m /\ Taken[i] = pending[i]
        BY <2>2, <2>3
      <3> QED
        BY <1>2, <2>3, <2>4, <3>1
    <2>6. \A i \in 1..Len(Taken) : Newer(Taken[i])
      BY <1>2, <1>4, <2>3 DEF e
    <2>7. ASSUME NEW i \in 1..Len(Taken), NEW j \in 2..n, IsSet(queue[j])
          PROVE  Taken[i].value < queue[j].entry.value
      <3>1. j \in 1..n /\ 1 < j
        BY <1>1
      <3>2. e.value < queue[j].entry.value
        BY <1>1, <1>2, <1>4, <2>7, <3>1 DEF e
      <3> QED
        BY <1>2, <2>3, <2>7, <3>1, <3>2
    <2>8. \A i \in 1..m : i \in 1..Len(Taken)
      BY <2>2
    <2>9. \A k, v : InBatch(pending, k, v) => InBatch(Taken, k, v)
      BY <1>0, <2>2, <2>8 DEF InBatch
    <2>10. \A k, v : e = Entry(k, v) => InBatch(Taken, k, v)
      BY <2>2 DEF InBatch
    <2> QED
      BY <1>0, <2>2, <2>5, <2>6, <2>7, <2>9, <2>10 DEF e
  <1> QED
    BY <1>3, <1>4

\* Everything else moves up by one place.
LEMMA MovesUp ==
    ASSUME WriteBehind, queue # <<>>, queue' = Tail(queue)
    PROVE  /\ queue' \in Seq(Ops) /\ Len(queue) \in Nat \ {0} /\ Len(queue') = Len(queue) - 1
           /\ \A i \in 1..Len(queue') : i + 1 \in 2..Len(queue) /\ queue'[i] = queue[i + 1]
           /\ \A k, v : \A p \in Nat : InFrontOf(p + 1, queue, k, v) =>
                 InBatch(Taken, k, v) \/ InFrontOf(p, queue', k, v)
  <1>0. PICK n \in Nat : n = Len(queue)
    BY DEF WriteBehind, Shape
  <1>1. /\ queue' \in Seq(Ops) /\ n \in Nat \ {0} /\ Len(queue') = n - 1
        /\ \A i \in 1..n - 1 : queue'[i] = queue[i + 1]
    BY <1>0, HeadTailProperties DEF WriteBehind, Shape
  <1>2. \A i \in 1..n - 1 : i + 1 \in 2..n
    BY <1>1
  <1>3. ASSUME NEW k, NEW v, NEW p \in Nat, InFrontOf(p + 1, queue, k, v)
        PROVE  InBatch(Taken, k, v) \/ InFrontOf(p, queue', k, v)
    <2>1. PICK i \in 1..n : i < p + 1 /\ IsSet(queue[i]) /\ queue[i].entry = Entry(k, v)
      BY <1>0, <1>3 DEF InFrontOf
    <2>2. CASE i = 1
      BY <2>1, <2>2, TakenIs
    <2>3. CASE i # 1
      <3>1. i - 1 \in 1..n - 1 /\ i - 1 < p /\ (i - 1) + 1 = i
        BY <1>1, <2>1, <2>3
      <3>2. queue'[i - 1] = queue[i]
        BY <1>1, <3>1
      <3> QED
        BY <1>1, <2>1, <3>1, <3>2 DEF InFrontOf
    <2> QED
      BY <2>2, <2>3
  <1> QED
    BY <1>0, <1>1, <1>2, <1>3

LEMMA CollectKeeps ==
    ASSUME WriteBehind, queue # <<>>, IsSet(Head(queue)), queue' = Tail(queue),
           pending' = Taken, UNCHANGED <<db, dropped, pc, sets, latest, due>>
    PROVE  WriteBehind'
  <1>0. PICK n \in Nat, m \in Nat : n = Len(queue) /\ m = Len(queue')
    <2>1. Len(queue) \in Nat \ {0} /\ Len(queue') = Len(queue) - 1
      BY MovesUp
    <2>2. Len(queue) \in Nat /\ Len(queue') \in Nat
      BY <2>1
    <2> QED
      BY <2>2
  <1>1. /\ queue' \in Seq(Ops) /\ n \in Nat \ {0} /\ m = n - 1
        /\ \A i \in 1..m : i + 1 \in 2..n /\ i + 1 \in 1..n /\ queue'[i] = queue[i + 1]
    BY <1>0, MovesUp
  <1>2. Shape'
    BY <1>1, TakenIs DEF WriteBehind, Shape
  <1>3. InOrder'
    <2>1. \A i, j \in 1..Len(pending') : i < j => pending'[i].value < pending'[j].value
      BY TakenIs DEF Rising
    <2>2. \A i \in 1..Len(pending'), j \in 1..m :
             IsSet(queue'[j]) => pending'[i].value < queue'[j].entry.value
      BY <1>0, <1>1, TakenIs
    <2>3. \A i, j \in 1..n : i < j /\ IsSet(queue[i]) /\ IsSet(queue[j]) =>
              queue[i].entry.value < queue[j].entry.value
      BY <1>0 DEF WriteBehind, InOrder
    <2>4. ASSUME NEW i \in 1..m, NEW j \in 1..m, i < j, IsSet(queue'[i]), IsSet(queue'[j])
          PROVE  queue'[i].entry.value < queue'[j].entry.value
      <3>1. i + 1 < j + 1
        BY <2>4
      <3> QED
        BY <1>1, <2>3, <2>4, <3>1
    <2> QED
      BY <1>0, <2>1, <2>2, <2>4 DEF InOrder
  <1>4. Ahead'
    <2>1. \A i \in 1..Len(pending') : Newer(pending[i])'
      BY TakenIs DEF Newer
    <2>2. \A i \in 1..n : IsSet(queue[i]) => Newer(queue[i].entry)
      BY <1>0 DEF WriteBehind, Ahead
    <2>3. \A i \in 1..m : IsSet(queue'[i]) => Newer(queue[i].entry)'
      BY <1>1, <2>2 DEF Newer
    <2> QED
      BY <1>0, <2>1, <2>3 DEF WriteBehind, Ahead
  <1>5. ASSUME NEW k, NEW v, NEW p \in Nat,
               \/ InTable(db, dropped, k, v) \/ InBatch(pending, k, v)
               \/ InFrontOf(p + 1, queue, k, v)
        PROVE  OnItsWay(k, v, p)'
    BY <1>5, MovesUp, TakenIs DEF OnItsWay
  <1>6. InFront'
    <2>1. ASSUME NEW k \in Keys PROVE OnItsWay(k, latest[k], Len(queue) + 1)'
      <3>1. OnItsWay(k, latest[k], n + 1) /\ n \in Nat /\ Len(queue') + 1 = n
        BY <1>0, <1>1 DEF WriteBehind, InFront
      <3> QED
        BY <1>5, <3>1 DEF OnItsWay
    <2>2. /\ \A p \in 1..n : ~IsSet(queue[p]) =>
                /\ pc[queue[p].by] \in {"flush", "close"}
                /\ \A k \in Keys : OnItsWay(k, due[queue[p].by][k], p)
          /\ \A p, q \in 1..n :
                ~IsSet(queue[p]) /\ ~IsSet(queue[q]) /\ queue[p].by = queue[q].by => p = q
      BY <1>0 DEF WriteBehind, InFront
    <2>3. ASSUME NEW p \in 1..m, ~IsSet(queue'[p])
          PROVE  /\ pc'[queue'[p].by] \in {"flush", "close"}
                 /\ \A k \in Keys : OnItsWay(k, due[queue[p].by][k], p)'
      <3>8. p \in Nat
        OBVIOUS
      <3>9. p + 1 \in 1..n /\ queue'[p] = queue[p + 1]
        BY <1>1
      <3>1. p \in Nat /\ p + 1 \in 1..n /\ queue'[p] = queue[p + 1]
        BY <3>8, <3>9
      <3> QED
        <4>1. pc[queue[p + 1].by] \in {"flush", "close"}
          BY <2>2, <2>3, <3>1
        <4>2. ASSUME NEW k \in Keys PROVE OnItsWay(k, due[queue[p].by][k], p)'
          <5>1. PICK w : w = due[queue[p + 1].by][k]
            OBVIOUS
          <5>2. OnItsWay(k, w, p + 1)
            BY <2>2, <2>3, <3>1, <5>1
          <5>3. OnItsWay(k, w, p)'
            BY <1>5, <3>1, <5>2 DEF OnItsWay
          <5>4. w = due'[queue'[p].by][k]
            BY <3>1, <5>1
          <5> QED
            BY <5>3, <5>4 DEF OnItsWay
        <4> QED
          BY <3>1, <4>1, <4>2
    <2>4. ASSUME NEW p \in 1..m, NEW q \in 1..m,
                 ~IsSet(queue'[p]), ~IsSet(queue'[q]), queue'[p].by = queue'[q].by
          PROVE  p = q
      <3>1. p + 1 = q + 1
        BY <1>1, <2>2, <2>4
      <3> QED
        BY <3>1
    <2> QED
      BY <1>0, <2>1, <2>3, <2>4 DEF InFront
  <1>7. BarrierPersists'
    BY DEF WriteBehind, BarrierPersists
  <1> QED
    BY <1>2, <1>3, <1>4, <1>6, <1>7 DEF WriteBehind

\* The writer has nothing left in its hands: its batch went through.
LEMMA ClearKeeps ==
    ASSUME WriteBehind, queue # <<>>, queue' = Tail(queue), pending' = <<>>, Through(Taken),
           UNCHANGED <<sets, latest, due>>,
           \/ pc' = pc
           \/ /\ ~IsSet(Head(queue))
              /\ \E to \in {"flushed", "joined"} : pc' = [pc EXCEPT ![Head(queue).by] = to]
    PROVE  WriteBehind' /\ \A k \in Keys : db[k] <= db'[k]
  <1>0. PICK n \in Nat, m \in Nat : n = Len(queue) /\ m = Len(queue')
    <2>1. Len(queue) \in Nat \ {0} /\ Len(queue') = Len(queue) - 1
      BY MovesUp
    <2>2. Len(queue) \in Nat /\ Len(queue') \in Nat
      BY <2>1
    <2> QED
      BY <2>2
  <1>1. /\ queue' \in Seq(Ops) /\ n \in Nat \ {0} /\ m = n - 1
        /\ \A i \in 1..m : i + 1 \in 2..n /\ i + 1 \in 1..n /\ queue'[i] = queue[i + 1]
    BY <1>0, MovesUp
  <1>2. Head(queue) = queue[1] /\ 1 \in 1..n
    BY <1>0, <1>1 DEF WriteBehind, Shape
  <1>3. /\ pending' \in Seq(Entries) /\ Len(pending') = 0
        /\ \A i \in 1..n : IsSet(queue[i]) => queue[i].entry.key \in Keys
                                             /\ queue[i].entry.value \in Nat
        /\ \A i \in 1..n : ~IsSet(queue[i]) => queue[i].by \in Clients
        /\ \A i \in 1..Len(Taken) : Taken[i].key \in Keys /\ Taken[i].value \in Nat
        /\ db \in [Keys -> Nat] /\ db' \in [Keys -> Nat] /\ sets \in Nat
        /\ pc \in [Clients -> Places]
    BY <1>0, QueueTypes, TakenIs, BatchTypes DEF WriteBehind, Shape, Through
  <1>4. /\ pc' \in [Clients -> Places]
        /\ \A c \in Clients : \/ pc'[c] = pc[c]
                              \/ /\ ~IsSet(queue[1]) /\ c = queue[1].by
                                 /\ pc'[c] \in {"flushed", "joined"}
    BY <1>2, <1>3, ZenonT(30) DEF Places
  <1>5. Shape'
    BY <1>1, <1>3, <1>4 DEF WriteBehind, Shape
  <1>6. InOrder'
    <2>1. \A i, j \in 1..n : i < j /\ IsSet(queue[i]) /\ IsSet(queue[j]) =>
              queue[i].entry.value < queue[j].entry.value
      BY <1>0 DEF WriteBehind, InOrder
    <2>2. ASSUME NEW i \in 1..m, NEW j \in 1..m, i < j, IsSet(queue'[i]), IsSet(queue'[j])
          PROVE  queue'[i].entry.value < queue'[j].entry.value
      <3>1. i + 1 < j + 1
        BY <2>2
      <3> QED
        BY <1>1, <2>1, <2>2, <3>1
    <2> QED
      BY <1>0, <1>3, <2>2 DEF InOrder
  <1>7. ASSUME NEW k \in Keys
        PROVE  /\ db[k] <= db'[k] /\ db'[k] <= sets
               /\ \A i \in 1..m : IsSet(queue'[i]) /\ queue'[i].entry.key = k =>
                     db'[k] < queue'[i].entry.value
    <2>1. /\ db[k] <= sets
          /\ \A i \in 1..n : IsSet(queue[i]) => Newer(queue[i].entry)
      BY <1>0 DEF WriteBehind, Ahead
    <2>2. db[k] <= db'[k]
      BY DEF Through
    <2>3. CASE db'[k] = db[k]
      <3>1. ASSUME NEW j \in 1..m, IsSet(queue'[j]), queue'[j].entry.key = k
            PROVE  db'[k] < queue'[j].entry.value
        <4>1. j + 1 \in 1..n /\ queue'[j] = queue[j + 1]
          BY <1>1
        <4> QED
          BY <2>1, <2>3, <3>1, <4>1 DEF Newer
      <3> QED
        BY <2>1, <2>2, <2>3, <3>1
    <2>4. ASSUME NEW i \in 1..Len(Taken), Taken[i].key = k, db'[k] = Taken[i].value
          PROVE  /\ db'[k] <= sets
                 /\ \A j \in 1..m : IsSet(queue'[j]) /\ queue'[j].entry.key = k =>
                       db'[k] < queue'[j].entry.value
      <3>1. Newer(Taken[i])
        BY TakenIs
      <3>2. \A j \in 2..n : IsSet(queue[j]) => Taken[i].value < queue[j].entry.value
        BY <1>0, TakenIs
      <3> QED
        BY <1>1, <2>4, <3>1, <3>2 DEF Newer
    <2> QED
      BY <2>2, <2>3, <2>4 DEF Through
  <1>8. Ahead'
    <2>1. \A i \in 1..n : IsSet(queue[i]) => queue[i].entry.value <= sets
      BY <1>0 DEF WriteBehind, Ahead, Newer
    <2>2. ASSUME NEW i \in 1..m, IsSet(queue'[i]) PROVE Newer(queue[i].entry)'
      <3>1. IsSet(queue[i + 1]) /\ i + 1 \in 1..n /\ queue'[i] = queue[i + 1]
        BY <1>1, <2>2
      <3>2. queue'[i].entry.key \in Keys /\ queue'[i].entry.value <= sets
        BY <1>3, <2>1, <3>1
      <3> QED
        BY <1>7, <2>2, <3>2 DEF Newer
    <2> QED
      BY <1>0, <1>3, <1>7, <2>2 DEF Ahead
  <1>9. ASSUME NEW k \in Keys, NEW v \in Nat, InBatch(Taken, k, v) \/ InTable(db, dropped, k, v)
        PROVE  InTable(db', dropped', k, v)
    <2>1. CASE InBatch(Taken, k, v)
      <3>1. PICK i \in 1..Len(Taken) : Taken[i] = Entry(k, v)
        BY <2>1 DEF InBatch
      <3>2. Taken[i].key = k /\ Taken[i].value = v
        BY <3>1 DEF Entry
      <3> QED
        BY <3>2 DEF Through, InTable
    <2>2. CASE InTable(db, dropped, k, v)
      BY <1>3, <1>7, <2>2 DEF Through, InTable
    <2> QED
      BY <1>9, <2>1, <2>2
  <1>10. ASSUME NEW k \in Keys, NEW v \in Nat, NEW p \in Nat, OnItsWay(k, v, p + 1)
         PROVE  InTable(db', dropped', k, v) \/ InFrontOf(p, queue', k, v)
    BY <1>9, <1>10, MovesUp, TakenIs DEF OnItsWay
  <1>11. \A c \in Clients, k \in Keys : due[c][k] \in Nat /\ latest[k] \in Nat
    BY DEF WriteBehind, Shape
  <1>12. /\ \A p \in 1..n : ~IsSet(queue[p]) =>
               /\ pc[queue[p].by] \in {"flush", "close"}
               /\ \A k \in Keys : OnItsWay(k, due[queue[p].by][k], p)
         /\ \A p, q \in 1..n :
               ~IsSet(queue[p]) /\ ~IsSet(queue[q]) /\ queue[p].by = queue[q].by => p = q
    BY <1>0 DEF WriteBehind, InFront
  <1>13. InFront'
    <2>1. ASSUME NEW k \in Keys PROVE OnItsWay(k, latest[k], Len(queue) + 1)'
      <3>1. PICK v \in Nat : v = latest[k]
        BY DEF WriteBehind, Shape
      <3>2. OnItsWay(k, v, n + 1) /\ Len(queue') + 1 = n
        BY <1>0, <1>1, <3>1 DEF WriteBehind, InFront
      <3>3. InTable(db', dropped', k, v) \/ InFrontOf(n, queue', k, v)
        BY <1>10, <3>2
      <3> QED
        BY <3>1, <3>2, <3>3 DEF OnItsWay
    <2>2. ASSUME NEW p \in 1..m, ~IsSet(queue'[p])
          PROVE  /\ pc'[queue'[p].by] \in {"flush", "close"}
                 /\ \A k \in Keys : OnItsWay(k, due[queue[p].by][k], p)'
      <3>1. p \in Nat /\ p + 1 # 1 /\ p \in 1..m
        OBVIOUS
      <3>2. p + 1 \in 1..n /\ queue'[p] = queue[p + 1]
        BY <1>1, <3>1
      <3>3. ~IsSet(queue[p + 1]) /\ queue'[p].by \in Clients
        BY <1>3, <2>2, <3>2
      <3>4. pc'[queue'[p].by] \in {"flush", "close"}
        <4>1. ~(~IsSet(queue[1]) /\ queue'[p].by = queue[1].by)
          BY <1>2, <1>12, <3>1, <3>2, <3>3
        <4> QED
          BY <1>4, <1>12, <3>2, <3>3, <4>1
      <3>5. ASSUME NEW k \in Keys PROVE OnItsWay(k, due[queue[p].by][k], p)'
        <4>1. PICK v \in Nat : v = due[queue[p + 1].by][k]
          BY <1>11, <3>2, <3>3
        <4>2. InTable(db', dropped', k, v) \/ InFrontOf(p, queue', k, v)
          BY <1>10, <1>12, <3>1, <3>2, <3>3, <4>1
        <4>3. v = due'[queue'[p].by][k]
          BY <3>2, <4>1
        <4> QED
          BY <4>2, <4>3 DEF OnItsWay
      <3> QED
        BY <3>4, <3>5
    <2>3. ASSUME NEW p \in 1..m, NEW q \in 1..m,
                 ~IsSet(queue'[p]), ~IsSet(queue'[q]), queue'[p].by = queue'[q].by
          PROVE  p = q
      <3>1. /\ p + 1 \in 1..n /\ queue'[p] = queue[p + 1]
            /\ q + 1 \in 1..n /\ queue'[q] = queue[q + 1]
        BY <1>1
      <3>2. p + 1 = q + 1
        BY <1>12, <2>3, <3>1
      <3> QED
        BY <3>2
    <2> QED
      BY <1>0, <2>1, <2>2, <2>3 DEF InFront
  <1>14. BarrierPersists'
    <2> SUFFICES ASSUME NEW c \in Clients, pc'[c] \in {"flushed", "joined"}, NEW k \in Keys
                 PROVE  due[c][k] \in dropped' \/ db'[k] >= due[c][k]
      BY DEF BarrierPersists
    <2>1. InTable(db, dropped, k, due[c][k]) \/ InBatch(Taken, k, due[c][k])
      <3>1. CASE pc'[c] = pc[c]
        <4>1. due[c][k] \in dropped \/ db[k] >= due[c][k]
          BY <3>1 DEF WriteBehind, BarrierPersists
        <4> QED
          BY <1>3, <1>11, <4>1 DEF InTable
      <3>2. CASE ~IsSet(queue[1]) /\ c = queue[1].by
        <4>1. OnItsWay(k, due[c][k], 1)
          BY <1>2, <1>12, <3>2
        <4>2. ~InFrontOf(1, queue, k, due[c][k])
          BY DEF InFrontOf
        <4> QED
          BY <4>1, <4>2, TakenIs DEF OnItsWay
      <3> QED
        BY <1>4, <3>1, <3>2
    <2>2. InTable(db', dropped', k, due[c][k])
      BY <1>9, <1>11, <2>1
    <2> QED
      BY <1>3, <1>11, <2>2 DEF InTable
  <1> QED
    BY <1>5, <1>6, <1>7, <1>8, <1>13, <1>14 DEF WriteBehind

----------------------------------------------------------------------------
(* The invariant is kept                                                   *)

LEMMA WriteGoesThrough ==
    ASSUME WriteBehind, queue # <<>>, Write(Taken)
    PROVE  Through(Taken)
  BY TakenIs, WriteIsThrough DEF WriteBehind

LEMMA WriterKeeps ==
    ASSUME WriteBehind, WriterTakes
    PROVE  WriteBehind' /\ \A k \in Keys : db[k] <= db'[k]
  <1>1. queue # <<>> /\ queue' = Tail(queue) /\ UNCHANGED <<sets, latest, due>>
    BY DEF WriterTakes, WriterHasTurn
  <1>2. \A k \in Keys : db[k] \in Nat
    BY DEF WriteBehind, Shape
  <1>3. CASE IsSet(Head(queue)) /\ Collect(Head(queue))
    <2>1. Taken = Collected(Head(queue)) /\ pc' = pc
      BY <1>3 DEF Taken, Collect
    <2>2. CASE pending' = Taken /\ UNCHANGED <<db, dropped>>
      BY <1>1, <1>2, <1>3, <2>1, <2>2, CollectKeeps
    <2>3. CASE Write(Taken)
      <3>1. pending' = <<>>
        BY <2>3 DEF Write
      <3> QED
        BY <1>1, <2>1, <2>3, <3>1, WriteGoesThrough, ClearKeeps
    <2> QED
      BY <1>3, <2>1, <2>2, <2>3 DEF Collect
  <1>4. CASE ~IsSet(Head(queue)) /\ ReachBarrier(Head(queue))
    <2>1. Taken = pending
      BY <1>4 DEF Taken
    <2>2. pending' = <<>> /\ Through(Taken)
      <3>1. CASE pending = <<>> /\ UNCHANGED <<pending, db, dropped>>
        <4>1. Len(pending) = 0 /\ db \in [Keys -> Nat]
          BY <3>1 DEF WriteBehind, Shape
        <4> QED
          BY <1>2, <2>1, <3>1, <4>1 DEF Through
      <3>2. CASE Write(pending)
        BY <1>1, <2>1, <3>2, WriteGoesThrough DEF Write
      <3> QED
        BY <1>4, <3>1, <3>2 DEF ReachBarrier
    <2>3. \E to \in {"flushed", "joined"} : pc' = [pc EXCEPT ![Head(queue).by] = to]
      BY <1>4 DEF ReachBarrier, SetEvent
    <2> QED
      BY <1>1, <1>4, <2>2, <2>3, ClearKeeps
  <1> QED
    BY <1>3, <1>4 DEF WriterTakes, IsSet

LEMMA DyingKeeps ==
    ASSUME WriteBehind, WriterDies
    PROVE  WriteBehind' /\ \A k \in Keys : db[k] <= db'[k]
  <1>1. /\ queue # <<>> /\ queue' = Tail(queue) /\ pending' = <<>>
        /\ UNCHANGED <<db, pc, sets, latest, due>>
        /\ dropped' = dropped \cup ValuesOf(Taken)
    BY DEF WriterDies, WriterHasTurn, Taken, IsSet
  <1>2. Through(Taken)
    <2>1. DOMAIN Taken = 1..Len(Taken) /\ db \in [Keys -> Nat]
      BY <1>1, TakenIs, BatchTypes DEF WriteBehind, Shape
    <2>2. \A i \in 1..Len(Taken) : Taken[i].value \in dropped'
      BY <1>1, <2>1 DEF ValuesOf
    <2> QED
      BY <1>1, <2>1, <2>2 DEF Through
  <1> QED
    BY <1>1, <1>2, ClearKeeps

\* A new process finds the table, and nothing is on its way.
LEMMA NewLifeKeeps ==
    ASSUME WriteBehind, NewLife
    PROVE  WriteBehind' /\ db' = db
  <1>1. /\ queue' = <<>> /\ pending' = <<>> /\ Len(queue') = 0 /\ Len(pending') = 0
        /\ queue' \in Seq(Ops) /\ pending' \in Seq(Entries)
        /\ latest' = db /\ db' = db /\ sets' = sets /\ dropped' = dropped
        /\ pc' = [c \in Clients |-> "free"]
        /\ due' = [c \in Clients |-> [k \in Keys |-> 0]]
    BY DEF NewLife
  <1>2. db \in [Keys -> Nat] /\ sets \in Nat /\ \A k \in Keys : db[k] <= sets
    BY DEF WriteBehind, Shape, Ahead
  <1>3. Shape'
    BY <1>1, <1>2 DEF Shape, Places
  <1>4. InOrder' /\ Ahead'
    BY <1>1, <1>2 DEF InOrder, Ahead
  <1>5. InFront'
    <2>1. \A k \in Keys : latest'[k] <= db'[k]
      BY <1>1, <1>2
    <2> QED
      BY <1>1, <2>1 DEF InFront, OnItsWay, InTable
  <1>6. BarrierPersists'
    BY <1>1 DEF BarrierPersists
  <1> QED
    BY <1>1, <1>3, <1>4, <1>5, <1>6 DEF WriteBehind

LEMMA StepKeeps ==
    ASSUME WriteBehind, [Next]_vars
    PROVE  WriteBehind' /\ \A k \in Keys : db[k] <= db'[k]
  <1>1. db \in [Keys -> Nat] /\ pc \in [Clients -> Places]
    BY DEF WriteBehind, Shape
  <1>2. CASE Elsewhere
    BY <1>1, <1>2, ElsewhereKeeps DEF Elsewhere
  <1>3. ASSUME NEW k \in Keys, Get(k) PROVE Elsewhere
    BY <1>3 DEF Get, Elsewhere
  <1>4. ASSUME NEW k \in Keys, Set(k) PROVE WriteBehind' /\ db' = db
    BY <1>4, SetKeeps DEF Set
  <1>5. ASSUME NEW c \in Clients, Flush(c) PROVE WriteBehind' /\ db' = db
    BY <1>5, BarrierKeeps DEF Flush, Enqueued
  <1>6. ASSUME NEW c \in Clients, Close(c) PROVE (WriteBehind' /\ db' = db) \/ Elsewhere
    <2>1. CASE writer = "none"
      BY <1>6, <2>1 DEF Close, Elsewhere
    <2>2. CASE writer # "none"
      BY <1>6, <2>2, BarrierKeeps DEF Close, Enqueued
    <2> QED
      BY <2>1, <2>2
  <1>7. ASSUME NEW c \in Clients, Return(c) PROVE Elsewhere
    BY <1>7 DEF Return, FlushReturns, CloseReturns, Elsewhere, memVars, histVars
  <1>8. CASE Exit
    BY <1>2, <1>8 DEF Exit, Elsewhere, memVars, histVars
  <1>9. CASE Crash \/ Restart
    BY <1>1, <1>9, NewLifeKeeps DEF Crash, Restart
  <1>10. CASE UNCHANGED vars
    BY <1>2, <1>10 DEF Elsewhere, vars, memVars, histVars
  <1>11. \A k \in Keys : db[k] \in Nat
    BY <1>1
  <1> QED
    BY <1>2, <1>3, <1>4, <1>5, <1>6, <1>7, <1>8, <1>9, <1>10, <1>11, WriterKeeps, DyingKeeps
       DEF Next

----------------------------------------------------------------------------
(* What is not written yet                                                 *)

Distinct(entries) == \A i, j \in 1..Len(entries) : entries[i].key = entries[j].key => i = j

Waiting(k) == \E e \in Unwritten : e.key = k
Nothing    == queue = <<>> /\ pending = <<>>

LEMMA UnwrittenIs ==
    Shape => \A e : e \in Unwritten <=> \/ \E i \in 1..Len(pending) : e = pending[i]
                                        \/ \E j \in 1..Len(queue) :
                                              IsSet(queue[j]) /\ e = queue[j].entry
  <1> SUFFICES ASSUME Shape
               PROVE  \A e : e \in Unwritten <=> \/ \E i \in 1..Len(pending) : e = pending[i]
                                                 \/ \E j \in 1..Len(queue) :
                                                       IsSet(queue[j]) /\ e = queue[j].entry
    OBVIOUS
  <1>1. DOMAIN pending = 1..Len(pending) /\ DOMAIN queue = 1..Len(queue)
    BY DEF Shape
  <1> QED
    BY <1>1 DEF Unwritten, QueuedSets, IsSet

LEMMA UnwrittenNext ==
    Shape' => \A e : e \in Unwritten' <=> \/ \E i \in 1..Len(pending') : e = pending'[i]
                                          \/ \E j \in 1..Len(queue') :
                                                IsSet(queue'[j]) /\ e = queue'[j].entry
  <1> SUFFICES ASSUME Shape'
               PROVE  \A e : e \in Unwritten' <=> \/ \E i \in 1..Len(pending') : e = pending'[i]
                                                 \/ \E j \in 1..Len(queue') :
                                                       IsSet(queue'[j]) /\ e = queue'[j].entry
    OBVIOUS
  <1>1. DOMAIN pending' = 1..Len(pending') /\ DOMAIN queue' = 1..Len(queue')
    BY DEF Shape
  <1> QED
    BY <1>1 DEF Unwritten, QueuedSets, IsSet

LEMMA UnwrittenTypes ==
    ASSUME WriteBehind, NEW e \in Unwritten
    PROVE  e.key \in Keys /\ e.value \in Nat /\ db[e.key] < e.value /\ e.value <= sets
  <1>1. CASE \E i \in 1..Len(pending) : e = pending[i]
    BY <1>1, BatchTypes DEF WriteBehind, Shape, Ahead, Newer
  <1>2. CASE \E j \in 1..Len(queue) : IsSet(queue[j]) /\ e = queue[j].entry
    BY <1>2, QueueTypes DEF WriteBehind, Ahead, Newer
  <1> QED
    BY <1>1, <1>2, UnwrittenIs DEF WriteBehind

\* set adds one entry, a barrier none; what the writer takes was there before, and what it
\* leaves too.
LEMMA SetAdds ==
    ASSUME WriteBehind, WriteBehind', NEW k \in Keys, NEW v \in Values, pending' = pending,
           queue' = Append(queue, SetOp(k, v))
    PROVE  \A e : e \in Unwritten' <=> e \in Unwritten \/ e = Entry(k, v)
  <1>1. SetOp(k, v) \in Ops /\ IsSet(SetOp(k, v)) /\ SetOp(k, v).entry = Entry(k, v)
    BY DEF SetOp, Entry, Entries, Ops, IsSet
  <1>2. PICK n \in Nat : n = Len(queue)
    BY DEF WriteBehind, Shape
  <1>3. /\ Len(queue') = n + 1 /\ queue'[n + 1] = SetOp(k, v)
        /\ \A i \in 1..Len(queue') : i \in 1..n \/ i = n + 1
        /\ \A i \in 1..n : i \in 1..Len(queue') /\ queue'[i] = queue[i]
        /\ n + 1 \in 1..Len(queue')
    BY <1>1, <1>2, Enqueues DEF WriteBehind, Shape
  <1>4. ASSUME NEW e PROVE e \in Unwritten' <=> e \in Unwritten \/ e = Entry(k, v)
    BY <1>1, <1>2, <1>3, UnwrittenIs, UnwrittenNext DEF WriteBehind
  <1> QED
    BY <1>4

LEMMA BarrierAddsNone ==
    ASSUME WriteBehind, WriteBehind', NEW c \in Clients, NEW op \in {"flush", "close"},
           pending' = pending, queue' = Append(queue, Barrier(op, c))
    PROVE  \A e : e \in Unwritten' <=> e \in Unwritten
  <1>1. Barrier(op, c) \in Ops /\ ~IsSet(Barrier(op, c))
    BY DEF Barrier, Ops, IsSet
  <1>2. PICK n \in Nat : n = Len(queue)
    BY DEF WriteBehind, Shape
  <1>3. /\ Len(queue') = n + 1 /\ queue'[n + 1] = Barrier(op, c)
        /\ \A i \in 1..Len(queue') : i \in 1..n \/ i = n + 1
        /\ \A i \in 1..n : i \in 1..Len(queue') /\ queue'[i] = queue[i]
    BY <1>1, <1>2, Enqueues DEF WriteBehind, Shape
  <1>4. ASSUME NEW e PROVE e \in Unwritten' <=> e \in Unwritten
    BY <1>1, <1>2, <1>3, UnwrittenIs, UnwrittenNext DEF WriteBehind
  <1> QED
    BY <1>4

LEMMA TakenWasWaiting ==
    ASSUME WriteBehind, queue # <<>>
    PROVE  \A i \in 1..Len(Taken) : Taken[i] \in Unwritten
  <1>1. PICK n \in Nat \ {0} : n = Len(queue)
    BY DEF WriteBehind, Shape
  <1>2. Head(queue) = queue[1] /\ 1 \in 1..n
    BY <1>1 DEF WriteBehind, Shape
  <1>3. CASE ~IsSet(queue[1])
    BY <1>2, <1>3, UnwrittenIs DEF Taken, WriteBehind
  <1>4. CASE IsSet(queue[1])
    <2>1. PICK e \in Entries : e = queue[1].entry
      BY <1>1, <1>2, <1>4, QueueTypes DEF WriteBehind
    <2>2. Taken = Append(pending, e)
      BY <1>2, <1>4, <2>1 DEF Taken, Collected
    <2>3. PICK m \in Nat : m = Len(pending)
      BY DEF WriteBehind, Shape
    <2>4. /\ Len(Taken) = m + 1 /\ Taken[m + 1] = e
          /\ \A i \in 1..m : Taken[i] = pending[i]
      BY <2>2, <2>3, AppendProperties DEF WriteBehind, Shape
    <2>5. e \in Unwritten /\ \A i \in 1..m : pending[i] \in Unwritten
      BY <1>1, <1>2, <1>4, <2>1, <2>3, UnwrittenIs DEF WriteBehind
    <2> QED
      BY <2>3, <2>4, <2>5
  <1> QED
    BY <1>3, <1>4

LEMMA TakingLeaves ==
    ASSUME WriteBehind, WriteBehind', queue # <<>>, queue' = Tail(queue),
           pending' = <<>> \/ pending' = Taken
    PROVE  \A e : e \in Unwritten' => e \in Unwritten
  <1> SUFFICES ASSUME NEW e, e \in Unwritten' PROVE e \in Unwritten
    OBVIOUS
  <1>1. CASE \E i \in 1..Len(pending') : e = pending'[i]
    <2>1. Len(<<>>) = 0
      OBVIOUS
    <2> QED
      BY <1>1, <2>1, TakenWasWaiting
  <1>2. ASSUME NEW j \in 1..Len(queue'), IsSet(queue'[j]), e = queue'[j].entry
        PROVE  e \in Unwritten
    <2>1. j + 1 \in 2..Len(queue) /\ queue'[j] = queue[j + 1] /\ Len(queue) \in Nat
      BY MovesUp
    <2>2. j + 1 \in 1..Len(queue)
      BY <2>1
    <2> QED
      BY <1>2, <2>1, <2>2, UnwrittenIs DEF WriteBehind
  <1> QED
    BY <1>1, <1>2, UnwrittenNext DEF WriteBehind

----------------------------------------------------------------------------
(* What the LRU answers                                                    *)

\* The last value for a key, when entries have one entry for a key at most.
LEMMA LastOf ==
    ASSUME NEW entries \in Seq(Entries), Distinct(entries), NEW k, NEW v
    PROVE  /\ k \notin KeysOf(entries) => LastValue(entries, k, v) = v
           /\ \A i \in 1..Len(entries) :
                 entries[i].key = k => LastValue(entries, k, v) = entries[i].value
  <1> DEFINE at == {i \in DOMAIN entries : entries[i].key = k}
  <1>1. DOMAIN entries = 1..Len(entries) /\ Len(entries) \in Nat
    OBVIOUS
  <1>2. k \notin KeysOf(entries) => at = {}
    BY DEF KeysOf
  <1>3. ASSUME NEW i \in 1..Len(entries), entries[i].key = k
        PROVE  LastValue(entries, k, v) = entries[i].value
    <2>1. at = {i}
      BY <1>1, <1>3 DEF Distinct
    <2>2. Max({i}) = i
      <3>1. i >= i
        BY <1>1
      <3> QED
        BY <3>1 DEF Max
    <2> QED
      BY <2>1, <2>2 DEF LastValue
  <1> QED
    BY <1>2, <1>3 DEF LastValue

LEMMA KeysAre ==
    ASSUME NEW entries \in Seq(Entries)
    PROVE  \A k : k \in KeysOf(entries) <=> \E i \in 1..Len(entries) : entries[i].key = k
  BY DEF KeysOf

\* Without one of its entries, a sequence has the others, in the same order.
LEMMA RemoveAtIs ==
    ASSUME NEW s \in Seq(Entries), NEW i \in 1..Len(s)
    PROVE  /\ RemoveAt(s, i) \in Seq(Entries) /\ Len(RemoveAt(s, i)) = Len(s) - 1
           /\ \A j \in 1..Len(s) - 1 : RemoveAt(s, i)[j] = IF j < i THEN s[j] ELSE s[j + 1]
  <1>1. PICK n \in Nat : n = Len(s)
    OBVIOUS
  <1>2. PICK a : a = SubSeq(s, 1, i - 1)
    OBVIOUS
  <1>3. PICK b : b = SubSeq(s, i + 1, n)
    OBVIOUS
  <1>4. a \in Seq(Entries) /\ Len(a) = i - 1 /\ \A j \in 1..i - 1 : a[j] = s[j]
    BY <1>1, <1>2
  <1>5. b \in Seq(Entries) /\ Len(b) = n - i /\ \A j \in 1..n - i : b[j] = s[i + j]
    BY <1>1, <1>3
  <1>6. RemoveAt(s, i) = a \o b
    BY <1>1, <1>2, <1>3 DEF RemoveAt
  <1>7. a \o b \in Seq(Entries) /\ Len(a \o b) = n - 1
    <2>1. a \o b \in Seq(Entries) /\ Len(a \o b) = Len(a) + Len(b)
      BY <1>4, <1>5, ConcatProperties
    <2>2. i \in Int /\ (i - 1) + (n - i) = n - 1
      BY <1>1
    <2>3. Len(a) + Len(b) = n - 1
      BY <1>4, <1>5, <2>2
    <2> QED
      BY <2>1, <2>3
  <1>8. ASSUME NEW j \in 1..n - 1 PROVE (a \o b)[j] = IF j < i THEN s[j] ELSE s[j + 1]
    <2>1. CASE j < i
      BY <1>1, <1>4, <1>5, <2>1
    <2>2. CASE ~(j < i)
      <3>1. (a \o b)[j] = b[j - (i - 1)]
        BY <1>1, <1>4, <1>5, <2>2
      <3>2. j - (i - 1) \in 1..n - i /\ i + (j - (i - 1)) = j + 1
        BY <1>1, <2>2
      <3> QED
        BY <1>5, <2>2, <3>1, <3>2
    <2> QED
      BY <2>1, <2>2
  <1> QED
    BY <1>1, <1>6, <1>7, <1>8

Lru == lru \in Seq(Entries) /\ Len(lru) <= LruCapacity /\ Distinct(lru)

LEMMA OthersAre ==
    ASSUME Lru, NEW k
    PROVE  /\ Others(k) \in Seq(Entries) /\ Len(Others(k)) <= Len(lru) /\ Distinct(Others(k))
           /\ \A i \in 1..Len(Others(k)) :
                 Others(k)[i].key # k /\ \E j \in 1..Len(lru) : lru[j] = Others(k)[i]
  <1>1. PICK n \in Nat : n = Len(lru)
    BY DEF Lru
  <1>2. CASE k \notin KeysOf(lru)
    <2>1. Others(k) = lru
      BY <1>2 DEF Others
    <2> QED
      BY <1>1, <1>2, <2>1, KeysAre DEF Lru
  <1>3. CASE k \in KeysOf(lru)
    <2>1. PICK p : p = PlaceOf(k)
      OBVIOUS
    <2>2. p \in 1..n /\ lru[p].key = k
      <3>1. DOMAIN lru = 1..n /\ \E i \in 1..n : lru[i].key = k
        BY <1>1, <1>3, KeysAre DEF Lru
      <3> QED
        BY <2>1, <3>1 DEF PlaceOf
    <2>3. PICK s : s = RemoveAt(lru, p)
      OBVIOUS
    <2>4. Others(k) = s
      BY <1>3, <2>1, <2>3 DEF Others
    <2>5. /\ s \in Seq(Entries) /\ Len(s) = n - 1
          /\ \A j \in 1..n - 1 : s[j] = IF j < p THEN lru[j] ELSE lru[j + 1]
      BY <1>1, <2>2, <2>3, RemoveAtIs DEF Lru
    <2>6. \A i, j \in 1..n : lru[i].key = lru[j].key => i = j
      BY <1>1 DEF Lru, Distinct
    <2>7. ASSUME NEW i \in 1..n - 1 PROVE s[i].key # k /\ \E j \in 1..n : lru[j] = s[i]
      <3>1. CASE i < p
        BY SMTT(30), <1>1, <2>2, <2>5, <2>6, <3>1
      <3>2. CASE ~(i < p)
        <4>1. i + 1 \in 1..n /\ i + 1 # p
          BY <1>1, <2>2, <3>2
        <4> QED
          BY <2>2, <2>5, <2>6, <3>2, <4>1
      <3> QED
        BY <3>1, <3>2
    <2>8. ASSUME NEW i \in 1..n - 1, NEW j \in 1..n - 1, s[i].key = s[j].key PROVE i = j
      <3>1. PICK x \in 1..n : s[i] = lru[x] /\ x = IF i < p THEN i ELSE i + 1
        <4>1. i \in 1..n /\ i + 1 \in 1..n
          BY <1>1
        <4> QED
          BY <2>5, <4>1
      <3>2. PICK y \in 1..n : s[j] = lru[y] /\ y = IF j < p THEN j ELSE j + 1
        <4>1. j \in 1..n /\ j + 1 \in 1..n
          BY <1>1
        <4> QED
          BY <2>5, <4>1
      <3>3. x = y
        BY <2>6, <2>8, <3>1, <3>2
      <3> QED
        BY <1>1, <2>2, <3>1, <3>2, <3>3
    <2> QED
      BY SMTT(30), <1>1, <2>4, <2>5, <2>7, <2>8 DEF Distinct
  <1> QED
    BY <1>2, <1>3

\* _lru_put: the entry is in, once, and the rest was in before.
LEMMA PutIs ==
    ASSUME Lru, NEW k \in Keys, NEW v \in Values, NEW next, next = LruPut(k, v)
    PROVE  /\ next \in Seq(Entries) /\ Len(next) <= LruCapacity /\ Distinct(next)
           /\ \E i \in 1..Len(next) : next[i] = Entry(k, v)
           /\ \A i \in 1..Len(next) :
                 \/ next[i] = Entry(k, v)
                 \/ next[i].key # k /\ \E j \in 1..Len(lru) : lru[j] = next[i]
  <1>1. Entry(k, v) \in Entries /\ Entry(k, v).key = k
    BY DEF Entry, Entries
  <1>2. PICK s : s = Others(k)
    OBVIOUS
  <1>3. /\ s \in Seq(Entries) /\ Len(s) <= Len(lru) /\ Distinct(s)
        /\ \A i \in 1..Len(s) : s[i].key # k /\ \E j \in 1..Len(lru) : lru[j] = s[i]
    BY <1>2, OthersAre
  <1>4. PICK n \in Nat : n = Len(s)
    BY <1>3
  <1>5. PICK t : t = Append(s, Entry(k, v))
    OBVIOUS
  <1>6. /\ t \in Seq(Entries) /\ Len(t) = n + 1 /\ t[n + 1] = Entry(k, v)
        /\ \A i \in 1..n : t[i] = s[i]
    BY <1>1, <1>3, <1>4, <1>5, AppendProperties
  <1>7. LruCapacity \in Nat \ {0} /\ n <= LruCapacity
    BY <1>3, <1>4, CacheAssumption DEF CacheAssumption, Lru
  <1>8. \A i \in 1..n : t[i].key # k /\ \E j \in 1..Len(lru) : lru[j] = t[i]
    BY <1>3, <1>4, <1>6
  <1>9. ASSUME NEW i \in 1..n + 1, NEW j \in 1..n + 1, t[i].key = t[j].key PROVE i = j
    <2>1. i \in 1..n \/ i = n + 1
      OBVIOUS
    <2>2. j \in 1..n \/ j = n + 1
      OBVIOUS
    <2>3. CASE i \in 1..n /\ j \in 1..n
      BY <1>3, <1>4, <1>6, <1>9, <2>3 DEF Distinct
    <2> QED
      BY <1>1, <1>6, <1>8, <1>9, <2>1, <2>2, <2>3
  <1>10. \A i \in 1..n + 1 :
            \/ t[i] = Entry(k, v)
            \/ t[i].key # k /\ \E j \in 1..Len(lru) : lru[j] = t[i]
    <2> SUFFICES ASSUME NEW i \in 1..n + 1
                 PROVE  \/ t[i] = Entry(k, v)
                        \/ t[i].key # k /\ \E j \in 1..Len(lru) : lru[j] = t[i]
      OBVIOUS
    <2>1. CASE i \in 1..n
      BY <1>8, <2>1
    <2>2. CASE i = n + 1
      BY <1>6, <2>2
    <2> QED
      BY <2>1, <2>2
  <1>11. next = IF Len(t) > LruCapacity THEN Tail(t) ELSE t
    BY <1>2, <1>5 DEF LruPut, Touched, TrimmedOldest
  <1>12. CASE n + 1 > LruCapacity
    <2>1. next = Tail(t) /\ t # <<>> /\ n \in Nat \ {0}
      BY <1>6, <1>7, <1>11, <1>12
    <2>2. next \in Seq(Entries) /\ Len(next) = n /\ \A i \in 1..n : next[i] = t[i + 1]
      BY <1>6, <2>1, HeadTailProperties
    <2>3. \A i \in 1..n : i + 1 \in 1..n + 1
      OBVIOUS
    <2>4. \A i, j \in 1..n : next[i].key = next[j].key => i = j
      <3> SUFFICES ASSUME NEW i \in 1..n, NEW j \in 1..n, next[i].key = next[j].key
                   PROVE  i = j
        OBVIOUS
      <3>1. i + 1 = j + 1
        BY SMTT(30), <1>9, <2>2, <2>3
      <3> QED
        BY <3>1
    <2>5. n \in 1..n /\ next[n] = Entry(k, v)
      BY <1>6, <2>1, <2>2
    <2>6. \A i \in 1..n :
             \/ next[i] = Entry(k, v)
             \/ next[i].key # k /\ \E j \in 1..Len(lru) : lru[j] = next[i]
      BY <1>10, <2>2, <2>3
    <2>7. Distinct(next)
      BY <2>2, <2>4 DEF Distinct
    <2> QED
      BY <1>7, <2>2, <2>5, <2>6, <2>7
  <1>13. CASE ~(n + 1 > LruCapacity)
    <2>1. next = t /\ n + 1 \in 1..n + 1
      BY <1>6, <1>11, <1>13
    <2> QED
      BY <1>6, <1>7, <1>9, <1>10, <1>13, <2>1 DEF Distinct
  <1> QED
    BY <1>7, <1>12, <1>13

----------------------------------------------------------------------------
(* Values and bounds                                                       *)

\* The last value set for a key is the newest there is, and everything keeps its bounds.
Newest ==
    /\ \A k \in Keys : db[k] <= latest[k] /\ latest[k] <= sets
    /\ \A e \in Unwritten : e.value <= latest[e.key]

Bounds ==
    /\ closed \in BOOLEAN /\ ended \in BOOLEAN /\ life \in 1..MaxLives
    /\ writer \in {"none", "waiting", "running", "done", "dead"}
    /\ sets <= MaxSets /\ Len(pending) < BatchSize
    /\ \A c \in Clients, k \in Keys : due[c][k] <= sets
    /\ dropped \subseteq 1..sets

\* What the writer does with the operation it takes, written or not.
LEMMA WriterTurn ==
    ASSUME WriteBehind, WriterTakes \/ WriterDies
    PROVE  /\ queue # <<>> /\ queue' = Tail(queue) /\ ~ended
           /\ UNCHANGED <<lru, closed, life, ended, sets, latest, due, unbacked>>
           /\ pending' = <<>> \/ (pending' = Taken /\ Len(Taken) < BatchSize)
           /\ dropped \subseteq dropped' /\ dropped' \subseteq dropped \cup ValuesOf(Taken)
           /\ \A k \in Keys : \/ db'[k] = db[k]
                              \/ \E i \in 1..Len(Taken) :
                                    Taken[i].key = k /\ db'[k] = Taken[i].value
  <1>1. CASE WriterDies
    BY <1>1 DEF WriterDies, WriterHasTurn, Taken, IsSet
  <1>2. CASE WriterTakes
    <2>1. /\ queue # <<>> /\ queue' = Tail(queue) /\ ~ended
          /\ UNCHANGED <<lru, closed, life, ended, sets, latest, due, unbacked>>
      BY <1>2 DEF WriterTakes, WriterHasTurn
    <2>2. \/ UNCHANGED <<db, dropped>> /\ pending' = Taken /\ Len(Taken) < BatchSize
          \/ Write(Taken)
          \/ UNCHANGED <<db, dropped>> /\ pending' = <<>>
      BY <1>2 DEF WriterTakes, Collect, ReachBarrier, Taken, IsSet
    <2>3. CASE Write(Taken)
      <3>1. Through(Taken)
        BY <2>1, <2>3, WriteGoesThrough
      <3> QED
        BY <2>1, <2>3, <3>1 DEF Write, Through
    <2> QED
      BY <2>1, <2>2, <2>3
  <1> QED
    BY <1>1, <1>2

\* What it takes was set, for a key, and is no newer than the last value set for it.
LEMMA TakenIsOld ==
    ASSUME WriteBehind, Newest, queue # <<>>
    PROVE  /\ \A i \in 1..Len(Taken) : /\ Taken[i] \in Unwritten
                                       /\ Taken[i].key \in Keys /\ Taken[i].value \in Nat \ {0}
                                       /\ Taken[i].value <= latest[Taken[i].key]
                                       /\ Taken[i].value <= sets
           /\ ValuesOf(Taken) \subseteq 1..sets
  <1>1. DOMAIN Taken = 1..Len(Taken) /\ sets \in Nat
    BY TakenIs, BatchTypes DEF WriteBehind, Shape
  <1>2. ASSUME NEW i \in 1..Len(Taken)
        PROVE  /\ Taken[i] \in Unwritten
               /\ Taken[i].key \in Keys /\ Taken[i].value \in Nat \ {0}
               /\ Taken[i].value <= latest[Taken[i].key]
               /\ Taken[i].value <= sets
    <2>1. PICK e \in Unwritten : e = Taken[i]
      BY TakenWasWaiting
    <2>2. e.key \in Keys /\ e.value \in Nat /\ db[e.key] < e.value /\ e.value <= sets
      BY UnwrittenTypes
    <2>3. db[e.key] \in Nat
      BY <2>2 DEF WriteBehind, Shape
    <2>4. e.value \in Nat \ {0}
      BY <2>2, <2>3
    <2> QED
      BY <2>1, <2>2, <2>4 DEF Newest
  <1>3. \A i \in 1..Len(Taken) : Taken[i].value \in 1..sets
    BY <1>1, <1>2
  <1> QED
    BY <1>1, <1>2, <1>3 DEF ValuesOf

LEMMA NewLifeFinds ==
    ASSUME WriteBehind', NewLife
    PROVE  /\ \A e : e \notin Unwritten'
           /\ queue' = <<>> /\ pending' = <<>> /\ Len(queue') = 0 /\ Len(pending') = 0
  <1>1. queue' = <<>> /\ pending' = <<>> /\ Len(queue') = 0 /\ Len(pending') = 0
    BY DEF NewLife
  <1> QED
    BY <1>1, UnwrittenNext DEF WriteBehind

LEMMA StepKeepsNewest ==
    ASSUME WriteBehind, WriteBehind', Newest, [Next]_vars
    PROVE  Newest'
  <1>1. /\ db \in [Keys -> Nat] /\ latest \in [Keys -> Nat] /\ sets \in Nat
        /\ \A k \in Keys : db[k] <= sets
    BY DEF WriteBehind, Shape, Ahead
  <1>2. CASE UNCHANGED <<queue, pending, db, latest, sets>>
    BY <1>2 DEF Newest, Unwritten, QueuedSets
  <1>3. ASSUME NEW k \in Keys, Set(k) PROVE Newest'
    <2>1. PICK v \in Nat : v = sets + 1
      BY <1>1
    <2>2. /\ v \in Values /\ queue' = Append(queue, SetOp(k, v)) /\ pending' = pending
          /\ db' = db /\ latest' = [latest EXCEPT ![k] = v] /\ sets' = v
      BY <1>1, <1>3, <2>1, CacheAssumption DEF Set, Enqueued, Values, CacheAssumption
    <2>3. \A e : e \in Unwritten' <=> e \in Unwritten \/ e = Entry(k, v)
      BY <2>2, SetAdds
    <2>4. ASSUME NEW e \in Unwritten PROVE e.value <= latest'[e.key]
      <3>1. e.key \in Keys /\ e.value \in Nat /\ e.value <= sets /\ e.value <= latest[e.key]
        BY UnwrittenTypes DEF Newest
      <3> QED
        BY <1>1, <2>1, <2>2, <3>1
    <2>5. Entry(k, v).value <= latest'[Entry(k, v).key]
      BY <1>1, <2>2 DEF Entry
    <2>6. \A j \in Keys : db'[j] <= latest'[j] /\ latest'[j] <= sets'
      BY <1>1, <2>1, <2>2 DEF Newest
    <2> QED
      BY <2>3, <2>4, <2>5, <2>6 DEF Newest
  <1>4. ASSUME NEW c \in Clients, NEW op \in {"flush", "close"},
               queue' = Append(queue, Barrier(op, c)), UNCHANGED <<pending, db, latest, sets>>
        PROVE  Newest'
    <2>1. \A e : e \in Unwritten' <=> e \in Unwritten
      BY <1>4, BarrierAddsNone
    <2> QED
      BY <1>4, <2>1 DEF Newest
  <1>5. CASE WriterTakes \/ WriterDies
    <2>1. /\ queue # <<>> /\ queue' = Tail(queue) /\ UNCHANGED <<latest, sets>>
          /\ pending' = <<>> \/ pending' = Taken
          /\ \A k \in Keys : \/ db'[k] = db[k]
                             \/ \E i \in 1..Len(Taken) :
                                   Taken[i].key = k /\ db'[k] = Taken[i].value
      BY <1>5, WriterTurn
    <2>2. \A e : e \in Unwritten' => e \in Unwritten
      BY <2>1, TakingLeaves
    <2>3. \A k \in Keys : db'[k] <= latest[k]
      BY <2>1, TakenIsOld DEF Newest
    <2> QED
      BY <2>1, <2>2, <2>3 DEF Newest
  <1>6. CASE Crash \/ Restart
    <2>1. NewLife /\ latest' = db /\ db' = db /\ sets' = sets
      BY <1>6 DEF Crash, Restart, NewLife
    <2> QED
      BY <1>1, <2>1, NewLifeFinds DEF Newest
  <1>7. ASSUME NEW c \in Clients, Close(c) PROVE Newest'
    <2>1. CASE writer = "none"
      BY <1>2, <1>7, <2>1 DEF Close
    <2>2. CASE writer # "none"
      BY <1>4, <1>7, <2>2 DEF Close, Enqueued
    <2> QED
      BY <2>1, <2>2
  <1>8. ASSUME NEW c \in Clients, Flush(c) PROVE Newest'
    BY <1>4, <1>8 DEF Flush, Enqueued
  <1>9. ASSUME NEW k \in Keys, Get(k) PROVE Newest'
    BY <1>2, <1>9, Zenon DEF Get
  <1>10. ASSUME NEW c \in Clients, Return(c) PROVE Newest'
    BY <1>2, <1>10 DEF Return, FlushReturns, CloseReturns, memVars, histVars
  <1>11. CASE Exit \/ UNCHANGED vars
    BY <1>2, <1>11 DEF Exit, vars, memVars, histVars
  <1> QED
    BY <1>3, <1>5, <1>6, <1>7, <1>8, <1>9, <1>10, <1>11 DEF Next

LEMMA StepKeepsBounds ==
    ASSUME WriteBehind, Newest, Bounds, [Next]_vars
    PROVE  Bounds'
  <1>1. /\ latest \in [Keys -> Nat] /\ sets \in Nat
        /\ \A k \in Keys : latest[k] <= sets
        /\ due \in [Clients -> [Keys -> Nat]]
    BY DEF WriteBehind, Shape, Newest
  <1>2. BatchSize \in Nat \ {0} /\ MaxSets \in Nat /\ MaxLives \in Nat \ {0}
    BY CacheAssumption DEF CacheAssumption
  <1>3. Len(<<>>) = 0 /\ 0 < BatchSize
    BY <1>2
  <1>4. ASSUME NEW k \in Keys, Set(k) PROVE Bounds'
    <2>1. /\ sets < MaxSets /\ sets' = sets + 1 /\ writer' = WriterEnsured
          /\ UNCHANGED <<closed, pending, life, ended, due, dropped>>
      BY <1>4, Zenon DEF Set
    <2>2. sets' <= MaxSets /\ 1..sets \subseteq 1..sets'
      BY <1>1, <1>2, <2>1
    <2>3. \A c \in Clients, j \in Keys : due[c][j] <= sets'
      BY <1>1, <2>1 DEF Bounds
    <2>4. writer' \in {"none", "waiting", "running", "done", "dead"}
      BY <2>1 DEF Bounds, WriterEnsured
    <2> QED
      BY <2>1, <2>2, <2>3, <2>4 DEF Bounds
  <1>5. ASSUME NEW c \in Clients, Flush(c) \/ Close(c) PROVE Bounds'
    <2>1. /\ closed' \in BOOLEAN
          /\ due' = due \/ due' = [due EXCEPT ![c] = latest]
          /\ UNCHANGED <<writer, pending, life, ended, sets, dropped>>
      BY <1>5 DEF Flush, Close, Bounds
    <2>2. \A d \in Clients, k \in Keys : due'[d][k] <= sets
      BY <1>1, <2>1 DEF Bounds
    <2> QED
      BY <2>1, <2>2 DEF Bounds
  <1>6. CASE WriterTakes \/ WriterDies
    <2>1. /\ queue # <<>> /\ UNCHANGED <<closed, life, ended, sets, due>>
          /\ pending' = <<>> \/ (pending' = Taken /\ Len(Taken) < BatchSize)
          /\ dropped' \subseteq dropped \cup ValuesOf(Taken)
      BY <1>6, WriterTurn
    <2>2. writer' \in {"none", "waiting", "running", "done", "dead"}
      BY <1>6 DEF WriterTakes, WriterDies, Collect, ReachBarrier, GoesOn
    <2>3. dropped' \subseteq 1..sets /\ Len(pending') < BatchSize
      BY <1>3, <2>1, TakenIsOld DEF Bounds
    <2> QED
      BY <2>1, <2>2, <2>3 DEF Bounds
  <1>7. CASE Crash \/ Restart
    <2>1. /\ life < MaxLives /\ life' = life + 1 /\ closed' = FALSE /\ ended' = FALSE
          /\ writer' = "none" /\ pending' = <<>> /\ UNCHANGED <<sets, dropped>>
          /\ due' = [c \in Clients |-> [k \in Keys |-> 0]]
      BY <1>7 DEF Crash, Restart, NewLife
    <2>2. life' \in 1..MaxLives
      BY <1>2, <2>1 DEF Bounds
    <2>3. \A c \in Clients, k \in Keys : due'[c][k] <= sets'
      BY <1>1, <2>1
    <2> QED
      BY <1>1, <1>3, <2>1, <2>2, <2>3 DEF Bounds
  <1>8. CASE Exit
    BY <1>8 DEF Exit, Bounds, memVars, histVars
  <1>9. ASSUME NEW k \in Keys, Get(k) PROVE Bounds'
    <2>1. UNCHANGED <<closed, writer, pending, life, ended, sets, due, dropped>>
      BY <1>9, Zenon DEF Get
    <2> QED
      BY <2>1 DEF Bounds
  <1>10. ASSUME NEW c \in Clients, Return(c) PROVE Bounds'
    BY <1>10 DEF Return, FlushReturns, CloseReturns, Bounds, memVars, histVars
  <1>11. CASE UNCHANGED vars
    BY <1>11 DEF Bounds, vars, memVars, histVars
  <1> QED
    BY <1>4, <1>5, <1>6, <1>7, <1>8, <1>9, <1>10, <1>11 DEF Next

\* What is in the books of the way to the table: the value a key gets in the end is the last
\* one set for it, unless that one was in a dropped batch.
LEMMA NothingIsLost ==
    ASSUME WriteBehind, Newest
    PROVE  \A k \in Keys : latest[k] \in dropped \/ Arriving(k) = latest[k]
  <1> SUFFICES ASSUME NEW k \in Keys, latest[k] \notin dropped PROVE Arriving(k) = latest[k]
    OBVIOUS
  <1>1. PICK n \in Nat, v \in Nat : n = Len(queue) /\ v = latest[k]
    BY DEF WriteBehind, Shape
  <1>2. /\ DOMAIN queue = 1..n /\ pending \in Seq(Entries) /\ Rising(pending)
        /\ db[k] \in Nat /\ db[k] <= v
    BY <1>1 DEF WriteBehind, Shape, InOrder, Rising, Newest
  <1>3. v <= db[k] \/ InBatch(pending, k, v) \/ InFrontOf(n + 1, queue, k, v)
    BY <1>1 DEF WriteBehind, InFront, OnItsWay, InTable
  <1>4. Entry(k, v).key = k /\ Entry(k, v).value = v
    BY DEF Entry
  <1> DEFINE at == {i \in QueuedSets : queue[i].entry.key = k}
  <1>5. \A i : i \in at <=> i \in 1..n /\ IsSet(queue[i]) /\ queue[i].entry.key = k
    BY <1>2 DEF QueuedSets, IsSet
  <1>6. CASE at = {}
    <2>1. Arriving(k) = LastValue(pending, k, db[k])
      BY <1>6 DEF Arriving
    <2>2. ~InFrontOf(n + 1, queue, k, v)
      BY <1>1, <1>4, <1>5, <1>6 DEF InFrontOf
    <2>3. CASE \A i \in 1..Len(pending) : pending[i].key # k
      <3>1. LastValue(pending, k, db[k]) = db[k]
        BY <1>2, <2>3, LastOf, LastIsNewest
      <3>2. ~InBatch(pending, k, v)
        BY <1>4, <2>3 DEF InBatch
      <3> QED
        BY <1>1, <1>2, <1>3, <2>1, <2>2, <3>1, <3>2
    <2>4. ASSUME NEW i \in 1..Len(pending), pending[i].key = k,
                 LastValue(pending, k, db[k]) = pending[i].value,
                 \A j \in 1..Len(pending) : pending[j].key = k => pending[j].value <= pending[i].value
          PROVE  Arriving(k) = v
      <3>1. pending[i] \in Unwritten
        BY UnwrittenIs DEF WriteBehind
      <3>2. pending[i].value \in Nat /\ db[k] < pending[i].value /\ pending[i].value <= v
        BY <1>1, <2>4, <3>1, UnwrittenTypes DEF Newest
      <3>3. InBatch(pending, k, v)
        BY <1>2, <1>3, <2>2, <3>2
      <3>4. v <= pending[i].value
        BY <1>4, <2>4, <3>3 DEF InBatch
      <3> QED
        BY <2>1, <2>4, <3>2, <3>4
    <2>5. \/ \A i \in 1..Len(pending) : pending[i].key # k
          \/ \E i \in 1..Len(pending) :
                /\ pending[i].key = k /\ LastValue(pending, k, db[k]) = pending[i].value
                /\ \A j \in 1..Len(pending) : pending[j].key = k => pending[j].value <= pending[i].value
      BY SMTT(30), <1>2, LastIsNewest
    <2> QED
      BY <1>1, <2>3, <2>4, <2>5
  <1>7. CASE at # {}
    <2>1. \E i \in at : \A j \in at : j <= i
      BY <1>1, <1>5, <1>7, Greatest
    <2>2. PICK i \in at : Max(at) = i /\ \A j \in at : j <= i
      BY <2>1 DEF Max
    <2>3. Arriving(k) = queue[i].entry.value
      BY <1>7, <2>2 DEF Arriving
    <2>4. i \in 1..n /\ IsSet(queue[i]) /\ queue[i].entry.key = k
      BY <1>5, <2>2
    <2>5. queue[i].entry \in Unwritten
      BY <1>1, <2>4, UnwrittenIs DEF WriteBehind
    <2>6. PICK w \in Nat : w = queue[i].entry.value /\ db[k] < w /\ w <= v
      BY <1>1, <2>4, <2>5, UnwrittenTypes DEF Newest
    <2>7. ASSUME NEW j \in 1..n, IsSet(queue[j]), queue[j].entry = Entry(k, v) PROVE v <= w
      <3>1. j \in at /\ j <= i
        BY <1>4, <1>5, <2>2, <2>7
      <3>2. CASE j = i
        BY <1>4, <2>6, <2>7, <3>2
      <3>3. CASE j < i
        BY <1>1, <1>4, <2>4, <2>6, <2>7, <3>3 DEF WriteBehind, InOrder
      <3> QED
        BY <1>1, <2>4, <3>1, <3>2, <3>3
    <2>8. v <= w
      <3>1. CASE v <= db[k]
        BY <1>2, <2>6, <3>1
      <3>2. CASE InFrontOf(n + 1, queue, k, v)
        <4>1. PICK j \in 1..n : IsSet(queue[j]) /\ queue[j].entry = Entry(k, v)
          BY <1>1, <3>2 DEF InFrontOf
        <4> QED
          BY <2>7, <4>1
      <3>3. CASE InBatch(pending, k, v)
        <4>1. PICK j \in 1..Len(pending) : pending[j] = Entry(k, v)
          BY <3>3 DEF InBatch
        <4>2. v < w
          BY <1>1, <1>4, <2>4, <2>6, <4>1 DEF WriteBehind, InOrder
        <4> QED
          BY <2>6, <4>2
      <3> QED
        BY <1>3, <3>1, <3>2, <3>3
    <2> QED
      BY <1>1, <2>3, <2>6, <2>8
  <1> QED
    BY <1>6, <1>7

\* A key of which nothing is on its way has its last value in the table.
LEMMA SettledKeys ==
    ASSUME WriteBehind, Newest, NEW k \in Keys, ~Waiting(k)
    PROVE  latest[k] \in dropped \/ db[k] = latest[k]
  <1>1. PICK n \in Nat, v \in Nat : n = Len(queue) /\ v = latest[k]
    BY DEF WriteBehind, Shape
  <1>2. db[k] \in Nat /\ db[k] <= v
    BY <1>1 DEF WriteBehind, Shape, Newest
  <1>3. \/ v \in dropped \/ v <= db[k]
        \/ InBatch(pending, k, v) \/ InFrontOf(n + 1, queue, k, v)
    BY <1>1 DEF WriteBehind, InFront, OnItsWay, InTable
  <1>4. ~InBatch(pending, k, v) /\ ~InFrontOf(n + 1, queue, k, v)
    <2>1. Entry(k, v) \notin Unwritten
      BY DEF Waiting, Entry
    <2> QED
      BY <2>1, UnwrittenIs DEF WriteBehind, InBatch, InFrontOf
  <1> QED
    BY <1>1, <1>2, <1>3, <1>4

----------------------------------------------------------------------------
(* Reading                                                                 *)

\* A key reads as it was last set unless its value was dropped or evicted before it was
\* written, and what is not written yet is in the LRU or was evicted.
Fresh(k) == \/ latest[k] \in dropped \/ k \in unbacked
            \/ LastValue(lru, k, db[k]) = latest[k]

Recent ==
    /\ Lru /\ unbacked \subseteq Keys
    /\ \A k \in Keys : Fresh(k)
    /\ \A e \in Unwritten : e.key \in KeysOf(lru) \/ e.key \in unbacked

\* What an entry put into the LRU does to the answers for the other keys: they stay, but for a
\* key that has left the LRU.
LEMMA PutAnswers ==
    ASSUME Lru, NEW k \in Keys, NEW v \in Values, lru' = LruPut(k, v)
    PROVE  /\ Lru' /\ k \in KeysOf(lru') /\ KeysOf(lru') \subseteq Keys
           /\ \A d : LastValue(lru', k, d) = v
           /\ \A j, d : j # k =>
                 \/ j \in KeysOf(lru') /\ LastValue(lru', j, d) = LastValue(lru, j, d)
                 \/ j \notin KeysOf(lru') /\ j \notin KeysOf(lru)
                       /\ LastValue(lru', j, d) = LastValue(lru, j, d)
                 \/ j \in KeysOf(lru) \ KeysOf(lru') /\ LastValue(lru', j, d) = d
  <1>1. /\ lru' \in Seq(Entries) /\ Len(lru') <= LruCapacity /\ Distinct(lru')
        /\ \E i \in 1..Len(lru') : lru'[i] = Entry(k, v)
        /\ \A i \in 1..Len(lru') :
              \/ lru'[i] = Entry(k, v)
              \/ lru'[i].key # k /\ \E j \in 1..Len(lru) : lru[j] = lru'[i]
    BY PutIs
  <1>2. Lru'
    BY <1>1 DEF Lru, Distinct
  <1>3. PICK i \in 1..Len(lru') : lru'[i] = Entry(k, v)
    BY <1>1
  <1>4. Entry(k, v).key = k /\ Entry(k, v).value = v
    BY DEF Entry
  <1>5. k \in KeysOf(lru') /\ \A d : LastValue(lru', k, d) = v
    BY <1>1, <1>3, <1>4, KeysAre, LastOf
  <1>6. KeysOf(lru') \subseteq Keys
    <2>1. \A x \in 1..Len(lru') : lru'[x].key \in Keys
      BY <1>1, BatchTypes
    <2> QED
      BY <1>1, <2>1, KeysAre
  <1>7. ASSUME NEW j, NEW d, j # k
        PROVE  \/ j \in KeysOf(lru') /\ LastValue(lru', j, d) = LastValue(lru, j, d)
               \/ /\ j \notin KeysOf(lru') /\ j \notin KeysOf(lru)
                  /\ LastValue(lru', j, d) = LastValue(lru, j, d)
               \/ j \in KeysOf(lru) \ KeysOf(lru') /\ LastValue(lru', j, d) = d
    <2>1. CASE j \in KeysOf(lru')
      <3>1. PICK x \in 1..Len(lru') : lru'[x].key = j
        BY <1>1, <2>1, KeysAre
      <3>2. PICK y \in 1..Len(lru) : lru[y] = lru'[x]
        BY <1>1, <1>4, <1>7, <3>1
      <3>3. LastValue(lru', j, d) = lru'[x].value
        BY <1>1, <3>1, LastOf
      <3>4. LastValue(lru, j, d) = lru[y].value
        BY <3>1, <3>2, LastOf DEF Lru
      <3> QED
        BY <2>1, <3>2, <3>3, <3>4
    <2>2. CASE j \notin KeysOf(lru')
      <3>1. LastValue(lru', j, d) = d
        BY <1>1, <2>2, LastOf
      <3>2. j \notin KeysOf(lru) => LastValue(lru, j, d) = d
        BY LastOf DEF Lru
      <3> QED
        BY <2>2, <3>1, <3>2
    <2> QED
      BY <2>1, <2>2
  <1> QED
    BY <1>2, <1>5, <1>6, <1>7

\* A key that leaves the LRU is not backed, or the table has its last value.
LEMMA OthersStayFresh ==
    ASSUME WriteBehind, Newest, Recent, NEW k \in Keys, NEW v \in Values, lru' = LruPut(k, v),
           NEW j \in Keys, j # k, UNCHANGED <<db, dropped>>, latest'[j] = latest[j],
           j \in unbacked => j \in unbacked',
           j \in Unbacked(KeysOf(lru) \ KeysOf(lru')) => j \in unbacked'
    PROVE  Fresh(j)'
  <1>1. \/ LastValue(lru', j, db[j]) = LastValue(lru, j, db[j])
        \/ j \in KeysOf(lru) \ KeysOf(lru') /\ LastValue(lru', j, db[j]) = db[j]
    BY PutAnswers DEF Recent
  <1>2. latest[j] \in dropped \/ j \in unbacked \/ LastValue(lru, j, db[j]) = latest[j]
    BY DEF Recent, Fresh
  <1>3. Waiting(j) \/ latest[j] \in dropped \/ db[j] = latest[j]
    BY SettledKeys
  <1>4. Waiting(j) /\ j \in KeysOf(lru) \ KeysOf(lru') => j \in unbacked'
    BY DEF Waiting, Unbacked
  <1> QED
    BY <1>1, <1>2, <1>3, <1>4 DEF Fresh

LEMMA HeldOrEvicted ==
    ASSUME Recent, NEW k \in Keys, NEW v \in Values, lru' = LruPut(k, v), NEW e \in Unwritten,
           e.key # k /\ e.key \in unbacked => e.key \in unbacked',
           e.key \in Unbacked(KeysOf(lru) \ KeysOf(lru')) => e.key \in unbacked'
    PROVE  e.key \in KeysOf(lru') \/ e.key \in unbacked'
  <1>1. k \in KeysOf(lru')
    BY PutAnswers DEF Recent
  <1>2. e.key \in KeysOf(lru) \/ e.key \in unbacked
    BY DEF Recent
  <1>3. e.key \in KeysOf(lru) \ KeysOf(lru') => e.key \in unbacked'
    BY DEF Unbacked
  <1> QED
    BY <1>1, <1>2, <1>3

LEMMA GetKeepsRecent ==
    ASSUME WriteBehind, Newest, Bounds, Recent, NEW k \in Keys, Get(k)
    PROVE  Recent'
  <1>1. PICK v : v = LastValue(lru, k, db[k])
    OBVIOUS
  <1>2. /\ k \in KeysOf(lru) \/ db[k] # 0
        /\ lru' = LruPut(k, v)
        /\ unbacked' = unbacked \cup Unbacked(KeysOf(lru) \ KeysOf(lru'))
        /\ UNCHANGED <<queue, pending, db, latest, dropped>>
    BY <1>1 DEF Get
  <1>3. v \in Values
    <2>1. CASE k \in KeysOf(lru)
      <3>1. PICK i \in 1..Len(lru) : lru[i].key = k
        BY <2>1, KeysAre DEF Recent, Lru
      <3>2. v = lru[i].value
        BY <1>1, <3>1, LastOf DEF Recent, Lru
      <3>3. lru[i] \in Entries
        BY DEF Recent, Lru
      <3> QED
        BY <3>2, <3>3 DEF Entries
    <2>2. CASE k \notin KeysOf(lru)
      <3>1. v = db[k]
        BY <1>1, <2>2, LastOf DEF Recent, Lru
      <3>2. /\ db[k] \in Nat /\ db[k] <= sets /\ sets <= MaxSets /\ db[k] # 0
            /\ sets \in Nat /\ MaxSets \in Nat
        BY <1>2, <2>2, CacheAssumption DEF WriteBehind, Shape, Ahead, Bounds, CacheAssumption
      <3> QED
        BY <3>1, <3>2 DEF Values
    <2> QED
      BY <2>1, <2>2
  <1>4. Lru' /\ KeysOf(lru') \subseteq Keys
    BY <1>2, <1>3, PutAnswers DEF Recent
  <1>5. KeysOf(lru) \subseteq Keys
    <2>1. lru \in Seq(Entries) /\ \A x \in 1..Len(lru) : lru[x].key \in Keys
      BY BatchTypes DEF Recent, Lru
    <2> QED
      BY <2>1, KeysAre
  <1>6. unbacked' \subseteq Keys /\ unbacked \subseteq unbacked'
    BY <1>2, <1>5 DEF Recent, Unbacked
  <1>7. ASSUME NEW j \in Keys PROVE Fresh(j)'
    <2>1. CASE j = k
      <3>1. LastValue(lru', k, db[k]) = LastValue(lru, k, db[k])
        BY <1>1, <1>2, <1>3, PutAnswers DEF Recent
      <3>2. Fresh(k)
        BY DEF Recent
      <3> QED
        BY <1>2, <1>6, <2>1, <3>1, <3>2 DEF Fresh
    <2>2. CASE j # k
      <3>1. j \in Unbacked(KeysOf(lru) \ KeysOf(lru')) => j \in unbacked'
        BY <1>2
      <3> QED
        BY <1>2, <1>3, <1>6, <2>2, <3>1, OthersStayFresh
    <2> QED
      BY <2>1, <2>2
  <1>8. Unwritten' = Unwritten
    BY <1>2 DEF Unwritten, QueuedSets
  <1>9. ASSUME NEW e \in Unwritten PROVE e.key \in KeysOf(lru') \/ e.key \in unbacked'
    <2>1. e.key \in Unbacked(KeysOf(lru) \ KeysOf(lru')) => e.key \in unbacked'
      BY <1>2
    <2>2. e.key \in unbacked => e.key \in unbacked'
      BY <1>6
    <2> QED
      BY <1>2, <1>3, <2>1, <2>2, HeldOrEvicted
  <1> QED
    BY <1>4, <1>6, <1>7, <1>8, <1>9 DEF Recent

LEMMA SetKeepsRecent ==
    ASSUME WriteBehind, WriteBehind', Newest, Recent, NEW k \in Keys, Set(k)
    PROVE  Recent'
  <1>1. PICK v \in Nat : v = sets + 1
    BY DEF WriteBehind, Shape
  <1>2. /\ lru' = LruPut(k, v) /\ queue' = Append(queue, SetOp(k, v)) /\ sets < MaxSets
        /\ latest' = [latest EXCEPT ![k] = v]
        /\ unbacked' = (unbacked \ {k}) \cup Unbacked(KeysOf(lru) \ KeysOf(lru'))
        /\ UNCHANGED <<pending, db, dropped>>
    BY <1>1 DEF Set, Enqueued
  <1>3. v \in Values
    BY <1>1, <1>2, CacheAssumption DEF Values, CacheAssumption, WriteBehind, Shape
  <1>4. Lru' /\ k \in KeysOf(lru') /\ LastValue(lru', k, db[k]) = v
    BY <1>2, <1>3, PutAnswers DEF Recent
  <1>5. KeysOf(lru) \subseteq Keys
    <2>1. lru \in Seq(Entries) /\ \A x \in 1..Len(lru) : lru[x].key \in Keys
      BY BatchTypes DEF Recent, Lru
    <2> QED
      BY <2>1, KeysAre
  <1>6. unbacked' \subseteq Keys
    BY <1>2, <1>5 DEF Recent, Unbacked
  <1>7. ASSUME NEW j \in Keys PROVE Fresh(j)'
    <2>1. latest \in [Keys -> Nat]
      BY DEF WriteBehind, Shape
    <2>2. CASE j = k
      <3>1. latest'[k] = v
        BY <1>2, <2>1
      <3> QED
        BY <1>2, <1>4, <2>2, <3>1 DEF Fresh
    <2>3. CASE j # k
      <3>1. /\ latest'[j] = latest[j]
            /\ j \in unbacked => j \in unbacked'
            /\ j \in Unbacked(KeysOf(lru) \ KeysOf(lru')) => j \in unbacked'
        BY <1>2, <2>1, <2>3
      <3> QED
        BY <1>2, <1>3, <2>3, <3>1, OthersStayFresh
    <2> QED
      BY <2>2, <2>3
  <1>8. \A e : e \in Unwritten' <=> e \in Unwritten \/ e = Entry(k, v)
    BY <1>2, <1>3, SetAdds
  <1>9. ASSUME NEW e \in Unwritten PROVE e.key \in KeysOf(lru') \/ e.key \in unbacked'
    <2>1. /\ e.key \in Unbacked(KeysOf(lru) \ KeysOf(lru')) => e.key \in unbacked'
          /\ e.key # k /\ e.key \in unbacked => e.key \in unbacked'
      BY <1>2
    <2> QED
      BY <1>2, <1>3, <2>1, HeldOrEvicted
  <1>10. Entry(k, v).key \in KeysOf(lru')
    BY <1>4 DEF Entry
  <1> QED
    BY <1>4, <1>6, <1>7, <1>8, <1>9, <1>10 DEF Recent

LEMMA WriterKeepsRecent ==
    ASSUME WriteBehind, WriteBehind', Newest, Recent, WriterTakes \/ WriterDies
    PROVE  Recent'
  <1>1. /\ queue # <<>> /\ queue' = Tail(queue) /\ UNCHANGED <<lru, latest, unbacked>>
        /\ pending' = <<>> \/ pending' = Taken
        /\ dropped \subseteq dropped'
        /\ \A k \in Keys : \/ db'[k] = db[k]
                           \/ \E i \in 1..Len(Taken) :
                                 Taken[i].key = k /\ db'[k] = Taken[i].value
    BY WriterTurn
  <1>2. \A e : e \in Unwritten' => e \in Unwritten
    BY <1>1, TakingLeaves
  <1>3. ASSUME NEW j \in Keys PROVE Fresh(j)'
    <2>1. CASE latest[j] \in dropped \/ j \in unbacked
      BY <1>1, <2>1 DEF Fresh
    <2>2. CASE LastValue(lru, j, db[j]) = latest[j] /\ j \in KeysOf(lru)
      <3>1. PICK i \in 1..Len(lru) : lru[i].key = j
        BY <2>2, KeysAre DEF Recent, Lru
      <3>2. LastValue(lru, j, db'[j]) = LastValue(lru, j, db[j])
        BY <3>1, LastOf DEF Recent, Lru
      <3> QED
        BY <1>1, <2>2, <3>2 DEF Fresh
    <2>3. CASE LastValue(lru, j, db[j]) = latest[j] /\ j \notin KeysOf(lru)
      <3>1. CASE db'[j] = db[j]
        BY <1>1, <2>3, <3>1 DEF Fresh
      <3>2. ASSUME NEW i \in 1..Len(Taken), Taken[i].key = j PROVE Fresh(j)'
        <4>1. Taken[i] \in Unwritten
          BY <1>1, TakenWasWaiting
        <4>2. j \in unbacked
          BY <2>3, <3>2, <4>1 DEF Recent
        <4> QED
          BY <2>1, <4>2
      <3> QED
        BY <1>1, <3>1, <3>2
    <2>4. latest[j] \in dropped \/ j \in unbacked \/ LastValue(lru, j, db[j]) = latest[j]
      BY DEF Recent, Fresh
    <2> QED
      BY <2>1, <2>2, <2>3, <2>4
  <1> QED
    BY <1>1, <1>2, <1>3 DEF Recent, Lru

LEMMA StepKeepsRecent ==
    ASSUME WriteBehind, WriteBehind', Newest, Bounds, Recent, [Next]_vars
    PROVE  Recent'
  <1>1. CASE UNCHANGED <<lru, db, latest, dropped, unbacked>> /\ \A e : e \in Unwritten' <=> e \in Unwritten
    BY <1>1 DEF Recent, Fresh, Lru
  <1>2. CASE UNCHANGED <<lru, queue, pending, db, latest, dropped, unbacked>>
    <2>1. Unwritten' = Unwritten
      BY <1>2 DEF Unwritten, QueuedSets
    <2> QED
      BY <1>1, <1>2, <2>1
  <1>3. ASSUME NEW c \in Clients, NEW op \in {"flush", "close"},
               queue' = Append(queue, Barrier(op, c)),
               UNCHANGED <<lru, pending, db, latest, dropped, unbacked>>
        PROVE  Recent'
    BY <1>1, <1>3, BarrierAddsNone
  <1>4. CASE Crash \/ Restart
    <2>1. /\ NewLife /\ lru' = <<>> /\ latest' = db /\ db' = db /\ unbacked' = {}
      BY <1>4 DEF Crash, Restart, NewLife
    <2>2. lru' \in Seq(Entries) /\ Len(lru') = 0 /\ LruCapacity \in Nat
      BY <2>1, CacheAssumption DEF CacheAssumption
    <2>3. Lru'
      BY <2>2 DEF Lru, Distinct
    <2>4. Distinct(lru')
      BY <2>2 DEF Distinct
    <2>5. \A k \in Keys : k \notin KeysOf(lru')
      <3>1. \A i \in 1..Len(lru') : FALSE
        BY <2>2
      <3> QED
        BY <2>2, <3>1, KeysAre
    <2>6. \A k \in Keys : Fresh(k)'
      BY <2>1, <2>2, <2>4, <2>5, LastOf DEF Fresh
    <2> QED
      BY <2>1, <2>3, <2>6, NewLifeFinds DEF Recent
  <1>5. ASSUME NEW c \in Clients, Close(c) PROVE Recent'
    <2>1. CASE writer = "none"
      BY <1>2, <1>5, <2>1 DEF Close
    <2>2. CASE writer # "none"
      BY <1>3, <1>5, <2>2 DEF Close, Enqueued
    <2> QED
      BY <2>1, <2>2
  <1>6. ASSUME NEW c \in Clients, Flush(c) PROVE Recent'
    BY <1>3, <1>6 DEF Flush, Enqueued
  <1>7. ASSUME NEW c \in Clients, Return(c) PROVE Recent'
    BY <1>2, <1>7 DEF Return, FlushReturns, CloseReturns, memVars, histVars
  <1>8. CASE Exit \/ UNCHANGED vars
    BY <1>2, <1>8 DEF Exit, vars, memVars, histVars
  <1> QED
    BY <1>4, <1>5, <1>6, <1>7, <1>8, GetKeepsRecent, SetKeepsRecent, WriterKeepsRecent DEF Next

----------------------------------------------------------------------------
(* Closing                                                                 *)

\* close puts the last barrier there is into the queue: when its event is set nothing is left,
\* and a closed cache has something left only while the call of close waits.
Closing ==
    /\ writer = "none" => Nothing
    /\ \A c \in Clients : pc[c] = "joined" => closed /\ Nothing
    /\ \A p \in 1..Len(queue) : ~IsSet(queue[p]) => queue[p].op = pc[queue[p].by]
    /\ \A p \in 1..Len(queue) : queue[p].op = "close" => closed /\ p = Len(queue)
    /\ closed => Nothing \/ \E c \in Clients : pc[c] = "close"

LEMMA OpenHasNoClose ==
    ASSUME Closing, ~closed
    PROVE  /\ \A c \in Clients : pc[c] # "joined"
           /\ \A p \in 1..Len(queue) : queue[p].op # "close"
  BY DEF Closing

LEMMA SetKeepsClosing ==
    ASSUME WriteBehind, Closing, NEW k \in Keys, Set(k)
    PROVE  Closing'
  <1>1. PICK v \in Nat : v = sets + 1
    BY DEF WriteBehind, Shape
  <1>2. /\ ~closed /\ queue' = Append(queue, SetOp(k, v)) /\ sets < MaxSets
        /\ writer' = WriterEnsured /\ UNCHANGED <<closed, pc>>
    BY <1>1 DEF Set, Enqueued
  <1>3. v \in Values
    BY <1>1, <1>2, CacheAssumption DEF Values, CacheAssumption, WriteBehind, Shape
  <1>4. SetOp(k, v) \in Ops /\ IsSet(SetOp(k, v)) /\ SetOp(k, v).op # "close"
    BY <1>3 DEF SetOp, Entry, Entries, Ops, IsSet
  <1>5. PICK n \in Nat : n = Len(queue)
    BY DEF WriteBehind, Shape
  <1>6. /\ queue'[n + 1] = SetOp(k, v)
        /\ \A i \in 1..Len(queue') : i \in 1..n \/ i = n + 1
        /\ \A i \in 1..n : queue'[i] = queue[i]
    BY <1>2, <1>4, <1>5, Enqueues DEF WriteBehind, Shape
  <1>7. \A p \in 1..Len(queue') : ~IsSet(queue'[p]) => queue'[p].op = pc'[queue'[p].by]
    BY <1>2, <1>4, <1>5, <1>6 DEF Closing
  <1>8. \A p \in 1..Len(queue') : queue'[p].op # "close"
    BY <1>2, <1>4, <1>5, <1>6, OpenHasNoClose
  <1>9. writer' # "none"
    BY <1>2 DEF WriterEnsured
  <1> QED
    BY <1>2, <1>7, <1>8, <1>9, OpenHasNoClose DEF Closing

LEMMA BarrierKeepsClosing ==
    ASSUME WriteBehind, Closing, NEW c \in Clients, NEW op \in {"flush", "close"},
           ~closed, pc[c] = "free", writer # "none", writer' = writer,
           queue' = Append(queue, Barrier(op, c)), pc' = [pc EXCEPT ![c] = op],
           closed' = (op = "close")
    PROVE  Closing'
  <1>1. /\ Barrier(op, c) \in Ops /\ ~IsSet(Barrier(op, c)) /\ Barrier(op, c).op = op
        /\ Barrier(op, c).by = c
    BY DEF Barrier, Ops, IsSet
  <1>2. PICK n \in Nat : n = Len(queue)
    BY DEF WriteBehind, Shape
  <1>3. /\ queue'[n + 1] = Barrier(op, c) /\ Len(queue') = n + 1
        /\ \A i \in 1..Len(queue') : i \in 1..n \/ i = n + 1
        /\ \A i \in 1..n : queue'[i] = queue[i]
    BY <1>1, <1>2, Enqueues DEF WriteBehind, Shape
  <1>4. pc'[c] = op /\ \A d \in Clients \ {c} : pc'[d] = pc[d]
    BY DEF WriteBehind, Shape
  <1>5. \A p \in 1..n : ~IsSet(queue[p]) => queue[p].by \in Clients /\ queue[p].by # c
    BY <1>2, QueueTypes DEF WriteBehind, InFront
  <1>6. \A p \in 1..Len(queue') : ~IsSet(queue'[p]) => queue'[p].op = pc'[queue'[p].by]
    BY <1>1, <1>2, <1>3, <1>4, <1>5 DEF Closing
  <1>7. \A p \in 1..Len(queue') : queue'[p].op = "close" => closed' /\ p = Len(queue')
    BY <1>1, <1>2, <1>3, OpenHasNoClose
  <1>8. \A d \in Clients : pc'[d] # "joined"
    BY <1>4, OpenHasNoClose
  <1>9. closed' => \E d \in Clients : pc'[d] = "close"
    BY <1>4
  <1> QED
    BY <1>6, <1>7, <1>8, <1>9 DEF Closing

LEMMA WriterKeepsClosing ==
    ASSUME WriteBehind, Closing, WriterTakes \/ WriterDies
    PROVE  Closing'
  <1>1. queue # <<>> /\ queue' = Tail(queue) /\ closed' = closed
    BY WriterTurn
  <1>2. PICK n \in Nat : n = Len(queue)
    BY DEF WriteBehind, Shape
  <1>3. /\ queue # <<>> /\ queue' \in Seq(Ops) /\ n \in Nat \ {0} /\ Len(queue') = n - 1
        /\ \A i \in 1..Len(queue') : i + 1 \in 2..n /\ queue'[i] = queue[i + 1]
    BY <1>2, MovesUp DEF WriterTakes, WriterDies, WriterHasTurn
  <1>4. Head(queue) = queue[1] /\ 1 \in 1..n /\ 2..n \subseteq 1..n
    BY <1>2, <1>3 DEF WriteBehind, Shape
  <1>5. writer' # "none"
    BY DEF WriterTakes, WriterDies, Collect, ReachBarrier, GoesOn
  <1>6. \/ pc' = pc
        \/ /\ ~IsSet(queue[1]) /\ pending' = <<>>
           /\ pc' = [pc EXCEPT ![queue[1].by] =
                       IF queue[1].op = "close" THEN "joined" ELSE "flushed"]
    <2>1. CASE WriterDies
      BY <2>1 DEF WriterDies
    <2>2. CASE WriterTakes
      <3>1. CASE Head(queue).op = "set"
        BY <2>2, <3>1 DEF WriterTakes, Collect
      <3>2. CASE Head(queue).op # "set"
        <4>1. ReachBarrier(Head(queue))
          BY <2>2, <3>2 DEF WriterTakes
        <4>2. pending' = <<>>
          BY <4>1 DEF ReachBarrier, Write
        <4>3. SetEvent(Head(queue)) /\ ~IsSet(queue[1])
          BY <1>4, <3>2, <4>1 DEF ReachBarrier, IsSet
        <4> QED
          BY <1>4, <4>2, <4>3, Zenon DEF SetEvent
      <3> QED
        BY <3>1, <3>2
    <2> QED
      BY <2>1, <2>2
  <1>7. queue # <<>> /\ ~Nothing
    BY <1>3 DEF Nothing
  <1>8. ~IsSet(queue[1]) => queue[1].by \in Clients /\ queue[1].op = pc[queue[1].by]
    BY <1>2, <1>4, QueueTypes DEF WriteBehind, Closing
  <1>9. ~IsSet(queue[1]) /\ queue[1].op = "close" => closed /\ n = 1
    BY <1>2, <1>4 DEF Closing
  <1>10. \A c \in Clients : \/ pc'[c] = pc[c]
                            \/ /\ ~IsSet(queue[1]) /\ c = queue[1].by /\ pending' = <<>>
                               /\ pc'[c] = IF queue[1].op = "close" THEN "joined" ELSE "flushed"
    BY <1>6 DEF WriteBehind, Shape
  <1>11. ~IsSet(queue[1]) /\ queue[1].op = "close" /\ pending' = <<>> => closed' /\ Nothing'
    <2>1. n = 1 => queue' = <<>>
      BY <1>3, EmptySeq
    <2> QED
      BY <1>1, <1>9, <2>1 DEF Nothing
  <1>12. \A c \in Clients : pc'[c] = "joined" => closed' /\ Nothing'
    BY <1>7, <1>10, <1>11 DEF Closing
  <1>13. ASSUME NEW p \in 1..Len(queue'), ~IsSet(queue'[p])
         PROVE  queue'[p].op = pc'[queue'[p].by]
    <2>1. p + 1 \in 1..n /\ p + 1 # 1 /\ queue'[p] = queue[p + 1]
      BY <1>3, <1>4
    <2>2. queue[p + 1].by \in Clients /\ queue[p + 1].op = pc[queue[p + 1].by]
      BY <1>2, <1>13, <2>1, QueueTypes DEF WriteBehind, Closing
    <2>3. ~(~IsSet(queue[1]) /\ queue[p + 1].by = queue[1].by)
      BY <1>2, <1>4, <1>13, <2>1 DEF WriteBehind, InFront
    <2> QED
      BY <1>10, <2>1, <2>2, <2>3
  <1>14. ASSUME NEW p \in 1..Len(queue'), queue'[p].op = "close"
         PROVE  closed' /\ p = Len(queue')
    <2>1. p + 1 \in 1..n /\ queue'[p] = queue[p + 1]
      BY <1>3, <1>4
    <2>2. closed /\ p + 1 = n
      BY <1>2, <1>14, <2>1 DEF Closing
    <2> QED
      BY <1>1, <1>3, <2>2
  <1>15. closed' => Nothing' \/ \E c \in Clients : pc'[c] = "close"
    <2> SUFFICES ASSUME closed' PROVE Nothing' \/ \E c \in Clients : pc'[c] = "close"
      OBVIOUS
    <2>1. PICK c \in Clients : pc[c] = "close"
      BY <1>1, <1>7 DEF Closing
    <2>2. CASE pc'[c] = pc[c]
      BY <2>1, <2>2
    <2>3. CASE ~IsSet(queue[1]) /\ c = queue[1].by /\ pending' = <<>>
      BY <1>8, <1>11, <2>1, <2>3
    <2> QED
      BY <1>10, <2>2, <2>3
  <1> QED
    BY <1>5, <1>12, <1>13, <1>14, <1>15 DEF Closing

LEMMA StepKeepsClosing ==
    ASSUME WriteBehind, Bounds, Closing, [Next]_vars
    PROVE  Closing'
  <1>1. CASE UNCHANGED <<queue, pending, closed, writer, pc>>
    BY <1>1 DEF Closing, Nothing, IsSet
  <1>2. ASSUME NEW c \in Clients, Close(c) PROVE Closing'
    <2>1. pc[c] = "free" /\ ~closed /\ closed' = TRUE /\ UNCHANGED <<writer, pending>>
      BY <1>2 DEF Close
    <2>2. CASE writer = "none"
      <3>1. UNCHANGED <<queue, pc>> /\ Nothing /\ Nothing'
        BY <1>2, <2>1, <2>2 DEF Close, Closing, Nothing
      <3> QED
        BY <2>1, <3>1, OpenHasNoClose DEF Closing, IsSet
    <2>3. CASE writer # "none"
      <3>1. queue' = Append(queue, Barrier("close", c)) /\ pc' = [pc EXCEPT ![c] = "close"]
        BY <1>2, <2>3 DEF Close, Enqueued
      <3> QED
        BY <2>1, <2>3, <3>1, BarrierKeepsClosing
    <2> QED
      BY <2>2, <2>3
  <1>3. ASSUME NEW c \in Clients, Flush(c) PROVE Closing'
    <2>1. /\ pc[c] = "free" /\ ~closed /\ writer # "none" /\ writer' = writer
          /\ queue' = Append(queue, Barrier("flush", c)) /\ pc' = [pc EXCEPT ![c] = "flush"]
          /\ closed' = closed
      BY <1>3 DEF Flush, Enqueued
    <2>2. closed' = ("flush" = "close")
      BY <2>1 DEF Bounds
    <2> QED
      BY <2>1, <2>2, BarrierKeepsClosing
  <1>4. ASSUME NEW c \in Clients, Return(c) PROVE Closing'
    <2>1. /\ pc[c] \in {"flushed", "joined"} /\ pc' = [pc EXCEPT ![c] = "free"]
          /\ UNCHANGED <<queue, pending, closed>>
          /\ writer' = writer \/ (pc[c] = "joined" /\ writer' = "none")
      BY <1>4 DEF Return, FlushReturns, CloseReturns, memVars, histVars
    <2>2. Nothing' = Nothing
      BY <2>1 DEF Nothing
    <2>3. \A d \in Clients : \/ pc'[d] = pc[d]
                             \/ pc[d] \in {"flushed", "joined"} /\ pc'[d] = "free"
      BY <2>1 DEF WriteBehind, Shape
    <2>4. ASSUME NEW p \in 1..Len(queue), ~IsSet(queue[p]) PROVE queue[p].op = pc'[queue[p].by]
      <3>1. /\ queue[p].by \in Clients /\ pc[queue[p].by] \in {"flush", "close"}
            /\ queue[p].op = pc[queue[p].by]
        BY <2>4, QueueTypes DEF WriteBehind, InFront, Closing
      <3> QED
        BY <2>3, <3>1
    <2> QED
      BY <2>1, <2>2, <2>3, <2>4 DEF Closing, IsSet
  <1>5. CASE Crash \/ Restart
    <2>1. /\ queue' = <<>> /\ pending' = <<>> /\ closed' = FALSE /\ Len(queue') = 0
          /\ pc' = [c \in Clients |-> "free"]
      BY <1>5 DEF Crash, Restart, NewLife
    <2>2. \A p \in 1..Len(queue') : FALSE
      BY <2>1
    <2> QED
      BY <2>1, <2>2 DEF Closing, Nothing
  <1>6. ASSUME NEW k \in Keys, Get(k) PROVE Closing'
    <2>1. UNCHANGED <<queue, pending, closed, writer, pc>>
      BY <1>6, Zenon DEF Get
    <2> QED
      BY <1>1, <2>1
  <1>7. CASE Exit \/ UNCHANGED vars
    BY <1>1, <1>7 DEF Exit, vars, memVars, histVars
  <1> QED
    BY <1>2, <1>3, <1>4, <1>5, <1>6, <1>7, SetKeepsClosing, WriterKeepsClosing DEF Next

\* The process ends with nothing on its way, when it closes the cache before.
Finished == ended => Nothing

LEMMA StepKeepsFinished ==
    ASSUME ClosedAtExit = TRUE, WriteBehind, Bounds, Closing, Finished, [Next]_vars
    PROVE  Finished'
  <1>1. CASE ~ended'
    BY <1>1 DEF Finished
  <1>2. CASE Exit
    <2>1. closed /\ (\A c \in Clients : pc[c] = "free") /\ UNCHANGED <<queue, pending>>
      BY <1>2 DEF Exit, memVars
    <2> QED
      BY <2>1 DEF Closing, Finished, Nothing
  <1>3. CASE UNCHANGED vars
    BY <1>3 DEF vars, memVars, Finished, Nothing
  <1>4. CASE Next /\ ~Exit
    <2>1. ASSUME NEW k \in Keys, Get(k) \/ Set(k) PROVE ~ended'
      BY <2>1, Zenon DEF Get, Set, LoopIsFree
    <2>2. ASSUME NEW c \in Clients, Flush(c) \/ Close(c) \/ Return(c) PROVE ~ended'
      BY <2>2 DEF Flush, Close, Return, FlushReturns, CloseReturns, LoopIsFree
    <2>3. WriterTakes \/ WriterDies => ~ended'
      BY DEF WriterTakes, WriterDies, WriterHasTurn
    <2>4. Crash \/ Restart => ~ended'
      BY DEF Crash, Restart, NewLife
    <2> QED
      BY <1>1, <1>4, <2>1, <2>2, <2>3, <2>4 DEF Next
  <1> QED
    BY <1>2, <1>3, <1>4

LEMMA InitCache == Init => Newest /\ Bounds /\ Recent /\ Closing /\ Finished
  <1> SUFFICES ASSUME Init PROVE Newest /\ Bounds /\ Recent /\ Closing /\ Finished
    OBVIOUS
  <1>1. WriteBehind
    BY InitHolds
  <1>2. /\ queue = <<>> /\ pending = <<>> /\ lru = <<>> /\ Len(queue) = 0 /\ Len(pending) = 0
        /\ Len(lru) = 0 /\ lru \in Seq(Entries)
    BY DEF Init
  <1>3. (\A i \in 1..Len(queue) : FALSE) /\ (\A i \in 1..Len(pending) : FALSE)
        /\ (\A i \in 1..Len(lru) : FALSE)
    BY <1>2
  <1>4. \A e : e \notin Unwritten
    BY <1>1, <1>3, UnwrittenIs DEF WriteBehind
  <1>5. /\ LruCapacity \in Nat \ {0} /\ BatchSize \in Nat \ {0} /\ MaxSets \in Nat
        /\ MaxLives \in Nat \ {0}
    BY CacheAssumption DEF CacheAssumption
  <1>6. Newest
    BY <1>4 DEF Newest, Init
  <1>7. Bounds
    <2>1. 1 \in 1..MaxLives /\ 0 <= MaxSets /\ 0 < BatchSize
      BY <1>5
    <2>2. \A c \in Clients, k \in Keys : due[c][k] <= sets
      BY DEF Init
    <2> QED
      BY <1>2, <2>1, <2>2 DEF Bounds, Init
  <1>8. Recent
    <2>1. Distinct(lru) /\ Len(lru) <= LruCapacity
      BY <1>2, <1>3, <1>5 DEF Distinct
    <2>2. \A k \in Keys : Fresh(k)
      <3> SUFFICES ASSUME NEW k \in Keys PROVE Fresh(k)
        OBVIOUS
      <3>1. k \notin KeysOf(lru)
        BY <1>2, <1>3, KeysAre
      <3>2. LastValue(lru, k, db[k]) = db[k]
        BY <1>2, <2>1, <3>1, LastOf
      <3> QED
        BY <3>2 DEF Fresh, Init
    <2> QED
      BY <1>2, <1>4, <2>1, <2>2 DEF Recent, Lru, Init
  <1>9. Closing /\ Finished
    BY <1>2, <1>3 DEF Closing, Finished, Nothing, Init
  <1> QED
    BY <1>6, <1>7, <1>8, <1>9

----------------------------------------------------------------------------
(* The theorems                                                            *)

LEMMA AlwaysWriteBehind == Spec => []WriteBehind
  <1>1. WriteBehind /\ [Next]_vars => WriteBehind'
    BY StepKeeps
  <1> QED
    BY <1>1, InitHolds, PTL DEF Spec

\* Whatever a flush or close was to wait for is in the table, or a newer value, when its event
\* is set, unless its batch was dropped (flush, close, _writer_loop, _write_batch).
THEOREM BarriersPersist == Spec => []BarrierPersists
  <1>1. WriteBehind => BarrierPersists
    BY DEF WriteBehind
  <1> QED
    BY <1>1, AlwaysWriteBehind, PTL

\* A row is never replaced by an older value, over all lives of the process, though batches are
\* dropped, the writer dies and is started again, and the process is killed (_writer_loop,
\* _write_batch, _ensure_writer).
THEOREM RowsNeverGoBack == Spec => RowsMoveForward
  <1>1. WriteBehind /\ [Next]_vars => [\A k \in Keys : db'[k] >= db[k]]_vars
    <2> SUFFICES ASSUME WriteBehind, [Next]_vars PROVE \A k \in Keys : db'[k] >= db[k]
      OBVIOUS
    <2>1. db \in [Keys -> Nat] /\ WriteBehind' /\ \A k \in Keys : db[k] <= db'[k]
      BY StepKeeps DEF WriteBehind, Shape
    <2>2. db' \in [Keys -> Nat]
      BY <2>1 DEF WriteBehind, Shape
    <2> QED
      BY <2>1, <2>2
  <1> QED
    BY <1>1, AlwaysWriteBehind, PTL DEF Spec, RowsMoveForward

Reliable == WriteBehind /\ Newest /\ Bounds /\ Recent /\ Closing

LEMMA AlwaysReliable == Spec => []Reliable
  <1>1. Init => Reliable
    BY InitHolds, InitCache DEF Reliable
  <1>2. Reliable /\ [Next]_vars => Reliable'
    BY StepKeeps, StepKeepsNewest, StepKeepsBounds, StepKeepsRecent, StepKeepsClosing DEF Reliable
  <1> QED
    BY <1>1, <1>2, PTL DEF Spec

\* A key reads as it was last set, unless that value was dropped with its batch, or its entry
\* left the LRU before it was written: for any capacity, batch size and interleaving with the
\* writer (get, set, _lru_put, _writer_loop).
THEOREM KeysReadAsSet == Spec => []ReadsLastSet
  <1>1. Reliable => ReadsLastSet
    BY DEF Reliable, Recent, Fresh, ReadsLastSet
  <1> QED
    BY <1>1, AlwaysReliable, PTL

LEMMA ReliableIsTyped == Reliable => TypeOK
  <1> SUFFICES ASSUME Reliable PROVE TypeOK
    OBVIOUS
  <1>1. /\ sets \in Nat /\ MaxSets \in Nat /\ sets <= MaxSets
        /\ db \in [Keys -> Nat] /\ latest \in [Keys -> Nat]
        /\ due \in [Clients -> [Keys -> Nat]]
    BY CacheAssumption DEF Reliable, Bounds, WriteBehind, Shape, CacheAssumption
  <1>2. /\ lru \in Seq(Entries) /\ Len(lru) <= LruCapacity
        /\ IsInjective([i \in DOMAIN lru |-> lru[i].key])
    <2>1. DOMAIN lru = 1..Len(lru)
      BY DEF Reliable, Recent, Lru
    <2> QED
      BY <2>1 DEF Reliable, Recent, Lru, Distinct, IsInjective
  <1>3. \A i \in DOMAIN queue :
           \/ queue[i].op = "set" /\ queue[i].entry \in Entries
           \/ queue[i].op \in {"flush", "close"} /\ queue[i].by \in Clients
    <2>1. \A i \in DOMAIN queue : queue[i] \in Ops
      BY DEF Reliable, WriteBehind, Shape
    <2> QED
      BY <2>1 DEF Ops
  <1>4. db \in [Keys -> 0..sets] /\ latest \in [Keys -> 0..sets]
    <2>1. \A k \in Keys : db[k] \in 0..sets /\ latest[k] \in 0..sets
      BY <1>1 DEF Reliable, Newest, WriteBehind, Ahead
    <2> QED
      BY <1>1, <2>1
  <1>5. due \in [Clients -> [Keys -> 0..sets]]
    <2>1. \A c \in Clients : due[c] \in [Keys -> Nat] /\ \A k \in Keys : due[c][k] \in 0..sets
      BY <1>1 DEF Reliable, Bounds
    <2>2. \A c \in Clients : due[c] \in [Keys -> 0..sets]
      BY <2>1
    <2> QED
      BY <1>1, <2>2
  <1>6. sets \in 0..MaxSets
    BY <1>1
  <1> QED
    BY <1>2, <1>3, <1>4, <1>5, <1>6
       DEF TypeOK, Reliable, Bounds, Recent, WriteBehind, Shape, Places

\* Every value that was set reaches the table, or its batch was dropped with a message: it is on
\* its way there in the order of the calls, and a program that closes its cache before it ends
\* leaves none behind (set, close, _writer_loop, _write_batch, async_main).
THEOREM ValuesReachTheTable ==
    ASSUME ClosedAtExit = TRUE
    PROVE  Spec => []WriteBehindInvariant
  <1>1. Init => Finished
    BY InitCache
  <1>2. Reliable /\ Finished /\ [Next]_vars => Finished'
    BY StepKeepsFinished DEF Reliable
  <1>3. Reliable => TypeOK /\ NothingLost
    BY ReliableIsTyped, NothingIsLost DEF Reliable, NothingLost
  <1>4. Reliable /\ Finished => ExitPersists
    <2> SUFFICES ASSUME Reliable, Finished, ended, NEW k \in Keys
                 PROVE  latest[k] \in dropped \/ db[k] = latest[k]
      BY DEF ExitPersists
    <2>1. Len(queue) = 0 /\ Len(pending) = 0
      BY DEF Finished, Nothing
    <2>2. (\A i \in 1..Len(queue) : FALSE) /\ (\A i \in 1..Len(pending) : FALSE)
      BY <2>1
    <2>3. \A e : e \notin Unwritten
      BY <2>2, UnwrittenIs DEF Reliable, WriteBehind
    <2> QED
      BY <2>3, SettledKeys DEF Waiting, Reliable
  <1> QED
    BY <1>1, <1>2, <1>3, <1>4, AlwaysReliable, PTL DEF Spec, WriteBehindInvariant

=============================================================================
