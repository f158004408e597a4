------------------------ MODULE VerifierSessionsProofs ------------------------
(***************************************************************************)
(* Theorems about VerifierSessions, for each of the verifiers and any      *)
(* callers, keys, processes and number of threads left alone.              *)
(***************************************************************************)
EXTENDS VerifierSessions, FiniteSetTheorems, TLAPS

----------------------------------------------------------------------------
(* The invariant                                                           *)

\* Callers that alone have their process, and those that share what the table had.
Grips(c)  == pc[c] \in {"opening", "fresh", "dropping"}
Shares(c) == pc[c] \in {"line", "using"}

Types ==
    /\ backend \in Backends /\ backend \in {"dojo", "interact", "repl"}
    /\ table \in [Keys -> Procs \cup {None}] /\ lock \in Callers \cup {None}
    /\ proc \in [Procs -> {"none", "starting", "running", "closed"}]
    /\ pc \in [Callers -> {"free", "lock", "look", "opening", "line", "using", "fresh",
                           "dropping"}]
    /\ key \in [Callers -> Keys \cup {None}] /\ held \in [Callers -> Procs \cup {None}]
    /\ openers \subseteq Keys \X (Procs \cup {None}) /\ checkers \subseteq Procs
    /\ abandoned \in 0..MaxAbandoned /\ spoiled \subseteq Procs
    /\ ready \in BOOLEAN /\ late \in BOOLEAN /\ shutdown \in {"open", "closing", "closed"}
    /\ doomed \subseteq Procs
    /\ \A c \in Callers : pc[c] \in {"free", "lock", "look"} <=> held[c] = None
    /\ \A c \in Callers : pc[c] # "free" => key[c] \in Keys

\* A process is in one place at most: under one key of the table, with the one caller that opens
\* or closes it, with one thread, or with close().
Apart ==
    /\ \A k, l \in Keys : table[k] # None /\ table[k] = table[l] => k = l
    /\ \A k \in Keys : table[k] \notin doomed /\ table[k] \notin checkers
    /\ \A p \in checkers : p \notin doomed
    /\ \A t \in openers : t[2] # None =>
          /\ \A k \in Keys : table[k] # t[2]
          /\ t[2] \notin doomed /\ t[2] \notin checkers
          /\ \A u \in openers : u[2] = t[2] => u = t
    /\ \A c \in Callers : Grips(c) =>
          /\ \A k \in Keys : table[k] # held[c]
          /\ held[c] \notin doomed /\ held[c] \notin checkers
          /\ \A t \in openers : t[2] # held[c]
          /\ \A d \in Callers : Grips(d) /\ held[d] = held[c] => d = c

\* A process that callers share came from the table, where it is under their key, if at all.
SharedByKey ==
    \A c \in Callers : Shares(c) =>
        /\ \A k \in Keys : table[k] = held[c] => k = key[c]
        /\ \A d \in Callers : Shares(d) /\ held[d] = held[c] => key[d] = key[c]
        /\ \A d \in Callers : pc[d] \in {"opening", "fresh"} => held[d] # held[c]
        /\ \A t \in openers : t[2] # held[c]
        /\ held[c] \notin checkers

\* Only servers have lines before them.
OnlyServersHaveLines == \A c \in Callers : pc[c] = "line" => backend = "interact"
PoolsAreNotOpened == backend = "repl" => \A c \in Callers : pc[c] \notin {"lock", "look", "opening"}

\* One caller at a time looks into the table and opens; with dojo, also uses; with lean-interact,
\* one for each server uses.
Locked ==
    /\ \A c \in Callers : pc[c] \in {"look", "opening"} => lock = c
    /\ backend = "dojo" => \A c \in Callers : pc[c] = "using" => lock = c
    /\ OnlyServersHaveLines /\ PoolsAreNotOpened
    /\ backend = "interact" =>
          \A c, d \in Callers : pc[c] = "using" /\ pc[d] = "using" /\ key[c] = key[d] => c = d

\* A spoiled process is not in the table, nor on its way there.
Unspoiled ==
    /\ \A p \in spoiled : /\ \A k \in Keys : table[k] # p
                          /\ \A c \in Callers : pc[c] = "opening" => held[c] # p
                          /\ \A t \in openers : t[2] # p
    /\ backend # "dojo" => spoiled = {}

NoneClosed == \A k \in Keys : table[k] # None => proc[table[k]] # "closed"

\* After close(), if it met nobody and nobody came later, nothing goes on.
Shut ==
    /\ ready <=> shutdown = "open"
    /\ shutdown # "closing" => doomed = {}
    /\ shutdown # "open" /\ ~late =>
          /\ openers = {} /\ checkers = {} /\ \A c \in Callers : pc[c] = "free"
          /\ \A k \in Keys : table[k] = None

Safe == Types /\ Apart /\ SharedByKey /\ Locked /\ Unspoiled /\ NoneClosed /\ Shut

LEMMA NewIs ==
    ASSUME Types, NEW p, New(p)
    PROVE  /\ p \in Procs /\ p # None /\ proc[p] # "running" /\ proc[p] # "starting"
           /\ p \notin doomed /\ p \notin checkers
           /\ \A k \in Keys : table[k] # p
           /\ \A c \in Callers : held[c] # p
           /\ \A t \in openers : t[2] # p
  <1>1. p \in Unused /\ p \in Procs /\ p # None
    BY VerifierSessionsAssumption DEF New, Unused
  <1>2. proc[p] \notin {"starting", "running"} /\ p \notin Referred
    BY <1>1 DEF Unused
  <1>3. p \notin InTable /\ p \notin InHands /\ p \notin InThread /\ p \notin doomed
    BY <1>1, <1>2 DEF Referred
  <1>4. \A k \in Keys : table[k] # p
    BY <1>1, <1>3 DEF InTable
  <1>5. \A c \in Callers : held[c] # p
    BY <1>1, <1>3 DEF InHands
  <1>6. p \notin checkers /\ \A t \in openers : t[2] # p
    BY <1>3 DEF InThread
  <1> QED
    BY <1>1, <1>2, <1>3, <1>4, <1>5, <1>6

\* _drop_session: nothing is there, or what is there is in the hands of the caller now.
LEMMA DropsIs ==
    ASSUME Types, NEW c \in Callers, pc[c] # "free", Drops(c)
    PROVE  /\ key[c] \in Keys /\ lock' = (IF lock = c THEN None ELSE lock)
           /\ \/ /\ table[key[c]] = None /\ table' = table
                 /\ pc' = [pc EXCEPT ![c] = "free"] /\ held' = [held EXCEPT ![c] = None]
                 /\ key' = [key EXCEPT ![c] = None]
              \/ /\ table[key[c]] # None /\ table[key[c]] \in Procs
                 /\ table' = [table EXCEPT ![key[c]] = None] /\ key' = key
                 /\ pc' = [pc EXCEPT ![c] = "dropping"]
                 /\ held' = [held EXCEPT ![c] = table[key[c]]]
  BY DEF Types, Drops, Ends, Goes, Holds, Unlocked

\* Dropping and ending keep the places of processes apart, whatever the caller had.
LEMMA DropsApart ==
    ASSUME Types, Apart, NEW c \in Callers, pc[c] # "free", Drops(c),
           openers' = openers, doomed' = doomed,
           checkers' = checkers \/ (pc[c] = "fresh" /\ checkers' = checkers \cup {held[c]})
    PROVE  Apart'
  <1>1. PICK v : v = table[key[c]]
    OBVIOUS
  <1>2. CASE table' = table /\ pc' = [pc EXCEPT ![c] = "free"] /\ held' = [held EXCEPT ![c] = None]
    BY <1>2 DEF Types, Apart, Grips
  <1>3. CASE /\ key[c] \in Keys /\ v # None
             /\ table' = [table EXCEPT ![key[c]] = None]
             /\ pc' = [pc EXCEPT ![c] = "dropping"] /\ held' = [held EXCEPT ![c] = v]
    <2>1. /\ \A k \in Keys : /\ table'[k] # v
                             /\ table'[k] # None => table'[k] = table[k]
          /\ v \notin doomed /\ v \notin checkers /\ (v # held[c] \/ ~Grips(c))
          /\ \A t \in openers : t[2] # v
          /\ \A d \in Callers : Grips(d) => held[d] # v
      BY <1>1, <1>3 DEF Types, Apart
    <2>2. \A d \in Callers : d # c => pc'[d] = pc[d] /\ held'[d] = held[d]
      BY <1>3 DEF Types
    <2>3. pc'[c] = "dropping" /\ held'[c] = v
      BY <1>3 DEF Types
    <2>4. /\ \A k, l \in Keys : table'[k] # None /\ table'[k] = table'[l] => k = l
          /\ \A k \in Keys : table'[k] \notin doomed' /\ table'[k] \notin checkers'
          /\ \A p \in checkers' : p \notin doomed'
          /\ \A t \in openers' : t[2] # None =>
                /\ \A k \in Keys : table'[k] # t[2]
                /\ t[2] \notin doomed' /\ t[2] \notin checkers'
                /\ \A u \in openers' : u[2] = t[2] => u = t
      <3>1. \A k, l \in Keys : table'[k] # None /\ table'[k] = table'[l] => k = l
        BY <2>1 DEF Apart
      <3>2. None \notin doomed /\ None \notin checkers
        BY VerifierSessionsAssumption DEF Types
      <3>3. \A q \in checkers' : q \in checkers \/ (Grips(c) /\ q = held[c])
        BY DEF Grips
      <3>4. \A k \in Keys : table'[k] = None \/ table'[k] = table[k]
        BY <2>1
      <3>5. \A k \in Keys : table'[k] \notin doomed' /\ table'[k] \notin checkers'
        <4>1. Grips(c) => held[c] # None
          BY DEF Types, Grips
        <4> QED
          BY <3>2, <3>3, <3>4, <4>1 DEF Apart
      <3>6. \A q \in checkers' : q \notin doomed'
        BY <3>3 DEF Apart
      <3>7. ASSUME NEW t \in openers', t[2] # None
            PROVE  /\ \A k \in Keys : table'[k] # t[2]
                   /\ t[2] \notin doomed' /\ t[2] \notin checkers'
                   /\ \A u \in openers' : u[2] = t[2] => u = t
        BY <3>3, <3>4, <3>7 DEF Apart
      <3> QED
        BY <3>1, <3>5, <3>6, <3>7
    <2>5. v \notin checkers' /\ v \notin doomed'
      BY <1>1, <1>3, <2>1 DEF Apart, Grips
    <2>6. ASSUME NEW d \in Callers, Grips(d)'
          PROVE  /\ \A k \in Keys : table'[k] # held'[d]
                 /\ held'[d] \notin doomed' /\ held'[d] \notin checkers'
                 /\ \A t \in openers' : t[2] # held'[d]
                 /\ \A e \in Callers : Grips(e)' /\ held'[e] = held'[d] => e = d
      BY <1>1, <1>3, <2>1, <2>2, <2>3, <2>5, <2>6 DEF Types, Apart, Grips
    <2> QED
      BY <2>4, <2>6 DEF Apart
  <1> QED
    BY <1>1, <1>2, <1>3, DropsIs

----------------------------------------------------------------------------
(* The steps                                                               *)

LEMMA CallKeeps ==
    ASSUME Safe, NEW c \in Callers, NEW k \in Keys, Call(c, k)
    PROVE  Safe'
  <1>1. Types'
    BY VerifierSessionsAssumption DEF Safe, Types, Call, Goes, Holds, Becomes, callVars, tableVars, threadVars, closeVars
  <1>2. Apart'
    BY VerifierSessionsAssumption DEF Safe, Types, Apart, Grips, Call, Goes, Holds, Becomes, callVars, tableVars, threadVars, closeVars
  <1>3. SharedByKey'
    BY VerifierSessionsAssumption DEF Safe, Types, Apart, SharedByKey, Shares, Grips, Call, Goes, Holds, Becomes, callVars, tableVars, threadVars, closeVars
  <1>4. Locked'
    BY VerifierSessionsAssumption DEF Safe, Types, Locked, OnlyServersHaveLines, PoolsAreNotOpened, Call, Goes, Holds, Becomes, callVars, tableVars, threadVars, closeVars
  <1>5. Unspoiled'
    BY VerifierSessionsAssumption DEF Safe, Types, Apart, SharedByKey, Shares, Unspoiled, Grips, Call, Goes, Holds, Becomes, callVars, tableVars, threadVars, closeVars
  <1>6. NoneClosed'
    BY VerifierSessionsAssumption DEF Safe, Types, Apart, NoneClosed, Grips, Call, Goes, Holds, Becomes, callVars, tableVars, threadVars, closeVars
  <1>7. Shut'
    BY VerifierSessionsAssumption DEF Safe, Types, Shut, Grips, Shares, Call, Goes, Holds, Becomes, callVars, tableVars, threadVars, closeVars
  <1> QED
    BY <1>1, <1>2, <1>3, <1>4, <1>5, <1>6, <1>7 DEF Safe

LEMMA CallPoolKeeps ==
    ASSUME Safe, NEW c \in Callers, NEW k \in Keys, NEW p \in Procs, CallPool(c, k, p)
    PROVE  Safe'
  <1>0. New(p) => /\ p \in Procs /\ p # None /\ p \notin doomed /\ p \notin checkers
                  /\ \A l \in Keys : table[l] # p
                  /\ \A d \in Callers : held[d] # p
                  /\ \A t \in openers : t[2] # p
    BY NewIs DEF Safe
  <1>1. Types'
    BY <1>0, VerifierSessionsAssumption DEF Safe, Types, CallPool, Goes, Holds, Becomes, callVars, tableVars, threadVars, closeVars
  <1>2. Apart'
    BY <1>0, VerifierSessionsAssumption DEF Safe, Types, Apart, Grips, CallPool, Goes, Holds, Becomes, callVars, tableVars, threadVars, closeVars
  <1>3. SharedByKey'
    BY <1>0, VerifierSessionsAssumption DEF Safe, Types, Apart, SharedByKey, Shares, Grips, CallPool, Goes, Holds, Becomes, callVars, tableVars, threadVars, closeVars
  <1>4. Locked'
    BY <1>0, VerifierSessionsAssumption DEF Safe, Types, Locked, OnlyServersHaveLines, PoolsAreNotOpened, CallPool, Goes, Holds, Becomes, callVars, tableVars, threadVars, closeVars
  <1>5. Unspoiled'
    BY <1>0, VerifierSessionsAssumption DEF Safe, Types, Apart, SharedByKey, Shares, Unspoiled, Grips, CallPool, Goes, Holds, Becomes, callVars, tableVars, threadVars, closeVars
  <1>6. NoneClosed'
    <2>1. CASE table[k] # None
      BY <2>1 DEF Safe, NoneClosed, CallPool
    <2>2. CASE table[k] = None
      <3>1. New(p) /\ table' = [table EXCEPT ![k] = p] /\ proc' = [proc EXCEPT ![p] = "running"]
        BY <2>2 DEF CallPool, Becomes
      <3>2. \A l \in Keys : table[l] # None => table[l] \in Procs /\ proc'[table[l]] = proc[table[l]]
        BY <1>0, <3>1 DEF Safe, Types
      <3>3. proc'[p] = "running" /\ \A l \in Keys : table'[l] = IF l = k THEN p ELSE table[l]
        BY <3>1 DEF Safe, Types
      <3> QED
        BY <3>2, <3>3 DEF Safe, NoneClosed
    <2> QED
      BY <2>1, <2>2
  <1>7. Shut'
    BY <1>0, VerifierSessionsAssumption DEF Safe, Types, Shut, Grips, Shares, CallPool, Goes, Holds, Becomes, callVars, tableVars, threadVars, closeVars
  <1> QED
    BY <1>1, <1>2, <1>3, <1>4, <1>5, <1>6, <1>7 DEF Safe

LEMMA GetLockKeeps ==
    ASSUME Safe, NEW c \in Callers, GetLock(c)
    PROVE  Safe'
  <1>1. Types'
    BY VerifierSessionsAssumption DEF Safe, Types, GetLock, Goes, Holds, Becomes, callVars, tableVars, threadVars, closeVars, MayTakeLock
  <1>2. Apart'
    BY VerifierSessionsAssumption DEF Safe, Types, Apart, Grips, GetLock, Goes, Holds, Becomes, callVars, tableVars, threadVars, closeVars, MayTakeLock
  <1>3. SharedByKey'
    BY VerifierSessionsAssumption DEF Safe, Types, Apart, SharedByKey, Shares, Grips, GetLock, Goes, Holds, Becomes, callVars, tableVars, threadVars, closeVars, MayTakeLock
  <1>4. Locked'
    BY VerifierSessionsAssumption DEF Safe, Types, Locked, OnlyServersHaveLines, PoolsAreNotOpened, GetLock, Goes, Holds, Becomes, callVars, tableVars, threadVars, closeVars, MayTakeLock
  <1>5. Unspoiled'
    BY VerifierSessionsAssumption DEF Safe, Types, Apart, SharedByKey, Shares, Unspoiled, Grips, GetLock, Goes, Holds, Becomes, callVars, tableVars, threadVars, closeVars, MayTakeLock
  <1>6. NoneClosed'
    BY VerifierSessionsAssumption DEF Safe, Types, Apart, NoneClosed, Grips, GetLock, Goes, Holds, Becomes, callVars, tableVars, threadVars, closeVars, MayTakeLock
  <1>7. Shut'
    BY VerifierSessionsAssumption DEF Safe, Types, Shut, Grips, Shares, GetLock, Goes, Holds, Becomes, callVars, tableVars, threadVars, closeVars, MayTakeLock
  <1> QED
    BY <1>1, <1>2, <1>3, <1>4, <1>5, <1>6, <1>7 DEF Safe

LEMMA FindSessionKeeps ==
    ASSUME Safe, NEW c \in Callers, FindSession(c)
    PROVE  Safe'
  <1>1. Types'
    BY VerifierSessionsAssumption DEF Safe, Types, FindSession, Goes, Holds, Becomes, callVars, tableVars, threadVars, closeVars, GoesOnWith, Ends, Unlocked
  <1>2. Apart'
    BY VerifierSessionsAssumption DEF Safe, Types, Apart, Grips, FindSession, Goes, Holds, Becomes, callVars, tableVars, threadVars, closeVars, GoesOnWith, Ends, Unlocked
  <1>3. SharedByKey'
    BY VerifierSessionsAssumption DEF Safe, Types, Apart, SharedByKey, Shares, Grips, FindSession, Goes, Holds, Becomes, callVars, tableVars, threadVars, closeVars, GoesOnWith, Ends, Unlocked
  <1>4. Locked'
    BY VerifierSessionsAssumption DEF Safe, Types, Locked, OnlyServersHaveLines, PoolsAreNotOpened, FindSession, Goes, Holds, Becomes, callVars, tableVars, threadVars, closeVars, GoesOnWith, Ends, Unlocked
  <1>5. Unspoiled'
    BY VerifierSessionsAssumption DEF Safe, Types, Apart, SharedByKey, Shares, Unspoiled, Grips, FindSession, Goes, Holds, Becomes, callVars, tableVars, threadVars, closeVars, GoesOnWith, Ends, Unlocked
  <1>6. NoneClosed'
    BY VerifierSessionsAssumption DEF Safe, Types, Apart, NoneClosed, Grips, FindSession, Goes, Holds, Becomes, callVars, tableVars, threadVars, closeVars, GoesOnWith, Ends, Unlocked
  <1>7. Shut'
    BY VerifierSessionsAssumption DEF Safe, Types, Shut, Grips, Shares, FindSession, Goes, Holds, Becomes, callVars, tableVars, threadVars, closeVars, GoesOnWith, Ends, Unlocked
  <1> QED
    BY <1>1, <1>2, <1>3, <1>4, <1>5, <1>6, <1>7 DEF Safe

LEMMA StartSessionKeeps ==
    ASSUME Safe, NEW c \in Callers, NEW p \in Procs, StartSession(c, p)
    PROVE  Safe'
  <1>0. New(p) => /\ p \in Procs /\ p # None /\ p \notin doomed /\ p \notin checkers
                  /\ \A l \in Keys : table[l] # p
                  /\ \A d \in Callers : held[d] # p
                  /\ \A t \in openers : t[2] # p
    BY NewIs DEF Safe
  <1>1. Types'
    BY <1>0, VerifierSessionsAssumption DEF Safe, Types, StartSession, Goes, Holds, Becomes, callVars, tableVars, threadVars, closeVars
  <1>2. Apart'
    BY <1>0, VerifierSessionsAssumption DEF Safe, Types, Apart, Grips, StartSession, Goes, Holds, Becomes, callVars, tableVars, threadVars, closeVars
  <1>3. SharedByKey'
    BY <1>0, VerifierSessionsAssumption DEF Safe, Types, Apart, SharedByKey, Shares, Grips, StartSession, Goes, Holds, Becomes, callVars, tableVars, threadVars, closeVars
  <1>4. Locked'
    BY <1>0, VerifierSessionsAssumption DEF Safe, Types, Locked, OnlyServersHaveLines, PoolsAreNotOpened, StartSession, Goes, Holds, Becomes, callVars, tableVars, threadVars, closeVars
  <1>5. Unspoiled'
    BY <1>0, VerifierSessionsAssumption DEF Safe, Types, Apart, SharedByKey, Shares, Unspoiled, Grips, StartSession, Goes, Holds, Becomes, callVars, tableVars, threadVars, closeVars
  <1>6. NoneClosed'
    BY <1>0, VerifierSessionsAssumption DEF Safe, Types, Apart, NoneClosed, Grips, StartSession, Goes, Holds, Becomes, callVars, tableVars, threadVars, closeVars
  <1>7. Shut'
    BY <1>0, VerifierSessionsAssumption DEF Safe, Types, Shut, Grips, Shares, StartSession, Goes, Holds, Becomes, callVars, tableVars, threadVars, closeVars
  <1> QED
    BY <1>1, <1>2, <1>3, <1>4, <1>5, <1>6, <1>7 DEF Safe

LEMMA OpenedKeeps ==
    ASSUME Safe, NEW c \in Callers, Opened(c)
    PROVE  Safe'
  <1>1. Types'
    BY VerifierSessionsAssumption DEF Safe, Types, Opened, Goes, Holds, Becomes, callVars, tableVars, threadVars, closeVars, GoesOnWith, Ends, Unlocked
  <1>2. Apart'
    BY VerifierSessionsAssumption DEF Safe, Types, Apart, Grips, Opened, Goes, Holds, Becomes, callVars, tableVars, threadVars, closeVars, GoesOnWith, Ends, Unlocked
  <1>3. SharedByKey'
    BY VerifierSessionsAssumption DEF Safe, Types, Apart, SharedByKey, Shares, Grips, Opened, Goes, Holds, Becomes, callVars, tableVars, threadVars, closeVars, GoesOnWith, Ends, Unlocked
  <1>4. Locked'
    BY VerifierSessionsAssumption DEF Safe, Types, Locked, OnlyServersHaveLines, PoolsAreNotOpened, Opened, Goes, Holds, Becomes, callVars, tableVars, threadVars, closeVars, GoesOnWith, Ends, Unlocked
  <1>5. Unspoiled'
    BY VerifierSessionsAssumption DEF Safe, Types, Apart, SharedByKey, Shares, Unspoiled, Grips, Opened, Goes, Holds, Becomes, callVars, tableVars, threadVars, closeVars, GoesOnWith, Ends, Unlocked
  <1>6. NoneClosed'
    BY VerifierSessionsAssumption DEF Safe, Types, Apart, NoneClosed, Grips, Opened, Goes, Holds, Becomes, callVars, tableVars, threadVars, closeVars, GoesOnWith, Ends, Unlocked
  <1>7. Shut'
    BY VerifierSessionsAssumption DEF Safe, Types, Shut, Grips, Shares, Opened, Goes, Holds, Becomes, callVars, tableVars, threadVars, closeVars, GoesOnWith, Ends, Unlocked
  <1> QED
    BY <1>1, <1>2, <1>3, <1>4, <1>5, <1>6, <1>7 DEF Safe

LEMMA OpenFailsKeeps ==
    ASSUME Safe, NEW c \in Callers, OpenFails(c)
    PROVE  Safe'
  <1>1. Types'
    BY VerifierSessionsAssumption DEF Safe, Types, OpenFails, Goes, Holds, Becomes, callVars, tableVars, threadVars, closeVars, Drops, Ends, Unlocked
  <1>2. Apart'
    <2>1. CASE Drops(c)
      <3>1. /\ pc[c] # "free" /\ openers' = openers /\ doomed' = doomed /\ checkers' = checkers
        BY DEF OpenFails, threadVars, closeVars
      <3> QED
        BY <2>1, <3>1, DropsApart DEF Safe
    <2>2. CASE Ends(c) /\ table' = table
      BY <2>2 DEF Safe, Types, Apart, Grips, Ends, OpenFails, Goes, Holds, Becomes, callVars, tableVars, threadVars, closeVars
    <2> QED
      BY <2>1, <2>2 DEF OpenFails
  <1>3. SharedByKey'
    BY VerifierSessionsAssumption DEF Safe, Types, Apart, SharedByKey, Shares, Grips, OpenFails, Goes, Holds, Becomes, callVars, tableVars, threadVars, closeVars, Drops, Ends, Unlocked
  <1>4. Locked'
    BY VerifierSessionsAssumption DEF Safe, Types, Locked, OnlyServersHaveLines, PoolsAreNotOpened, OpenFails, Goes, Holds, Becomes, callVars, tableVars, threadVars, closeVars, Drops, Ends, Unlocked
  <1>5. Unspoiled'
    BY VerifierSessionsAssumption DEF Safe, Types, Apart, SharedByKey, Shares, Unspoiled, Grips, OpenFails, Goes, Holds, Becomes, callVars, tableVars, threadVars, closeVars, Drops, Ends, Unlocked
  <1>6. NoneClosed'
    BY VerifierSessionsAssumption DEF Safe, Types, Apart, NoneClosed, Grips, OpenFails, Goes, Holds, Becomes, callVars, tableVars, threadVars, closeVars, Drops, Ends, Unlocked
  <1>7. Shut'
    BY VerifierSessionsAssumption DEF Safe, Types, Shut, Grips, Shares, OpenFails, Goes, Holds, Becomes, callVars, tableVars, threadVars, closeVars, Drops, Ends, Unlocked
  <1> QED
    BY <1>1, <1>2, <1>3, <1>4, <1>5, <1>6, <1>7 DEF Safe

LEMMA GetServerKeeps ==
    ASSUME Safe, NEW c \in Callers, GetServer(c)
    PROVE  Safe'
  <1>1. Types'
    BY VerifierSessionsAssumption DEF Safe, Types, GetServer, Goes, Holds, Becomes, callVars, tableVars, threadVars, closeVars
  <1>2. Apart'
    BY VerifierSessionsAssumption DEF Safe, Types, Apart, Grips, GetServer, Goes, Holds, Becomes, callVars, tableVars, threadVars, closeVars
  <1>3. SharedByKey'
    BY VerifierSessionsAssumption DEF Safe, Types, Apart, SharedByKey, Shares, Grips, GetServer, Goes, Holds, Becomes, callVars, tableVars, threadVars, closeVars
  <1>4. Locked'
    <2>1. /\ backend' = backend /\ lock' = lock /\ key' = key
          /\ pc' = [pc EXCEPT ![c] = "using"] /\ pc[c] = "line"
          /\ \A d \in Callers : ~(pc[d] = "using" /\ key[d] = key[c])
      BY DEF GetServer, tableVars, Goes
    <2>2. backend # "dojo"
      BY <2>1 DEF Safe, Locked, OnlyServersHaveLines, PoolsAreNotOpened
    <2>3. \A d \in Callers : pc'[d] = IF d = c THEN "using" ELSE pc[d]
      BY <2>1 DEF Safe, Types
    <2> QED
      BY <2>1, <2>2, <2>3 DEF Safe, Locked, OnlyServersHaveLines, PoolsAreNotOpened
  <1>5. Unspoiled'
    BY VerifierSessionsAssumption DEF Safe, Types, Apart, SharedByKey, Shares, Unspoiled, Grips, GetServer, Goes, Holds, Becomes, callVars, tableVars, threadVars, closeVars
  <1>6. NoneClosed'
    BY VerifierSessionsAssumption DEF Safe, Types, Apart, NoneClosed, Grips, GetServer, Goes, Holds, Becomes, callVars, tableVars, threadVars, closeVars
  <1>7. Shut'
    BY VerifierSessionsAssumption DEF Safe, Types, Shut, Grips, Shares, GetServer, Goes, Holds, Becomes, callVars, tableVars, threadVars, closeVars
  <1> QED
    BY <1>1, <1>2, <1>3, <1>4, <1>5, <1>6, <1>7 DEF Safe

LEMMA UseEndsKeeps ==
    ASSUME Safe, NEW c \in Callers, UseEnds(c)
    PROVE  Safe'
  <1>1. Types'
    BY VerifierSessionsAssumption DEF Safe, Types, UseEnds, Goes, Holds, Becomes, callVars, tableVars, threadVars, closeVars, Ends, Unlocked
  <1>2. Apart'
    BY VerifierSessionsAssumption DEF Safe, Types, Apart, Grips, UseEnds, Goes, Holds, Becomes, callVars, tableVars, threadVars, closeVars, Ends, Unlocked
  <1>3. SharedByKey'
    BY VerifierSessionsAssumption DEF Safe, Types, Apart, SharedByKey, Shares, Grips, UseEnds, Goes, Holds, Becomes, callVars, tableVars, threadVars, closeVars, Ends, Unlocked
  <1>4. Locked'
    BY VerifierSessionsAssumption DEF Safe, Types, Locked, OnlyServersHaveLines, PoolsAreNotOpened, UseEnds, Goes, Holds, Becomes, callVars, tableVars, threadVars, closeVars, Ends, Unlocked
  <1>5. Unspoiled'
    BY VerifierSessionsAssumption DEF Safe, Types, Apart, SharedByKey, Shares, Unspoiled, Grips, UseEnds, Goes, Holds, Becomes, callVars, tableVars, threadVars, closeVars, Ends, Unlocked
  <1>6. NoneClosed'
    BY VerifierSessionsAssumption DEF Safe, Types, Apart, NoneClosed, Grips, UseEnds, Goes, Holds, Becomes, callVars, tableVars, threadVars, closeVars, Ends, Unlocked
  <1>7. Shut'
    BY VerifierSessionsAssumption DEF Safe, Types, Shut, Grips, Shares, UseEnds, Goes, Holds, Becomes, callVars, tableVars, threadVars, closeVars, Ends, Unlocked
  <1> QED
    BY <1>1, <1>2, <1>3, <1>4, <1>5, <1>6, <1>7 DEF Safe

LEMMA UseFailsKeeps ==
    ASSUME Safe, NEW c \in Callers, UseFails(c)
    PROVE  Safe'
  <1>1. Types'
    <2>1. CASE backend = "dojo"
      <3>1. pc[c] # "free" /\ Drops(c)
        BY <2>1 DEF UseFails
      <3>2. /\ table' \in [Keys -> Procs \cup {None}] /\ lock' \in Callers \cup {None}
            /\ pc' \in [Callers -> {"free", "lock", "look", "opening", "line", "using", "fresh",
                                    "dropping"}]
            /\ key' \in [Callers -> Keys \cup {None}]
            /\ held' \in [Callers -> Procs \cup {None}]
            /\ \A d \in Callers : pc'[d] \in {"free", "lock", "look"} <=> held'[d] = None
            /\ \A d \in Callers : pc'[d] # "free" => key'[d] \in Keys
        BY <3>1, DropsIs DEF Safe, Types
      <3>3. held[c] \in Procs
        BY DEF Safe, Types, UseFails
      <3> QED
        BY <2>1, <3>2, <3>3 DEF Safe, Types, UseFails, closeVars, threadVars
    <2>2. CASE backend # "dojo"
      BY <2>2 DEF Safe, Types, UseFails, Ends, Unlocked, Goes, Holds, Becomes, callVars, tableVars, threadVars, closeVars
    <2> QED
      BY <2>1, <2>2
  <1>2. Apart'
    <2>1. CASE Drops(c)
      <3>1. /\ pc[c] # "free" /\ openers' = openers /\ doomed' = doomed /\ checkers' = checkers
        BY DEF UseFails, threadVars, closeVars
      <3> QED
        BY <2>1, <3>1, DropsApart DEF Safe
    <2>2. CASE Ends(c) /\ table' = table
      BY <2>2 DEF Safe, Types, Apart, Grips, Ends, UseFails, Goes, Holds, Becomes, callVars, tableVars, threadVars, closeVars
    <2> QED
      BY <2>1, <2>2 DEF UseFails
  <1>3. SharedByKey'
    BY VerifierSessionsAssumption DEF Safe, Types, Apart, SharedByKey, Shares, Grips, UseFails, Goes, Holds, Becomes, callVars, tableVars, threadVars, closeVars, Drops, Ends, Unlocked
  <1>4. Locked'
    BY VerifierSessionsAssumption DEF Safe, Types, Locked, OnlyServersHaveLines, PoolsAreNotOpened, UseFails, Goes, Holds, Becomes, callVars, tableVars, threadVars, closeVars, Drops, Ends, Unlocked
  <1>5. Unspoiled'
    <2>1. CASE backend = "dojo"
      <3>1. PICK p, k : p = held[c] /\ k = key[c]
        OBVIOUS
      <3>2. /\ pc[c] = "using" /\ Drops(c) /\ spoiled' = spoiled \cup {p} /\ openers' = openers
        BY <2>1, <3>1 DEF UseFails, threadVars
      <3>3. /\ p # None /\ \A l \in Keys : table[l] = p => l = k
            /\ \A d \in Callers : pc[d] = "opening" => held[d] # p
            /\ \A t \in openers : t[2] # p
        BY <3>1, <3>2 DEF Safe, Types, SharedByKey, Shares
      <3>4. /\ k \in Keys /\ table'[k] = None
            /\ \A l \in Keys : l # k => table'[l] = table[l]
            /\ \A d \in Callers : pc'[d] = "opening" => pc[d] = "opening" /\ held'[d] = held[d]
        BY <3>1, <3>2, DropsIs DEF Safe, Types
      <3>5. \A q \in spoiled' :
               /\ \A l \in Keys : table'[l] # q
               /\ \A d \in Callers : pc'[d] = "opening" => held'[d] # q
               /\ \A t \in openers' : t[2] # q
        <4>1. None \notin spoiled'
          BY <3>2, <3>3, VerifierSessionsAssumption DEF Safe, Types
        <4> QED
          BY <3>2, <3>3, <3>4, <4>1 DEF Safe, Unspoiled
      <3>6. backend' = "dojo"
        BY <2>1 DEF UseFails
      <3> QED
        BY <3>5, <3>6 DEF Unspoiled
    <2>2. CASE backend # "dojo"
      BY <2>2 DEF Safe, Types, Unspoiled, UseFails, Ends, Goes, Holds, Becomes, callVars, tableVars, threadVars, closeVars
    <2> QED
      BY <2>1, <2>2
  <1>6. NoneClosed'
    BY VerifierSessionsAssumption DEF Safe, Types, Apart, NoneClosed, Grips, UseFails, Goes, Holds, Becomes, callVars, tableVars, threadVars, closeVars, Drops, Ends, Unlocked
  <1>7. Shut'
    BY VerifierSessionsAssumption DEF Safe, Types, Shut, Grips, Shares, UseFails, Goes, Holds, Becomes, callVars, tableVars, threadVars, closeVars, Drops, Ends, Unlocked
  <1> QED
    BY <1>1, <1>2, <1>3, <1>4, <1>5, <1>6, <1>7 DEF Safe

LEMMA DropEndsKeeps ==
    ASSUME Safe, NEW c \in Callers, DropEnds(c)
    PROVE  Safe'
  <1>1. Types'
    BY VerifierSessionsAssumption DEF Safe, Types, DropEnds, Goes, Holds, Becomes, callVars, tableVars, threadVars, closeVars, Ends, Unlocked
  <1>2. Apart'
    BY VerifierSessionsAssumption DEF Safe, Types, Apart, Grips, DropEnds, Goes, Holds, Becomes, callVars, tableVars, threadVars, closeVars, Ends, Unlocked
  <1>3. SharedByKey'
    BY VerifierSessionsAssumption DEF Safe, Types, Apart, SharedByKey, Shares, Grips, DropEnds, Goes, Holds, Becomes, callVars, tableVars, threadVars, closeVars, Ends, Unlocked
  <1>4. Locked'
    BY VerifierSessionsAssumption DEF Safe, Types, Locked, OnlyServersHaveLines, PoolsAreNotOpened, DropEnds, Goes, Holds, Becomes, callVars, tableVars, threadVars, closeVars, Ends, Unlocked
  <1>5. Unspoiled'
    BY VerifierSessionsAssumption DEF Safe, Types, Apart, SharedByKey, Shares, Unspoiled, Grips, DropEnds, Goes, Holds, Becomes, callVars, tableVars, threadVars, closeVars, Ends, Unlocked
  <1>6. NoneClosed'
    BY VerifierSessionsAssumption DEF Safe, Types, Apart, NoneClosed, Grips, DropEnds, Goes, Holds, Becomes, callVars, tableVars, threadVars, closeVars, Ends, Unlocked
  <1>7. Shut'
    BY VerifierSessionsAssumption DEF Safe, Types, Shut, Grips, Shares, DropEnds, Goes, Holds, Becomes, callVars, tableVars, threadVars, closeVars, Ends, Unlocked
  <1> QED
    BY <1>1, <1>2, <1>3, <1>4, <1>5, <1>6, <1>7 DEF Safe

LEMMA CheckFreshKeeps ==
    ASSUME Safe, NEW c \in Callers, NEW k \in Keys, NEW p \in Procs, CheckFresh(c, k, p)
    PROVE  Safe'
  <1>0. New(p) => /\ p \in Procs /\ p # None /\ p \notin doomed /\ p \notin checkers
                  /\ \A l \in Keys : table[l] # p
                  /\ \A d \in Callers : held[d] # p
                  /\ \A t \in openers : t[2] # p
    BY NewIs DEF Safe
  <1>1. Types'
    BY <1>0, VerifierSessionsAssumption DEF Safe, Types, CheckFresh, Goes, Holds, Becomes, callVars, tableVars, threadVars, closeVars
  <1>2. Apart'
    BY <1>0, VerifierSessionsAssumption DEF Safe, Types, Apart, Grips, CheckFresh, Goes, Holds, Becomes, callVars, tableVars, threadVars, closeVars
  <1>3. SharedByKey'
    BY <1>0, VerifierSessionsAssumption DEF Safe, Types, Apart, SharedByKey, Shares, Grips, CheckFresh, Goes, Holds, Becomes, callVars, tableVars, threadVars, closeVars
  <1>4. Locked'
    BY <1>0, VerifierSessionsAssumption DEF Safe, Types, Locked, OnlyServersHaveLines, PoolsAreNotOpened, CheckFresh, Goes, Holds, Becomes, callVars, tableVars, threadVars, closeVars
  <1>5. Unspoiled'
    BY <1>0, VerifierSessionsAssumption DEF Safe, Types, Apart, SharedByKey, Shares, Unspoiled, Grips, CheckFresh, Goes, Holds, Becomes, callVars, tableVars, threadVars, closeVars
  <1>6. NoneClosed'
    BY <1>0, VerifierSessionsAssumption DEF Safe, Types, Apart, NoneClosed, Grips, CheckFresh, Goes, Holds, Becomes, callVars, tableVars, threadVars, closeVars
  <1>7. Shut'
    BY <1>0, VerifierSessionsAssumption DEF Safe, Types, Shut, Grips, Shares, CheckFresh, Goes, Holds, Becomes, callVars, tableVars, threadVars, closeVars
  <1> QED
    BY <1>1, <1>2, <1>3, <1>4, <1>5, <1>6, <1>7 DEF Safe

LEMMA FreshEndsKeeps ==
    ASSUME Safe, NEW c \in Callers, FreshEnds(c)
    PROVE  Safe'
  <1>1. Types'
    BY VerifierSessionsAssumption DEF Safe, Types, FreshEnds, Goes, Holds, Becomes, callVars, tableVars, threadVars, closeVars, Drops, Ends, Unlocked
  <1>2. Apart'
    <2>1. CASE Drops(c)
      <3>1. /\ pc[c] # "free" /\ openers' = openers /\ doomed' = doomed /\ checkers' = checkers
        BY DEF FreshEnds, threadVars, closeVars
      <3> QED
        BY <2>1, <3>1, DropsApart DEF Safe
    <2>2. CASE Ends(c) /\ table' = table
      BY <2>2 DEF Safe, Types, Apart, Grips, Ends, FreshEnds, Goes, Holds, Becomes, callVars, tableVars, threadVars, closeVars
    <2> QED
      BY <2>1, <2>2 DEF FreshEnds
  <1>3. SharedByKey'
    BY VerifierSessionsAssumption DEF Safe, Types, Apart, SharedByKey, Shares, Grips, FreshEnds, Goes, Holds, Becomes, callVars, tableVars, threadVars, closeVars, Drops, Ends, Unlocked
  <1>4. Locked'
    BY VerifierSessionsAssumption DEF Safe, Types, Locked, OnlyServersHaveLines, PoolsAreNotOpened, FreshEnds, Goes, Holds, Becomes, callVars, tableVars, threadVars, closeVars, Drops, Ends, Unlocked
  <1>5. Unspoiled'
    BY VerifierSessionsAssumption DEF Safe, Types, Apart, SharedByKey, Shares, Unspoiled, Grips, FreshEnds, Goes, Holds, Becomes, callVars, tableVars, threadVars, closeVars, Drops, Ends, Unlocked
  <1>6. NoneClosed'
    BY VerifierSessionsAssumption DEF Safe, Types, Apart, NoneClosed, Grips, FreshEnds, Goes, Holds, Becomes, callVars, tableVars, threadVars, closeVars, Drops, Ends, Unlocked
  <1>7. Shut'
    BY VerifierSessionsAssumption DEF Safe, Types, Shut, Grips, Shares, FreshEnds, Goes, Holds, Becomes, callVars, tableVars, threadVars, closeVars, Drops, Ends, Unlocked
  <1> QED
    BY <1>1, <1>2, <1>3, <1>4, <1>5, <1>6, <1>7 DEF Safe

LEMMA FreshTimesOutKeeps ==
    ASSUME Safe, NEW c \in Callers, FreshTimesOut(c)
    PROVE  Safe'
  <1>1. Types'
    <2>1. pc[c] # "free" /\ Drops(c)
      BY DEF FreshTimesOut
    <2>2. /\ table' \in [Keys -> Procs \cup {None}] /\ lock' \in Callers \cup {None}
          /\ pc' \in [Callers -> {"free", "lock", "look", "opening", "line", "using", "fresh",
                                  "dropping"}]
          /\ key' \in [Callers -> Keys \cup {None}] /\ held' \in [Callers -> Procs \cup {None}]
          /\ \A d \in Callers : pc'[d] \in {"free", "lock", "look"} <=> held'[d] = None
          /\ \A d \in Callers : pc'[d] # "free" => key'[d] \in Keys
      BY <2>1, DropsIs DEF Safe, Types
    <2>3. held[c] \in Procs /\ abandoned' \in 0..MaxAbandoned
      BY VerifierSessionsAssumption DEF Safe, Types, FreshTimesOut, Abandons
    <2> QED
      BY <2>2, <2>3 DEF Safe, Types, FreshTimesOut, closeVars
  <1>2. Apart'
    <2>1. /\ pc[c] = "fresh" /\ openers' = openers /\ doomed' = doomed
          /\ checkers' = checkers \cup {held[c]} /\ Drops(c)
      BY DEF FreshTimesOut, closeVars
    <2> QED
      BY <2>1, DropsApart DEF Safe
  <1>3. SharedByKey'
    BY VerifierSessionsAssumption DEF Safe, Types, Apart, SharedByKey, Shares, Grips, FreshTimesOut, Goes, Holds, Becomes, callVars, tableVars, threadVars, closeVars, Drops, Ends, Unlocked, Abandons
  <1>4. Locked'
    BY VerifierSessionsAssumption DEF Safe, Types, Locked, OnlyServersHaveLines, PoolsAreNotOpened, FreshTimesOut, Goes, Holds, Becomes, callVars, tableVars, threadVars, closeVars, Drops, Ends, Unlocked, Abandons
  <1>5. Unspoiled'
    BY VerifierSessionsAssumption DEF Safe, Types, Apart, SharedByKey, Shares, Unspoiled, Grips, FreshTimesOut, Goes, Holds, Becomes, callVars, tableVars, threadVars, closeVars, Drops, Ends, Unlocked, Abandons
  <1>6. NoneClosed'
    BY VerifierSessionsAssumption DEF Safe, Types, Apart, NoneClosed, Grips, FreshTimesOut, Goes, Holds, Becomes, callVars, tableVars, threadVars, closeVars, Drops, Ends, Unlocked, Abandons
  <1>7. Shut'
    BY VerifierSessionsAssumption DEF Safe, Types, Shut, Grips, Shares, FreshTimesOut, Goes, Holds, Becomes, callVars, tableVars, threadVars, closeVars, Drops, Ends, Unlocked, Abandons
  <1> QED
    BY <1>1, <1>2, <1>3, <1>4, <1>5, <1>6, <1>7 DEF Safe

LEMMA CancelKeeps ==
    ASSUME Safe, NEW c \in Callers, Cancel(c)
    PROVE  Safe'
  <1>1. Types'
    <2>1. openers' \subseteq Keys \X (Procs \cup {None})
      <3>1. <<key[c], held[c]>> \in Keys \X (Procs \cup {None})
        BY DEF Safe, Types, Cancel
      <3> QED
        BY <3>1 DEF Safe, Types, Cancel
    <2>2. checkers' \subseteq Procs
      BY DEF Safe, Types, Cancel
    <2>3. proc' \in [Procs -> {"none", "starting", "running", "closed"}]
      BY DEF Safe, Types, Cancel
    <2>4. abandoned' \in 0..MaxAbandoned
      BY VerifierSessionsAssumption DEF Safe, Types, Cancel, Abandons
    <2> QED
      BY <2>1, <2>2, <2>3, <2>4 DEF Safe, Types, Cancel, Ends, Unlocked, Goes, Holds, closeVars
  <1>2. Apart'
    BY VerifierSessionsAssumption DEF Safe, Types, Apart, Grips, Cancel, Goes, Holds, Becomes, callVars, tableVars, threadVars, closeVars, Ends, Unlocked, Abandons
  <1>3. SharedByKey'
    BY VerifierSessionsAssumption DEF Safe, Types, Apart, SharedByKey, Shares, Grips, Cancel, Goes, Holds, Becomes, callVars, tableVars, threadVars, closeVars, Ends, Unlocked, Abandons
  <1>4. Locked'
    BY VerifierSessionsAssumption DEF Safe, Types, Locked, OnlyServersHaveLines, PoolsAreNotOpened, Cancel, Goes, Holds, Becomes, callVars, tableVars, threadVars, closeVars, Ends, Unlocked, Abandons
  <1>5. Unspoiled'
    BY VerifierSessionsAssumption DEF Safe, Types, Apart, SharedByKey, Shares, Unspoiled, Grips, Cancel, Goes, Holds, Becomes, callVars, tableVars, threadVars, closeVars, Ends, Unlocked, Abandons
  <1>6. NoneClosed'
    BY VerifierSessionsAssumption DEF Safe, Types, Apart, NoneClosed, Grips, Cancel, Goes, Holds, Becomes, callVars, tableVars, threadVars, closeVars, Ends, Unlocked, Abandons
  <1>7. Shut'
    BY VerifierSessionsAssumption DEF Safe, Types, Shut, Grips, Shares, Cancel, Goes, Holds, Becomes, callVars, tableVars, threadVars, closeVars, Ends, Unlocked, Abandons
  <1> QED
    BY <1>1, <1>2, <1>3, <1>4, <1>5, <1>6, <1>7 DEF Safe

LEMMA ThreadLooksKeeps ==
    ASSUME Safe, NEW k \in Keys, NEW p \in Procs, ThreadLooks(k, p)
    PROVE  Safe'
  <1>0. New(p) => /\ p \in Procs /\ p # None /\ p \notin doomed /\ p \notin checkers
                  /\ \A l \in Keys : table[l] # p
                  /\ \A d \in Callers : held[d] # p
                  /\ \A t \in openers : t[2] # p
    BY NewIs DEF Safe
  <1>1. Types'
    <2>1. CASE table[k] # None
      BY <2>1 DEF Safe, Types, ThreadLooks, Goes, Holds, Becomes, callVars, tableVars, threadVars, closeVars
    <2>2. CASE table[k] = None
      BY <1>0, <2>2 DEF Safe, Types, ThreadLooks, Goes, Holds, Becomes, callVars, tableVars, threadVars, closeVars
    <2> QED
      BY <2>1, <2>2
  <1>2. Apart'
    BY <1>0, VerifierSessionsAssumption DEF Safe, Types, Apart, Grips, ThreadLooks, Goes, Holds, Becomes, callVars, tableVars, threadVars, closeVars
  <1>3. SharedByKey'
    BY <1>0, VerifierSessionsAssumption DEF Safe, Types, Apart, SharedByKey, Shares, Grips, ThreadLooks, Goes, Holds, Becomes, callVars, tableVars, threadVars, closeVars
  <1>4. Locked'
    BY <1>0, VerifierSessionsAssumption DEF Safe, Types, Locked, OnlyServersHaveLines, PoolsAreNotOpened, ThreadLooks, Goes, Holds, Becomes, callVars, tableVars, threadVars, closeVars
  <1>5. Unspoiled'
    <2>1. CASE table[k] # None
      BY <2>1 DEF Safe, Unspoiled, ThreadLooks, Goes, Holds, Becomes, callVars, tableVars, threadVars, closeVars
    <2>2. CASE table[k] = None
      <3>1. /\ New(p) /\ spoiled' = spoiled \ {p} /\ table' = table /\ pc' = pc /\ held' = held
            /\ \A t \in openers' : t \in openers \/ t = <<k, p>>
        BY <2>2 DEF ThreadLooks, tableVars, callVars
      <3> QED
        BY <1>0, <3>1 DEF Safe, Unspoiled, ThreadLooks
    <2> QED
      BY <2>1, <2>2
  <1>6. NoneClosed'
    <2>1. CASE table[k] # None
      BY <2>1 DEF Safe, NoneClosed, ThreadLooks, Goes, Holds, Becomes, callVars, tableVars, threadVars, closeVars
    <2>2. CASE table[k] = None
      <3>1. /\ New(p) /\ proc' = [proc EXCEPT ![p] = "starting"] /\ table' = table
        BY <2>2 DEF ThreadLooks, Becomes, tableVars
      <3>2. \A l \in Keys : table[l] # None => table[l] \in Procs /\ proc'[table[l]] = proc[table[l]]
        BY <1>0, <3>1 DEF Safe, Types
      <3> QED
        BY <3>1, <3>2 DEF Safe, NoneClosed
    <2> QED
      BY <2>1, <2>2
  <1>7. Shut'
    BY <1>0, VerifierSessionsAssumption DEF Safe, Types, Shut, Grips, Shares, ThreadLooks, Goes, Holds, Becomes, callVars, tableVars, threadVars, closeVars
  <1> QED
    BY <1>1, <1>2, <1>3, <1>4, <1>5, <1>6, <1>7 DEF Safe

LEMMA ThreadOpensKeeps ==
    ASSUME Safe, NEW k \in Keys, NEW p \in Procs, ThreadOpens(k, p)
    PROVE  Safe'
  <1>1. Types'
    BY VerifierSessionsAssumption DEF Safe, Types, ThreadOpens, Goes, Holds, Becomes, callVars, tableVars, threadVars, closeVars
  <1>2. Apart'
    BY VerifierSessionsAssumption DEF Safe, Types, Apart, Grips, ThreadOpens, Goes, Holds, Becomes, callVars, tableVars, threadVars, closeVars
  <1>3. SharedByKey'
    BY VerifierSessionsAssumption DEF Safe, Types, Apart, SharedByKey, Shares, Grips, ThreadOpens, Goes, Holds, Becomes, callVars, tableVars, threadVars, closeVars
  <1>4. Locked'
    BY VerifierSessionsAssumption DEF Safe, Types, Locked, OnlyServersHaveLines, PoolsAreNotOpened, ThreadOpens, Goes, Holds, Becomes, callVars, tableVars, threadVars, closeVars
  <1>5. Unspoiled'
    BY VerifierSessionsAssumption DEF Safe, Types, Apart, SharedByKey, Shares, Unspoiled, Grips, ThreadOpens, Goes, Holds, Becomes, callVars, tableVars, threadVars, closeVars
  <1>6. NoneClosed'
    <2>1. \A l \in Keys : table[l] # p
      BY DEF Safe, Types, Apart, ThreadOpens
    <2>2. proc'[p] # "closed" /\ \A q \in Procs : q # p => proc'[q] = proc[q]
      BY DEF Safe, Types, ThreadOpens, Becomes
    <2>3. \A l \in Keys : table'[l] = table[l] \/ table'[l] = p
      BY DEF Safe, Types, ThreadOpens
    <2>4. \A l \in Keys : table[l] # None => table[l] \in Procs /\ proc'[table[l]] = proc[table[l]]
      BY <2>1, <2>2 DEF Safe, Types
    <2> QED
      BY <2>1, <2>2, <2>3, <2>4 DEF Safe, NoneClosed
  <1>7. Shut'
    BY VerifierSessionsAssumption DEF Safe, Types, Shut, Grips, Shares, ThreadOpens, Goes, Holds, Becomes, callVars, tableVars, threadVars, closeVars
  <1> QED
    BY <1>1, <1>2, <1>3, <1>4, <1>5, <1>6, <1>7 DEF Safe

LEMMA CheckerEndsKeeps ==
    ASSUME Safe, NEW p \in Procs, CheckerEnds(p)
    PROVE  Safe'
  <1>1. Types'
    BY VerifierSessionsAssumption DEF Safe, Types, CheckerEnds, Goes, Holds, Becomes, callVars, tableVars, threadVars, closeVars
  <1>2. Apart'
    BY VerifierSessionsAssumption DEF Safe, Types, Apart, Grips, CheckerEnds, Goes, Holds, Becomes, callVars, tableVars, threadVars, closeVars
  <1>3. SharedByKey'
    BY VerifierSessionsAssumption DEF Safe, Types, Apart, SharedByKey, Shares, Grips, CheckerEnds, Goes, Holds, Becomes, callVars, tableVars, threadVars, closeVars
  <1>4. Locked'
    BY VerifierSessionsAssumption DEF Safe, Types, Locked, OnlyServersHaveLines, PoolsAreNotOpened, CheckerEnds, Goes, Holds, Becomes, callVars, tableVars, threadVars, closeVars
  <1>5. Unspoiled'
    BY VerifierSessionsAssumption DEF Safe, Types, Apart, SharedByKey, Shares, Unspoiled, Grips, CheckerEnds, Goes, Holds, Becomes, callVars, tableVars, threadVars, closeVars
  <1>6. NoneClosed'
    BY VerifierSessionsAssumption DEF Safe, Types, Apart, NoneClosed, Grips, CheckerEnds, Goes, Holds, Becomes, callVars, tableVars, threadVars, closeVars
  <1>7. Shut'
    BY VerifierSessionsAssumption DEF Safe, Types, Shut, Grips, Shares, CheckerEnds, Goes, Holds, Becomes, callVars, tableVars, threadVars, closeVars
  <1> QED
    BY <1>1, <1>2, <1>3, <1>4, <1>5, <1>6, <1>7 DEF Safe

LEMMA ProcDiesKeeps ==
    ASSUME Safe, NEW p \in Procs, ProcDies(p)
    PROVE  Safe'
  <1>1. Types'
    BY VerifierSessionsAssumption DEF Safe, Types, ProcDies, Goes, Holds, Becomes, callVars, tableVars, threadVars, closeVars
  <1>2. Apart'
    BY VerifierSessionsAssumption DEF Safe, Types, Apart, Grips, ProcDies, Goes, Holds, Becomes, callVars, tableVars, threadVars, closeVars
  <1>3. SharedByKey'
    BY VerifierSessionsAssumption DEF Safe, Types, Apart, SharedByKey, Shares, Grips, ProcDies, Goes, Holds, Becomes, callVars, tableVars, threadVars, closeVars
  <1>4. Locked'
    BY VerifierSessionsAssumption DEF Safe, Types, Locked, OnlyServersHaveLines, PoolsAreNotOpened, ProcDies, Goes, Holds, Becomes, callVars, tableVars, threadVars, closeVars
  <1>5. Unspoiled'
    BY VerifierSessionsAssumption DEF Safe, Types, Apart, SharedByKey, Shares, Unspoiled, Grips, ProcDies, Goes, Holds, Becomes, callVars, tableVars, threadVars, closeVars
  <1>6. NoneClosed'
    BY VerifierSessionsAssumption DEF Safe, Types, Apart, NoneClosed, Grips, ProcDies, Goes, Holds, Becomes, callVars, tableVars, threadVars, closeVars
  <1>7. Shut'
    BY VerifierSessionsAssumption DEF Safe, Types, Shut, Grips, Shares, ProcDies, Goes, Holds, Becomes, callVars, tableVars, threadVars, closeVars
  <1> QED
    BY <1>1, <1>2, <1>3, <1>4, <1>5, <1>6, <1>7 DEF Safe

LEMMA CloseNextKeeps ==
    ASSUME Safe, NEW p \in Procs, CloseNext(p)
    PROVE  Safe'
  <1>1. Types'
    BY VerifierSessionsAssumption DEF Safe, Types, CloseNext, Goes, Holds, Becomes, callVars, tableVars, threadVars, closeVars
  <1>2. Apart'
    BY VerifierSessionsAssumption DEF Safe, Types, Apart, Grips, CloseNext, Goes, Holds, Becomes, callVars, tableVars, threadVars, closeVars
  <1>3. SharedByKey'
    BY VerifierSessionsAssumption DEF Safe, Types, Apart, SharedByKey, Shares, Grips, CloseNext, Goes, Holds, Becomes, callVars, tableVars, threadVars, closeVars
  <1>4. Locked'
    BY VerifierSessionsAssumption DEF Safe, Types, Locked, OnlyServersHaveLines, PoolsAreNotOpened, CloseNext, Goes, Holds, Becomes, callVars, tableVars, threadVars, closeVars
  <1>5. Unspoiled'
    BY VerifierSessionsAssumption DEF Safe, Types, Apart, SharedByKey, Shares, Unspoiled, Grips, CloseNext, Goes, Holds, Becomes, callVars, tableVars, threadVars, closeVars
  <1>6. NoneClosed'
    BY VerifierSessionsAssumption DEF Safe, Types, Apart, NoneClosed, Grips, CloseNext, Goes, Holds, Becomes, callVars, tableVars, threadVars, closeVars
  <1>7. Shut'
    BY VerifierSessionsAssumption DEF Safe, Types, Shut, Grips, Shares, CloseNext, Goes, Holds, Becomes, callVars, tableVars, threadVars, closeVars
  <1> QED
    BY <1>1, <1>2, <1>3, <1>4, <1>5, <1>6, <1>7 DEF Safe

LEMMA CloseKeeps ==
    ASSUME Safe, Close
    PROVE  Safe'
  <1>1. Types'
    <2>1. table' \in [Keys -> Procs \cup {None}]
      BY DEF Close, Emptied
    <2>2. doomed' \subseteq Procs
      BY DEF Safe, Types, Close, ToClose, InTable
    <2>3. late' \in BOOLEAN /\ ready' \in BOOLEAN
      BY DEF Close
    <2> QED
      BY <2>1, <2>2, <2>3 DEF Safe, Types, Close, callVars, threadVars
  <1>2. Apart'
    <2>1. \A q \in doomed' : q # None /\ \E k \in Keys : table[k] = q
      BY DEF Close, ToClose, InTable
    <2>2. /\ \A k \in Keys : table'[k] = None
          /\ checkers' = checkers /\ openers' = openers /\ pc' = pc /\ held' = held
      BY DEF Close, Emptied, callVars, threadVars
    <2>3. None \notin checkers
      BY VerifierSessionsAssumption DEF Safe, Types
    <2>4. \A d \in Callers : Grips(d) => held[d] # None
      BY DEF Safe, Types, Grips
    <2> QED
      BY <2>1, <2>2, <2>3, <2>4 DEF Safe, Apart, Grips
  <1>3. SharedByKey'
    BY VerifierSessionsAssumption DEF Safe, Types, Apart, SharedByKey, Shares, Grips, Close, Goes, Holds, Becomes, callVars, tableVars, threadVars, closeVars, ToClose, InTable, Emptied, Busy
  <1>4. Locked'
    BY VerifierSessionsAssumption DEF Safe, Types, Locked, OnlyServersHaveLines, PoolsAreNotOpened, Close, Goes, Holds, Becomes, callVars, tableVars, threadVars, closeVars, ToClose, InTable, Emptied, Busy
  <1>5. Unspoiled'
    BY VerifierSessionsAssumption DEF Safe, Types, Apart, SharedByKey, Shares, Unspoiled, Grips, Close, Goes, Holds, Becomes, callVars, tableVars, threadVars, closeVars, ToClose, InTable, Emptied, Busy
  <1>6. NoneClosed'
    BY VerifierSessionsAssumption DEF Safe, Types, Apart, NoneClosed, Grips, Close, Goes, Holds, Becomes, callVars, tableVars, threadVars, closeVars, ToClose, InTable, Emptied, Busy
  <1>7. Shut'
    BY VerifierSessionsAssumption DEF Safe, Types, Shut, Grips, Shares, Close, Goes, Holds, Becomes, callVars, tableVars, threadVars, closeVars, ToClose, InTable, Emptied, Busy
  <1> QED
    BY <1>1, <1>2, <1>3, <1>4, <1>5, <1>6, <1>7 DEF Safe

LEMMA ClosedKeeps ==
    ASSUME Safe, Closed
    PROVE  Safe'
  <1>1. Types'
    BY VerifierSessionsAssumption DEF Safe, Types, Closed, Goes, Holds, Becomes, callVars, tableVars, threadVars, closeVars
  <1>2. Apart'
    BY VerifierSessionsAssumption DEF Safe, Types, Apart, Grips, Closed, Goes, Holds, Becomes, callVars, tableVars, threadVars, closeVars
  <1>3. SharedByKey'
    BY VerifierSessionsAssumption DEF Safe, Types, Apart, SharedByKey, Shares, Grips, Closed, Goes, Holds, Becomes, callVars, tableVars, threadVars, closeVars
  <1>4. Locked'
    BY VerifierSessionsAssumption DEF Safe, Types, Locked, OnlyServersHaveLines, PoolsAreNotOpened, Closed, Goes, Holds, Becomes, callVars, tableVars, threadVars, closeVars
  <1>5. Unspoiled'
    BY VerifierSessionsAssumption DEF Safe, Types, Apart, SharedByKey, Shares, Unspoiled, Grips, Closed, Goes, Holds, Becomes, callVars, tableVars, threadVars, closeVars
  <1>6. NoneClosed'
    BY VerifierSessionsAssumption DEF Safe, Types, Apart, NoneClosed, Grips, Closed, Goes, Holds, Becomes, callVars, tableVars, threadVars, closeVars
  <1>7. Shut'
    BY VerifierSessionsAssumption DEF Safe, Types, Shut, Grips, Shares, Closed, Goes, Holds, Becomes, callVars, tableVars, threadVars, closeVars
  <1> QED
    BY <1>1, <1>2, <1>3, <1>4, <1>5, <1>6, <1>7 DEF Safe

LEMMA InitHolds ==
    ASSUME Init
    PROVE  Safe
  <1>1. Types
    <2>1. backend \in Backends /\ backend \in {"dojo", "interact", "repl"} /\ abandoned \in 0..MaxAbandoned
      BY VerifierSessionsAssumption DEF Init
    <2>2. /\ table \in [Keys -> Procs \cup {None}] /\ pc = [c \in Callers |-> "free"]
          /\ proc \in [Procs -> {"none", "starting", "running", "closed"}]
          /\ key \in [Callers -> Keys \cup {None}] /\ held \in [Callers -> Procs \cup {None}]
          /\ \A c \in Callers : held[c] = None
      BY DEF Init
    <2> QED
      BY <2>1, <2>2 DEF Init, Types
  <1>2. Apart /\ SharedByKey /\ Locked /\ Unspoiled /\ NoneClosed /\ Shut
    BY VerifierSessionsAssumption
       DEF Init, Apart, SharedByKey, Locked, OnlyServersHaveLines, PoolsAreNotOpened, Unspoiled,
           NoneClosed, Shut, Grips, Shares
  <1> QED
    BY <1>1, <1>2 DEF Safe

LEMMA StepKeeps ==
    ASSUME Safe, [Next]_vars
    PROVE  Safe'
  <1>1. CASE UNCHANGED vars
    BY <1>1 DEF Safe, Types, Apart, SharedByKey, Locked, OnlyServersHaveLines, PoolsAreNotOpened,
                Unspoiled, NoneClosed, Shut, Grips, Shares, vars, tableVars, callVars, threadVars,
                closeVars
  <1>2. ASSUME NEW c \in Callers, NEW k \in Keys,
               Call(c, k) \/ \E p \in Procs : CallPool(c, k, p) \/ CheckFresh(c, k, p)
        PROVE  Safe'
    BY <1>2, CallKeeps, CallPoolKeeps, CheckFreshKeeps
  <1>3. ASSUME NEW c \in Callers, Serves(c) \/ Cancel(c)
        PROVE  Safe'
    BY <1>3, GetLockKeeps, GetServerKeeps, FindSessionKeeps, OpenedKeeps, OpenFailsKeeps,
       UseEndsKeeps, UseFailsKeeps, DropEndsKeeps, FreshEndsKeeps, FreshTimesOutKeeps,
       StartSessionKeeps, CancelKeeps DEF Serves
  <1>4. ASSUME NEW k \in Keys, NEW p \in Procs, ThreadLooks(k, p) \/ ThreadOpens(k, p)
        PROVE  Safe'
    BY <1>4, ThreadLooksKeeps, ThreadOpensKeeps
  <1>5. ASSUME NEW p \in Procs, CheckerEnds(p) \/ ProcDies(p) \/ CloseNext(p)
        PROVE  Safe'
    BY <1>5, CheckerEndsKeeps, ProcDiesKeeps, CloseNextKeeps
  <1>6. CASE Close \/ Closed
    BY <1>6, CloseKeeps, ClosedKeeps
  <1> QED
    BY <1>1, <1>2, <1>3, <1>4, <1>5, <1>6 DEF Next, Over

LEMMA AlwaysSafe == Spec => []Safe
  BY InitHolds, StepKeeps, PTL DEF Spec

----------------------------------------------------------------------------
(* Processes that escape                                                   *)

\* Who is to close a process, now or when it is open: callers that share one are not.
Owned(p) ==
    \/ \E k \in Keys : table[k] = p
    \/ p \in doomed \/ p \in checkers
    \/ \E t \in openers : t[2] = p
    \/ \E c \in Callers : Grips(c) /\ held[c] = p
Orphans == {p \in Procs : proc[p] = "running" /\ ~Owned(p)}

\* A thread has put a process where the caller that opens is about to put its own.
Overtaken == \E c \in Callers : pc[c] = "opening" /\ table[key[c]] # None

\* Each orphan, each thread that opens and an overtaken caller, which may make one more, are due
\* to a thread that was left alone.
Counted ==
    /\ IsFiniteSet(openers)
    /\ Cardinality(Orphans) + Cardinality(openers) + (IF Overtaken THEN 1 ELSE 0) <= abandoned

LEMMA OrphansAreFinite ==
    /\ IsFiniteSet(Orphans) /\ Cardinality(Orphans) \in Nat
    /\ IsFiniteSet(Orphans') /\ Cardinality(Orphans') \in Nat
  <1>1. Orphans \in SUBSET Procs /\ Orphans' \in SUBSET Procs
    BY DEF Orphans
  <1> QED
    BY <1>1, FS_Subset, FS_CardinalityType, VerifierSessionsAssumption

\* A step that makes no orphan, no thread and overtakes nobody.
LEMMA NoMore ==
    ASSUME Types, Types', Counted, openers' \subseteq openers, abandoned <= abandoned',
           Overtaken' => Overtaken,
           \A p \in Procs : proc'[p] = "running" /\ ~Owned(p)' => proc[p] = "running" /\ ~Owned(p)
    PROVE  Counted'
  <1>1. Orphans' \in SUBSET Orphans
    BY DEF Orphans
  <1>2. Cardinality(Orphans') <= Cardinality(Orphans)
    BY <1>1, OrphansAreFinite, FS_Subset
  <1>3. IsFiniteSet(openers') /\ Cardinality(openers') <= Cardinality(openers)
        /\ Cardinality(openers) \in Nat /\ Cardinality(openers') \in Nat
    BY FS_Subset, FS_CardinalityType DEF Counted
  <1>4. abandoned \in Int /\ abandoned' \in Int
    BY DEF Types
  <1> QED
    BY <1>2, <1>3, <1>4, OrphansAreFinite DEF Counted

\* A step that makes one orphan at most.
LEMMA OneMore ==
    ASSUME NEW q, \A p \in Procs : proc'[p] = "running" /\ ~Owned(p)'
                                     => p = q \/ (proc[p] = "running" /\ ~Owned(p))
    PROVE  Cardinality(Orphans') <= Cardinality(Orphans) + 1
  <1>1. Orphans' \in SUBSET (Orphans \cup {q})
    BY DEF Orphans
  <1>2. /\ IsFiniteSet(Orphans \cup {q})
        /\ Cardinality(Orphans \cup {q}) <= Cardinality(Orphans) + 1
    BY OrphansAreFinite, FS_AddElement
  <1>3. Cardinality(Orphans') <= Cardinality(Orphans \cup {q})
    BY <1>1, <1>2, FS_Subset
  <1>4. Cardinality(Orphans \cup {q}) \in Nat
    BY <1>2, FS_CardinalityType
  <1> QED
    BY <1>2, <1>3, <1>4, OrphansAreFinite

LEMMA CallCounts ==
    ASSUME Safe, Safe', Counted, NEW c \in Callers, NEW k \in Keys, Call(c, k)
    PROVE  Counted'
  <1>1. ASSUME NEW q \in Procs, proc'[q] = "running", ~Owned(q)'
        PROVE  proc[q] = "running" /\ ~Owned(q)
    BY <1>1, VerifierSessionsAssumption DEF Safe, Types, Owned, Grips, Call, Goes, Holds, Becomes, callVars, tableVars, threadVars, closeVars
  <1>2. Overtaken' => Overtaken
    BY DEF Safe, Types, Locked, PoolsAreNotOpened, Overtaken, Call, Goes, Holds, Becomes, callVars, tableVars, threadVars, closeVars
  <1>3. openers' \subseteq openers /\ abandoned <= abandoned'
    BY DEF Safe, Types, Call, Goes, Holds, Becomes, callVars, tableVars, threadVars, closeVars
  <1> QED
    BY <1>1, <1>2, <1>3, NoMore DEF Safe

LEMMA CallPoolCounts ==
    ASSUME Safe, Safe', Counted, NEW c \in Callers, NEW k \in Keys, NEW p \in Procs, CallPool(c, k, p)
    PROVE  Counted'
  <1>1. ASSUME NEW q \in Procs, proc'[q] = "running", ~Owned(q)'
        PROVE  proc[q] = "running" /\ ~Owned(q)
    BY <1>1, VerifierSessionsAssumption DEF Safe, Types, Owned, Grips, CallPool, Goes, Holds, Becomes, callVars, tableVars, threadVars, closeVars
  <1>2. Overtaken' => Overtaken
    BY DEF Safe, Types, Locked, PoolsAreNotOpened, Overtaken, CallPool, Goes, Holds, Becomes, callVars, tableVars, threadVars, closeVars
  <1>3. openers' \subseteq openers /\ abandoned <= abandoned'
    BY DEF Safe, Types, CallPool, Goes, Holds, Becomes, callVars, tableVars, threadVars, closeVars
  <1> QED
    BY <1>1, <1>2, <1>3, NoMore DEF Safe

LEMMA GetLockCounts ==
    ASSUME Safe, Safe', Counted, NEW c \in Callers, GetLock(c)
    PROVE  Counted'
  <1>1. ASSUME NEW q \in Procs, proc'[q] = "running", ~Owned(q)'
        PROVE  proc[q] = "running" /\ ~Owned(q)
    BY <1>1, VerifierSessionsAssumption DEF Safe, Types, Owned, Grips, GetLock, Goes, Holds, Becomes, callVars, tableVars, threadVars, closeVars, MayTakeLock
  <1>2. Overtaken' => Overtaken
    BY DEF Safe, Types, Locked, PoolsAreNotOpened, Overtaken, GetLock, Goes, Holds, Becomes, callVars, tableVars, threadVars, closeVars, MayTakeLock
  <1>3. openers' \subseteq openers /\ abandoned <= abandoned'
    BY DEF Safe, Types, GetLock, Goes, Holds, Becomes, callVars, tableVars, threadVars, closeVars, MayTakeLock
  <1> QED
    BY <1>1, <1>2, <1>3, NoMore DEF Safe

LEMMA FindSessionCounts ==
    ASSUME Safe, Safe', Counted, NEW c \in Callers, FindSession(c)
    PROVE  Counted'
  <1>1. ASSUME NEW q \in Procs, proc'[q] = "running", ~Owned(q)'
        PROVE  proc[q] = "running" /\ ~Owned(q)
    BY <1>1, VerifierSessionsAssumption DEF Safe, Types, Owned, Grips, FindSession, Goes, Holds, Becomes, callVars, tableVars, threadVars, closeVars, GoesOnWith, Ends
  <1>2. Overtaken' => Overtaken
    BY DEF Safe, Types, Locked, PoolsAreNotOpened, Overtaken, FindSession, Goes, Holds, Becomes, callVars, tableVars, threadVars, closeVars, GoesOnWith, Ends
  <1>3. openers' \subseteq openers /\ abandoned <= abandoned'
    BY DEF Safe, Types, FindSession, Goes, Holds, Becomes, callVars, tableVars, threadVars, closeVars, GoesOnWith, Ends
  <1> QED
    BY <1>1, <1>2, <1>3, NoMore DEF Safe

LEMMA OpenFailsCounts ==
    ASSUME Safe, Safe', Counted, NEW c \in Callers, OpenFails(c)
    PROVE  Counted'
  <1>1. ASSUME NEW q \in Procs, proc'[q] = "running", ~Owned(q)'
        PROVE  proc[q] = "running" /\ ~Owned(q)
    BY <1>1, VerifierSessionsAssumption DEF Safe, Types, Owned, Grips, OpenFails, Goes, Holds, Becomes, callVars, tableVars, threadVars, closeVars, Drops, Ends
  <1>2. Overtaken' => Overtaken
    BY DEF Safe, Types, Locked, PoolsAreNotOpened, Overtaken, OpenFails, Goes, Holds, Becomes, callVars, tableVars, threadVars, closeVars, Drops, Ends
  <1>3. openers' \subseteq openers /\ abandoned <= abandoned'
    BY DEF Safe, Types, OpenFails, Goes, Holds, Becomes, callVars, tableVars, threadVars, closeVars, Drops, Ends
  <1> QED
    BY <1>1, <1>2, <1>3, NoMore DEF Safe

LEMMA GetServerCounts ==
    ASSUME Safe, Safe', Counted, NEW c \in Callers, GetServer(c)
    PROVE  Counted'
  <1>1. ASSUME NEW q \in Procs, proc'[q] = "running", ~Owned(q)'
        PROVE  proc[q] = "running" /\ ~Owned(q)
    BY <1>1, VerifierSessionsAssumption DEF Safe, Types, Owned, Grips, GetServer, Goes, Holds, Becomes, callVars, tableVars, threadVars, closeVars
  <1>2. Overtaken' => Overtaken
    BY DEF Safe, Types, Locked, PoolsAreNotOpened, Overtaken, GetServer, Goes, Holds, Becomes, callVars, tableVars, threadVars, closeVars
  <1>3. openers' \subseteq openers /\ abandoned <= abandoned'
    BY DEF Safe, Types, GetServer, Goes, Holds, Becomes, callVars, tableVars, threadVars, closeVars
  <1> QED
    BY <1>1, <1>2, <1>3, NoMore DEF Safe

LEMMA UseEndsCounts ==
    ASSUME Safe, Safe', Counted, NEW c \in Callers, UseEnds(c)
    PROVE  Counted'
  <1>1. ASSUME NEW q \in Procs, proc'[q] = "running", ~Owned(q)'
        PROVE  proc[q] = "running" /\ ~Owned(q)
    BY <1>1, VerifierSessionsAssumption DEF Safe, Types, Owned, Grips, UseEnds, Goes, Holds, Becomes, callVars, tableVars, threadVars, closeVars, Ends
  <1>2. Overtaken' => Overtaken
    BY DEF Safe, Types, Locked, PoolsAreNotOpened, Overtaken, UseEnds, Goes, Holds, Becomes, callVars, tableVars, threadVars, closeVars, Ends
  <1>3. openers' \subseteq openers /\ abandoned <= abandoned'
    BY DEF Safe, Types, UseEnds, Goes, Holds, Becomes, callVars, tableVars, threadVars, closeVars, Ends
  <1> QED
    BY <1>1, <1>2, <1>3, NoMore DEF Safe

LEMMA UseFailsCounts ==
    ASSUME Safe, Safe', Counted, NEW c \in Callers, UseFails(c)
    PROVE  Counted'
  <1>1. ASSUME NEW q \in Procs, proc'[q] = "running", ~Owned(q)'
        PROVE  proc[q] = "running" /\ ~Owned(q)
    BY <1>1, VerifierSessionsAssumption DEF Safe, Types, Owned, Grips, UseFails, Goes, Holds, Becomes, callVars, tableVars, threadVars, closeVars, Drops, Ends
  <1>2. Overtaken' => Overtaken
    BY DEF Safe, Types, Locked, PoolsAreNotOpened, Overtaken, UseFails, Goes, Holds, Becomes, callVars, tableVars, threadVars, closeVars, Drops, Ends
  <1>3. openers' \subseteq openers /\ abandoned <= abandoned'
    BY DEF Safe, Types, UseFails, Goes, Holds, Becomes, callVars, tableVars, threadVars, closeVars, Drops, Ends
  <1> QED
    BY <1>1, <1>2, <1>3, NoMore DEF Safe

LEMMA DropEndsCounts ==
    ASSUME Safe, Safe', Counted, NEW c \in Callers, DropEnds(c)
    PROVE  Counted'
  <1>1. ASSUME NEW q \in Procs, proc'[q] = "running", ~Owned(q)'
        PROVE  proc[q] = "running" /\ ~Owned(q)
    BY <1>1, VerifierSessionsAssumption DEF Safe, Types, Owned, Grips, DropEnds, Goes, Holds, Becomes, callVars, tableVars, threadVars, closeVars, Ends
  <1>2. Overtaken' => Overtaken
    BY DEF Safe, Types, Locked, PoolsAreNotOpened, Overtaken, DropEnds, Goes, Holds, Becomes, callVars, tableVars, threadVars, closeVars, Ends
  <1>3. openers' \subseteq openers /\ abandoned <= abandoned'
    BY DEF Safe, Types, DropEnds, Goes, Holds, Becomes, callVars, tableVars, threadVars, closeVars, Ends
  <1> QED
    BY <1>1, <1>2, <1>3, NoMore DEF Safe

LEMMA CheckFreshCounts ==
    ASSUME Safe, Safe', Counted, NEW c \in Callers, NEW k \in Keys, NEW p \in Procs, CheckFresh(c, k, p)
    PROVE  Counted'
  <1>1. ASSUME NEW q \in Procs, proc'[q] = "running", ~Owned(q)'
        PROVE  proc[q] = "running" /\ ~Owned(q)
    BY <1>1, VerifierSessionsAssumption DEF Safe, Types, Owned, Grips, CheckFresh, Goes, Holds, Becomes, callVars, tableVars, threadVars, closeVars
  <1>2. Overtaken' => Overtaken
    BY DEF Safe, Types, Locked, PoolsAreNotOpened, Overtaken, CheckFresh, Goes, Holds, Becomes, callVars, tableVars, threadVars, closeVars
  <1>3. openers' \subseteq openers /\ abandoned <= abandoned'
    BY DEF Safe, Types, CheckFresh, Goes, Holds, Becomes, callVars, tableVars, threadVars, closeVars
  <1> QED
    BY <1>1, <1>2, <1>3, NoMore DEF Safe

LEMMA FreshEndsCounts ==
    ASSUME Safe, Safe', Counted, NEW c \in Callers, FreshEnds(c)
    PROVE  Counted'
  <1>1. ASSUME NEW q \in Procs, proc'[q] = "running", ~Owned(q)'
        PROVE  proc[q] = "running" /\ ~Owned(q)
    BY <1>1, VerifierSessionsAssumption DEF Safe, Types, Owned, Grips, FreshEnds, Goes, Holds, Becomes, callVars, tableVars, threadVars, closeVars, Drops, Ends
  <1>2. Overtaken' => Overtaken
    BY DEF Safe, Types, Locked, PoolsAreNotOpened, Overtaken, FreshEnds, Goes, Holds, Becomes, callVars, tableVars, threadVars, closeVars, Drops, Ends
  <1>3. openers' \subseteq openers /\ abandoned <= abandoned'
    BY DEF Safe, Types, FreshEnds, Goes, Holds, Becomes, callVars, tableVars, threadVars, closeVars, Drops, Ends
  <1> QED
    BY <1>1, <1>2, <1>3, NoMore DEF Safe

LEMMA FreshTimesOutCounts ==
    ASSUME Safe, Safe', Counted, NEW c \in Callers, FreshTimesOut(c)
    PROVE  Counted'
  <1>1. ASSUME NEW q \in Procs, proc'[q] = "running", ~Owned(q)'
        PROVE  proc[q] = "running" /\ ~Owned(q)
    BY <1>1, VerifierSessionsAssumption DEF Safe, Types, Owned, Grips, FreshTimesOut, Goes, Holds, Becomes, callVars, tableVars, threadVars, closeVars, Drops, Ends, Abandons
  <1>2. Overtaken' => Overtaken
    BY DEF Safe, Types, Locked, PoolsAreNotOpened, Overtaken, FreshTimesOut, Goes, Holds, Becomes, callVars, tableVars, threadVars, closeVars, Drops, Ends, Abandons
  <1>3. openers' \subseteq openers /\ abandoned <= abandoned'
    BY DEF Safe, Types, FreshTimesOut, Goes, Holds, Becomes, callVars, tableVars, threadVars, closeVars, Drops, Ends, Abandons
  <1> QED
    BY <1>1, <1>2, <1>3, NoMore DEF Safe

LEMMA CheckerEndsCounts ==
    ASSUME Safe, Safe', Counted, NEW p \in Procs, CheckerEnds(p)
    PROVE  Counted'
  <1>1. ASSUME NEW q \in Procs, proc'[q] = "running", ~Owned(q)'
        PROVE  proc[q] = "running" /\ ~Owned(q)
    BY <1>1, VerifierSessionsAssumption DEF Safe, Types, Owned, Grips, CheckerEnds, Goes, Holds, Becomes, callVars, tableVars, threadVars, closeVars
  <1>2. Overtaken' => Overtaken
    BY DEF Safe, Types, Locked, PoolsAreNotOpened, Overtaken, CheckerEnds, Goes, Holds, Becomes, callVars, tableVars, threadVars, closeVars
  <1>3. openers' \subseteq openers /\ abandoned <= abandoned'
    BY DEF Safe, Types, CheckerEnds, Goes, Holds, Becomes, callVars, tableVars, threadVars, closeVars
  <1> QED
    BY <1>1, <1>2, <1>3, NoMore DEF Safe

LEMMA ProcDiesCounts ==
    ASSUME Safe, Safe', Counted, NEW p \in Procs, ProcDies(p)
    PROVE  Counted'
  <1>1. ASSUME NEW q \in Procs, proc'[q] = "running", ~Owned(q)'
        PROVE  proc[q] = "running" /\ ~Owned(q)
    BY <1>1, VerifierSessionsAssumption DEF Safe, Types, Owned, Grips, ProcDies, Goes, Holds, Becomes, callVars, tableVars, threadVars, closeVars
  <1>2. Overtaken' => Overtaken
    BY DEF Safe, Types, Locked, PoolsAreNotOpened, Overtaken, ProcDies, Goes, Holds, Becomes, callVars, tableVars, threadVars, closeVars
  <1>3. openers' \subseteq openers /\ abandoned <= abandoned'
    BY DEF Safe, Types, ProcDies, Goes, Holds, Becomes, callVars, tableVars, threadVars, closeVars
  <1> QED
    BY <1>1, <1>2, <1>3, NoMore DEF Safe

LEMMA CloseNextCounts ==
    ASSUME Safe, Safe', Counted, NEW p \in Procs, CloseNext(p)
    PROVE  Counted'
  <1>1. ASSUME NEW q \in Procs, proc'[q] = "running", ~Owned(q)'
        PROVE  proc[q] = "running" /\ ~Owned(q)
    BY <1>1, VerifierSessionsAssumption DEF Safe, Types, Owned, Grips, CloseNext, Goes, Holds, Becomes, callVars, tableVars, threadVars, closeVars
  <1>2. Overtaken' => Overtaken
    BY DEF Safe, Types, Locked, PoolsAreNotOpened, Overtaken, CloseNext, Goes, Holds, Becomes, callVars, tableVars, threadVars, closeVars
  <1>3. openers' \subseteq openers /\ abandoned <= abandoned'
    BY DEF Safe, Types, CloseNext, Goes, Holds, Becomes, callVars, tableVars, threadVars, closeVars
  <1> QED
    BY <1>1, <1>2, <1>3, NoMore DEF Safe

LEMMA CloseCounts ==
    ASSUME Safe, Safe', Counted, Close
    PROVE  Counted'
  <1>1. ASSUME NEW q \in Procs, proc'[q] = "running", ~Owned(q)'
        PROVE  proc[q] = "running" /\ ~Owned(q)
    <2>1. q # None /\ q \notin doomed' /\ doomed' = {table[k] : k \in Keys} \ {None}
      BY <1>1, VerifierSessionsAssumption DEF Owned, Close, ToClose, InTable
    <2>2. \A k \in Keys : table[k] # q
      BY <2>1
    <2>3. q \notin doomed
      BY DEF Safe, Shut, Close
    <2> QED
      BY <1>1, <2>2, <2>3 DEF Owned, Grips, Close, callVars, threadVars
  <1>2. Overtaken' => Overtaken
    BY DEF Safe, Types, Locked, PoolsAreNotOpened, Overtaken, Close, Goes, Holds, Becomes, callVars, tableVars, threadVars, closeVars, ToClose, InTable, Emptied
  <1>3. openers' \subseteq openers /\ abandoned <= abandoned'
    BY DEF Safe, Types, Close, Goes, Holds, Becomes, callVars, tableVars, threadVars, closeVars, ToClose, InTable, Emptied
  <1> QED
    BY <1>1, <1>2, <1>3, NoMore DEF Safe

LEMMA ClosedCounts ==
    ASSUME Safe, Safe', Counted, Closed
    PROVE  Counted'
  <1>1. ASSUME NEW q \in Procs, proc'[q] = "running", ~Owned(q)'
        PROVE  proc[q] = "running" /\ ~Owned(q)
    BY <1>1, VerifierSessionsAssumption DEF Safe, Types, Owned, Grips, Closed, Goes, Holds, Becomes, callVars, tableVars, threadVars, closeVars
  <1>2. Overtaken' => Overtaken
    BY DEF Safe, Types, Locked, PoolsAreNotOpened, Overtaken, Closed, Goes, Holds, Becomes, callVars, tableVars, threadVars, closeVars
  <1>3. openers' \subseteq openers /\ abandoned <= abandoned'
    BY DEF Safe, Types, Closed, Goes, Holds, Becomes, callVars, tableVars, threadVars, closeVars
  <1> QED
    BY <1>1, <1>2, <1>3, NoMore DEF Safe

LEMMA StartSessionCounts ==
    ASSUME Safe, Safe', Counted, NEW c \in Callers, NEW p \in Procs, StartSession(c, p)
    PROVE  Counted'
  <1>1. ASSUME NEW q \in Procs, proc'[q] = "running", ~Owned(q)'
        PROVE  proc[q] = "running" /\ ~Owned(q)
    BY <1>1, VerifierSessionsAssumption DEF Safe, Types, Owned, Grips, StartSession, Goes, Holds, Becomes, callVars, tableVars, threadVars, closeVars
  <1>2. ~Overtaken'
    <2>1. lock = c /\ lock' = lock /\ table' = table /\ key' = key /\ table[key[c]] = None
      BY DEF Safe, Locked, StartSession, tableVars
    <2>2. \A d \in Callers : pc'[d] = "opening" => d = c
      BY <2>1 DEF Safe, Locked
    <2> QED
      BY <2>1, <2>2 DEF Overtaken
  <1>3. openers' = openers /\ abandoned' = abandoned
    BY DEF StartSession, threadVars
  <1> QED
    BY <1>1, <1>2, <1>3, NoMore DEF Safe, Types

\* The caller puts its process where a thread may have put another one.
LEMMA OpenedCounts ==
    ASSUME Safe, Safe', Counted, NEW c \in Callers, Opened(c)
    PROVE  Counted'
  <1>1. PICK p, k : p = held[c] /\ k = key[c]
    OBVIOUS
  <1>2. /\ pc[c] = "opening" /\ lock = c /\ k \in Keys /\ p \in Procs
        /\ table' = [table EXCEPT ![k] = p] /\ proc' = [proc EXCEPT ![p] = "running"]
        /\ openers' = openers /\ abandoned' = abandoned /\ checkers' = checkers
        /\ doomed' = doomed
    BY <1>1 DEF Safe, Types, Locked, Opened, Becomes, threadVars, closeVars
  <1>3. \A d \in Callers : d # c => pc'[d] = pc[d] /\ held'[d] = held[d] /\ key'[d] = key[d]
    BY DEF Safe, Types, Opened, GoesOnWith, Ends, Goes, Holds
  <1>4. pc'[c] \in {"free", "using", "line"}
    BY DEF Safe, Types, Opened, GoesOnWith, Ends, Goes, Holds
  <1>5. ~Overtaken'
    BY <1>2, <1>3, <1>4 DEF Safe, Locked, Overtaken
  <1>6. ASSUME NEW q \in Procs, proc'[q] = "running", ~Owned(q)'
        PROVE  q = table[k] \/ (proc[q] = "running" /\ ~Owned(q))
    <2>1. q # p /\ table'[k] = p
      BY <1>2, <1>6 DEF Safe, Types, Owned
    <2>2. proc[q] = "running"
      BY <1>2, <1>6, <2>1 DEF Safe, Types
    <2>3. \A l \in Keys : l # k => table[l] # q
      BY <1>2, <1>6 DEF Safe, Types, Owned
    <2>4. \A d \in Callers : ~(Grips(d) /\ held[d] = q)
      BY <1>1, <1>3, <1>6, <2>1 DEF Owned, Grips
    <2> QED
      BY <1>2, <1>6, <2>2, <2>3, <2>4 DEF Owned
  <1>7. CASE table[k] = None
    <2>1. ASSUME NEW q \in Procs, proc'[q] = "running", ~Owned(q)'
          PROVE  proc[q] = "running" /\ ~Owned(q)
      BY <1>6, <1>7, <2>1, VerifierSessionsAssumption
    <2> QED
      BY <1>2, <1>5, <2>1, NoMore DEF Safe, Types
  <1>8. CASE table[k] # None
    <2>1. Overtaken
      BY <1>1, <1>2, <1>8 DEF Overtaken
    <2>2. Cardinality(Orphans') <= Cardinality(Orphans) + 1
      BY <1>6, OneMore
    <2>3. Cardinality(openers) \in Nat /\ abandoned \in Int
      BY FS_CardinalityType DEF Counted, Safe, Types
    <2> QED
      BY <1>2, <1>5, <2>1, <2>2, <2>3, OrphansAreFinite DEF Counted
  <1> QED
    BY <1>7, <1>8

\* The thread of a caller that is gone: one more is left alone.
LEMMA CancelCounts ==
    ASSUME Safe, Safe', Counted, NEW c \in Callers, Cancel(c)
    PROVE  Counted'
  <1>1. ASSUME NEW q \in Procs, proc'[q] = "running", ~Owned(q)'
        PROVE  proc[q] = "running" /\ ~Owned(q)
    <2>1. /\ table' = table /\ doomed' = doomed /\ openers \subseteq openers'
          /\ checkers \subseteq checkers'
          /\ \A d \in Callers : d # c => pc'[d] = pc[d] /\ held'[d] = held[d]
      BY DEF Safe, Types, Cancel, Ends, Goes, Holds, closeVars
    <2>2. proc[q] = "running"
      BY <1>1 DEF Safe, Types, Cancel
    <2>3. ~(Grips(c) /\ held[c] = q)
      <3>1. CASE pc[c] = "opening"
        <4>1. <<key[c], held[c]>> \in openers'
          BY <3>1 DEF Cancel
        <4>2. <<key[c], held[c]>>[2] # q
          BY <1>1, <4>1 DEF Owned
        <4> QED
          BY <4>2
      <3>2. CASE pc[c] = "fresh"
        BY <1>1, <3>2 DEF Owned, Cancel
      <3>3. CASE pc[c] = "dropping"
        BY <1>1, <3>3 DEF Safe, Types, Cancel
      <3> QED
        BY <3>1, <3>2, <3>3 DEF Grips
    <2>4. \A d \in Callers : ~(Grips(d) /\ held[d] = q)
      BY <1>1, <2>1, <2>3 DEF Owned, Grips
    <2> QED
      BY <1>1, <2>1, <2>2, <2>4 DEF Owned
  <1>2. Overtaken' => Overtaken
    BY DEF Safe, Types, Overtaken, Cancel, Ends, Goes, Holds
  <1>3. abandoned' = abandoned + 1
    BY DEF Cancel, Abandons
  <1>4. PICK t : openers' \subseteq openers \cup {t} /\ openers \subseteq openers'
    BY DEF Cancel
  <1>5. /\ IsFiniteSet(openers') /\ Cardinality(openers') <= Cardinality(openers) + 1
        /\ Cardinality(openers) \in Nat /\ Cardinality(openers') \in Nat
    <2>0. IsFiniteSet(openers) /\ Cardinality(openers) \in Nat
      BY FS_CardinalityType DEF Counted
    <2>1. /\ IsFiniteSet(openers \cup {t})
          /\ Cardinality(openers \cup {t}) <= Cardinality(openers) + 1
      <3>1. PICK old : old = openers
        OBVIOUS
      <3>2. IsFiniteSet(old) /\ Cardinality(old) \in Nat
        BY <2>0, <3>1
      <3>3. /\ IsFiniteSet(old \cup {t})
            /\ Cardinality(old \cup {t}) = IF t \in old THEN Cardinality(old) ELSE Cardinality(old) + 1
        BY <3>2, FS_AddElement
      <3>4. Cardinality(old \cup {t}) <= Cardinality(old) + 1
        BY <3>2, <3>3
      <3> QED
        BY <3>1, <3>3, <3>4
    <2>2. /\ IsFiniteSet(openers') /\ Cardinality(openers') <= Cardinality(openers \cup {t})
      BY <1>4, <2>1, FS_Subset
    <2>3. Cardinality(openers \cup {t}) \in Nat /\ Cardinality(openers') \in Nat
      BY <2>1, <2>2, FS_CardinalityType
    <2> QED
      BY <2>0, <2>1, <2>2, <2>3
  <1>6. Cardinality(Orphans') <= Cardinality(Orphans)
    <2>1. Orphans' \in SUBSET Orphans
      BY <1>1 DEF Orphans
    <2> QED
      BY <2>1, OrphansAreFinite, FS_Subset
  <1>7. abandoned \in Int
    BY DEF Safe, Types
  <1> QED
    BY <1>2, <1>3, <1>5, <1>6, <1>7, OrphansAreFinite DEF Counted

LEMMA ThreadLooksCounts ==
    ASSUME Safe, Safe', Counted, NEW k \in Keys, NEW p \in Procs, ThreadLooks(k, p)
    PROVE  Counted'
  <1>1. /\ <<k, None>> \in openers /\ table' = table /\ doomed' = doomed /\ checkers' = checkers
        /\ pc' = pc /\ held' = held /\ key' = key /\ abandoned' = abandoned
    BY DEF ThreadLooks, tableVars, callVars, closeVars
  <1>2. \A q \in Procs : q # None
    BY VerifierSessionsAssumption
  <1>3. ASSUME NEW q \in Procs, proc'[q] = "running", ~Owned(q)'
        PROVE  proc[q] = "running" /\ ~Owned(q)
    <2>1. \A t \in openers : t # <<k, None>> => t \in openers'
      BY DEF ThreadLooks
    <2>2. proc[q] = "running"
      BY <1>3 DEF Safe, Types, ThreadLooks, Becomes
    <2>3. \A t \in openers : t[2] # q
      BY <1>2, <1>3, <2>1 DEF Owned
    <2> QED
      BY <1>1, <1>3, <2>2, <2>3 DEF Owned, Grips
  <1>4. PICK rest : rest = openers \ {<<k, None>>}
    OBVIOUS
  <1>5. /\ IsFiniteSet(rest) /\ Cardinality(rest) = Cardinality(openers) - 1
        /\ Cardinality(openers) \in Nat /\ Cardinality(rest) \in Nat
    BY <1>1, <1>4, FS_RemoveElement, FS_CardinalityType DEF Counted
  <1>6. openers' = rest \/ openers' = rest \cup {<<k, p>>}
    BY <1>4 DEF ThreadLooks
  <1>7. /\ IsFiniteSet(openers') /\ Cardinality(openers') <= Cardinality(openers)
        /\ Cardinality(openers') \in Nat
    <2>1. CASE openers' = rest
      BY <1>5, <2>1
    <2>2. CASE openers' = rest \cup {<<k, p>>}
      <3>0. PICK t : t = <<k, p>>
        OBVIOUS
      <3>1. /\ IsFiniteSet(rest \cup {t}) /\ Cardinality(rest \cup {t}) <= Cardinality(rest) + 1
        BY <1>5, FS_AddElement
      <3> QED
        BY <1>5, <2>2, <3>0, <3>1, FS_CardinalityType
    <2> QED
      BY <1>6, <2>1, <2>2
  <1>8. Cardinality(Orphans') <= Cardinality(Orphans)
    <2>1. Orphans' \in SUBSET Orphans
      BY <1>3 DEF Orphans
    <2> QED
      BY <2>1, OrphansAreFinite, FS_Subset
  <1>9. Overtaken' = Overtaken /\ abandoned \in Int
    BY <1>1 DEF Overtaken, Safe, Types
  <1> QED
    BY <1>1, <1>5, <1>7, <1>8, <1>9, OrphansAreFinite DEF Counted

\* What the thread has opened takes a place in the table, maybe that of another process, or with
\* lean-interact it is nobody's.
LEMMA ThreadOpensCounts ==
    ASSUME Safe, Safe', Counted, NEW k \in Keys, NEW p \in Procs, ThreadOpens(k, p)
    PROVE  Counted'
  <1>1. /\ <<k, p>> \in openers /\ openers' = openers \ {<<k, p>>} /\ doomed' = doomed
        /\ checkers' = checkers /\ pc' = pc /\ held' = held /\ key' = key /\ abandoned' = abandoned
    BY DEF ThreadOpens, callVars, closeVars
  <1>2. /\ IsFiniteSet(openers') /\ Cardinality(openers') = Cardinality(openers) - 1
        /\ Cardinality(openers) \in Nat /\ Cardinality(openers') \in Nat
    BY <1>1, FS_RemoveElement, FS_CardinalityType DEF Counted
  <1>3. \A t \in openers : t[2] = p \/ t \in openers'
    <2>1. <<k, p>>[2] = p
      OBVIOUS
    <2> QED
      BY <1>1, <2>1
  <1>4. \A q \in Procs : q # p => proc'[q] = proc[q]
    BY DEF Safe, Types, ThreadOpens, Becomes
  <1>5. abandoned \in Int
    BY DEF Safe, Types
  <1>6. CASE table' = table
    <2>1. ASSUME NEW q \in Procs, proc'[q] = "running", ~Owned(q)'
          PROVE  q = p \/ (proc[q] = "running" /\ ~Owned(q))
      BY <1>1, <1>3, <1>4, <1>6, <2>1 DEF Owned, Grips
    <2>2. Cardinality(Orphans') <= Cardinality(Orphans) + 1
      BY <2>1, OneMore
    <2>3. Overtaken' = Overtaken
      BY <1>1, <1>6 DEF Overtaken
    <2> QED
      BY <1>1, <1>2, <1>5, <2>2, <2>3, OrphansAreFinite DEF Counted
  <1>7. CASE table' = [table EXCEPT ![k] = p]
    <2>1. table'[k] = p /\ \A l \in Keys : l # k => table'[l] = table[l]
      BY <1>7 DEF Safe, Types
    <2>2. ASSUME NEW q \in Procs, proc'[q] = "running", ~Owned(q)'
          PROVE  q = table[k] \/ (proc[q] = "running" /\ ~Owned(q))
      <3>1. q # p
        BY <2>1, <2>2 DEF Owned
      <3> QED
        BY <1>1, <1>3, <1>4, <2>1, <2>2, <3>1 DEF Owned, Grips
    <2>3. CASE table[k] = None
      <3>1. Orphans' \in SUBSET Orphans
        BY <2>2, <2>3, VerifierSessionsAssumption DEF Orphans
      <3>2. Cardinality(Orphans') <= Cardinality(Orphans)
        BY <3>1, OrphansAreFinite, FS_Subset
      <3> QED
        BY <1>1, <1>2, <1>5, <3>2, OrphansAreFinite DEF Counted
    <2>4. CASE table[k] # None
      <3>1. Cardinality(Orphans') <= Cardinality(Orphans) + 1
        BY <2>2, OneMore
      <3>2. Overtaken' => Overtaken
        BY <1>1, <2>1, <2>4 DEF Safe, Types, Overtaken
      <3> QED
        BY <1>1, <1>2, <1>5, <3>1, <3>2, OrphansAreFinite DEF Counted
    <2> QED
      BY <2>3, <2>4
  <1> QED
    BY <1>6, <1>7 DEF ThreadOpens

LEMMA StepCounts ==
    ASSUME Safe, Safe', Counted, [Next]_vars
    PROVE  Counted'
  <1>1. CASE UNCHANGED vars
    <2>1. Orphans' = Orphans
      BY <1>1 DEF Orphans, Owned, Grips, vars, tableVars, callVars, threadVars, closeVars
    <2>2. Overtaken' = Overtaken
      BY <1>1 DEF Overtaken, vars, tableVars, callVars
    <2> QED
      BY <1>1, <2>1, <2>2 DEF Counted, vars, threadVars
  <1>2. ASSUME NEW c \in Callers, NEW k \in Keys,
               Call(c, k) \/ \E p \in Procs : CallPool(c, k, p) \/ CheckFresh(c, k, p)
        PROVE  Counted'
    BY <1>2, CallCounts, CallPoolCounts, CheckFreshCounts
  <1>3. ASSUME NEW c \in Callers, Serves(c) \/ Cancel(c)
        PROVE  Counted'
    BY <1>3, GetLockCounts, GetServerCounts, FindSessionCounts, OpenedCounts, OpenFailsCounts,
       UseEndsCounts, UseFailsCounts, DropEndsCounts, FreshEndsCounts, FreshTimesOutCounts,
       StartSessionCounts, CancelCounts DEF Serves
  <1>4. ASSUME NEW k \in Keys, NEW p \in Procs, ThreadLooks(k, p) \/ ThreadOpens(k, p)
        PROVE  Counted'
    BY <1>4, ThreadLooksCounts, ThreadOpensCounts
  <1>5. ASSUME NEW p \in Procs, CheckerEnds(p) \/ ProcDies(p) \/ CloseNext(p)
        PROVE  Counted'
    BY <1>5, CheckerEndsCounts, ProcDiesCounts, CloseNextCounts
  <1>6. CASE Close \/ Closed
    BY <1>6, CloseCounts, ClosedCounts
  <1> QED
    BY <1>1, <1>2, <1>3, <1>4, <1>5, <1>6 DEF Next, Over

LEMMA AlwaysCounted == Spec => []Counted
  <1>1. Init => Counted
    <2> SUFFICES ASSUME Init PROVE Counted
      OBVIOUS
    <2>1. Orphans = {} /\ ~Overtaken /\ openers = {} /\ abandoned = 0
      BY DEF Init, Orphans, Overtaken
    <2> QED
      BY <2>1, FS_EmptySet DEF Counted
  <1>2. Safe /\ Safe' /\ Counted /\ [Next]_vars => Counted'
    BY StepCounts
  <1> QED
    BY <1>1, <1>2, AlwaysSafe, PTL DEF Spec

\* An orphan for each thread that was left alone, at most; and no other process after close().
LEMMA CountedImplies ==
    ASSUME Safe, Counted
    PROVE  NoProcessEscapes
  <1>1. Cardinality(Orphans) <= abandoned
    <2>1. Cardinality(openers) \in Nat /\ abandoned \in Int
      BY FS_CardinalityType DEF Counted, Safe, Types
    <2> QED
      BY <2>1, OrphansAreFinite DEF Counted
  <1>2. ProcessesAccounted
    <2>1. PICK S : S = {p \in Procs : proc[p] = "running" /\ p \notin Referred}
      OBVIOUS
    <2>2. ASSUME NEW p \in Procs, Owned(p) PROVE p \in Referred
      <3>1. p # None
        BY VerifierSessionsAssumption
      <3>2. CASE \E k \in Keys : table[k] = p
        BY <3>1, <3>2 DEF Referred, InTable
      <3>3. CASE p \in doomed
        BY <3>3 DEF Referred
      <3>4. CASE p \in checkers \/ \E t \in openers : t[2] = p
        BY <3>1, <3>4 DEF Referred, InThread
      <3>5. CASE \E c \in Callers : Grips(c) /\ held[c] = p
        BY <3>1, <3>5 DEF Referred, InHands
      <3> QED
        BY <2>2, <3>2, <3>3, <3>4, <3>5 DEF Owned
    <2>3. S \in SUBSET Orphans
      BY <2>1, <2>2 DEF Orphans
    <2>4. Cardinality(S) <= Cardinality(Orphans) /\ Cardinality(S) \in Nat
      BY <2>3, OrphansAreFinite, FS_Subset, FS_CardinalityType
    <2>5. abandoned \in Int
      BY DEF Safe, Types
    <2> QED
      BY <1>1, <2>1, <2>4, <2>5, OrphansAreFinite DEF ProcessesAccounted
  <1>3. ASSUME shutdown = "closed", ~late
        PROVE  Cardinality({p \in Procs : proc[p] = "running"}) <= abandoned
    <2>1. \A p \in Procs : ~Owned(p)
      BY <1>3, VerifierSessionsAssumption DEF Safe, Shut, Owned, Grips
    <2>2. {p \in Procs : proc[p] = "running"} = Orphans
      BY <2>1 DEF Orphans
    <2> QED
      BY <1>1, <2>2
  <1> QED
    BY <1>2, <1>3 DEF NoProcessEscapes, ClosedMeansClosed

----------------------------------------------------------------------------
(* Theorems                                                                *)

\* What a call finds in the table is open, unspoiled and nobody's to close, whatever drops,
\* cancellations and threads left alone came before (dojo_v2.py, lean_interact.py, repl_pool.py).
THEOREM TablesAreInOrder == Spec => []TableInOrder
  <1>1. Safe => TableInOrder
    <2> SUFFICES ASSUME Safe PROVE TableInOrder
      OBVIOUS
    <2>1. TypeOK
      BY DEF Safe, Types, TypeOK
    <2>2. SpoiledNotReused
      BY DEF Safe, Unspoiled, SpoiledNotReused, InTable
    <2>3. TableIsOpen
      BY DEF Safe, Apart, NoneClosed, TableIsOpen, InTable
    <2> QED
      BY <2>1, <2>2, <2>3 DEF TableInOrder
  <1> QED
    BY <1>1, AlwaysSafe, PTL

\* No two callers run on one Lean process at a time, though they share those of the table.
THEOREM ProcessesHaveOneUser == Spec => []OneUser
  <1>1. Safe => OneUser
    <2> SUFFICES ASSUME Safe, NEW c \in Callers, NEW d \in Callers, backend # "repl", c # d,
                        pc[c] = "using", pc[d] = "using", held[c] = held[d]
                 PROVE  FALSE
      BY DEF OneUser
    <2>1. key[c] = key[d]
      BY DEF Safe, SharedByKey, Shares
    <2> QED
      BY <2>1 DEF Safe, Types, Locked
  <1> QED
    BY <1>1, AlwaysSafe, PTL

\* For every process that runs out of reach a thread was left alone, before close() and after.
THEOREM FewProcessesEscape == Spec => []NoProcessEscapes
  <1>1. Safe /\ Counted => NoProcessEscapes
    BY CountedImplies
  <1> QED
    BY <1>1, AlwaysSafe, AlwaysCounted, PTL
===============================================================================
