---------------------------- MODULE BenchmarkProofs ----------------------------
(***************************************************************************)
(* What surrounds the phases: how the candidates are come by (shortlist,   *)
(* preflight), what concurrent callers share and open lazily (the resume   *)
(* cache, the SQLite connection of a FileStorage, the pools of the         *)
(* processes on one Postgres database), and the machines of Benchmark put  *)
(* together.  The theorems hold for any number of callers, pings, rows.    *)
(***************************************************************************)
EXTENDS Benchmark, CascadeProofs, SequenceTheorems

-----------------------------------------------------------------------------
(* Concurrent phases and their one resume cache. *)

\* Every key a task asks for and every key the cache holds is one of Keys.
THEOREM CacheTypeCorrect == CacheSpec => []CacheTypeOK
<1>1. CacheInit => CacheTypeOK
  BY DEF CacheInit, CacheTypeOK, Labels
<1>2. CacheTypeOK /\ [CacheNext]_cacheVars => CacheTypeOK'
  <2> SUFFICES ASSUME CacheTypeOK, [CacheNext]_cacheVars PROVE CacheTypeOK'
    OBVIOUS
  <2> USE SharedCacheAssumption DEF CacheTypeOK, Labels, TaskGoes
  <2>1. ASSUME NEW t \in Tasks, BeginInitialize(t) PROVE CacheTypeOK'
    BY <2>1 DEF BeginInitialize
  <2>2. ASSUME NEW t \in Tasks, TakeLock(t) PROVE CacheTypeOK'
    BY <2>2 DEF TakeLock
  <2>3. ASSUME NEW t \in Tasks, Fetch(t) PROVE CacheTypeOK'
    BY <2>3 DEF Fetch
  <2>4. ASSUME NEW t \in Tasks, Assign(t) PROVE CacheTypeOK'
    BY <2>4 DEF Assign
  <2>5. ASSUME NEW t \in Tasks, InitializeRaises(t) PROVE CacheTypeOK'
    BY <2>5 DEF InitializeRaises
  <2>6. ASSUME NEW t \in Tasks, NEW k \in Keys, Ask(t, k) PROVE CacheTypeOK'
    BY <2>6 DEF Ask
  <2>7. ASSUME NEW t \in Tasks, CallFails(t) PROVE CacheTypeOK'
    BY <2>7 DEF CallFails
  <2>8. ASSUME NEW t \in Tasks, Record(t) PROVE CacheTypeOK'
    BY <2>8 DEF Record
  <2>9. ASSUME NEW t \in Tasks, Put(t) PROVE CacheTypeOK'
    BY <2>9 DEF Put
  <2>10. CASE UNCHANGED cacheVars
    BY <2>10 DEF cacheVars
  <2>11. QED
    BY <2>1, <2>2, <2>3, <2>4, <2>5, <2>6, <2>7, <2>8, <2>9, <2>10 DEF CacheNext
<1>3. QED
  BY <1>1, <1>2, PTL DEF CacheSpec

-----------------------------------------------------------------------------
\* The lock is held by whoever is inside populate_from_storage.
LockIsHeld == \A t \in Tasks : lock = t <=> pc[t] \in {"fetch", "assign"}

\* The cache holds what is known, and storage has all of it; what a populate is
\* about to put in place holds all of it too, because puts wait for the lock.
KnownIsStored ==
    /\ entries \subseteq known
    /\ known \subseteq stored
    /\ \A t \in Tasks :
         /\ fetched[t] \subseteq stored
         /\ pc[t] = "put" => current[t] \in stored
         /\ pc[t] = "assign" => known \subseteq fetched[t]

\* Whoever asks the cache finds all that is known in it.
KnownIsCached ==
    initialized \/ (\E t \in Tasks : pc[t] \in {"ask", "call", "put"}) => known \subseteq entries

CacheInvariant == CacheTypeOK /\ LockIsHeld /\ KnownIsStored /\ KnownIsCached

LEMMA CacheInvariantHolds == CacheSpec => []CacheInvariant
<1>1. CacheInit => CacheInvariant
  BY SharedCacheAssumption DEF CacheInit, CacheInvariant, CacheTypeOK, Labels, LockIsHeld, KnownIsStored, KnownIsCached
<1>2. CacheInvariant /\ CacheTypeOK' /\ [CacheNext]_cacheVars => CacheInvariant'
  <2> SUFFICES ASSUME CacheInvariant, CacheTypeOK', [CacheNext]_cacheVars PROVE LockIsHeld' /\ KnownIsStored' /\ KnownIsCached'
    BY DEF CacheInvariant
  <2> USE SharedCacheAssumption DEF CacheInvariant, CacheTypeOK, LockIsHeld, KnownIsStored, KnownIsCached, TaskGoes
  <2>1. ASSUME NEW t \in Tasks, BeginInitialize(t) PROVE LockIsHeld' /\ KnownIsStored' /\ KnownIsCached'
    BY <2>1 DEF BeginInitialize
  <2>2. ASSUME NEW t \in Tasks, TakeLock(t) PROVE LockIsHeld' /\ KnownIsStored' /\ KnownIsCached'
    BY <2>2 DEF TakeLock
  <2>3. ASSUME NEW t \in Tasks, Fetch(t) PROVE LockIsHeld' /\ KnownIsStored' /\ KnownIsCached'
    BY <2>3 DEF Fetch
  <2>4. ASSUME NEW t \in Tasks, Assign(t) PROVE LockIsHeld' /\ KnownIsStored' /\ KnownIsCached'
    BY <2>4 DEF Assign
  <2>5. ASSUME NEW t \in Tasks, InitializeRaises(t) PROVE LockIsHeld' /\ KnownIsStored' /\ KnownIsCached'
    BY <2>5 DEF InitializeRaises
  <2>6. ASSUME NEW t \in Tasks, NEW k \in Keys, Ask(t, k) PROVE LockIsHeld' /\ KnownIsStored' /\ KnownIsCached'
    BY <2>6 DEF Ask
  <2>7. ASSUME NEW t \in Tasks, CallFails(t) PROVE LockIsHeld' /\ KnownIsStored' /\ KnownIsCached'
    BY <2>7 DEF CallFails
  <2>8. ASSUME NEW t \in Tasks, Record(t) PROVE LockIsHeld' /\ KnownIsStored' /\ KnownIsCached'
    BY <2>8 DEF Record
  <2>9. ASSUME NEW t \in Tasks, Put(t) PROVE LockIsHeld' /\ KnownIsStored' /\ KnownIsCached'
    BY <2>9 DEF Put
  <2>10. CASE UNCHANGED cacheVars
    BY <2>10 DEF cacheVars
  <2>11. QED
    BY <2>1, <2>2, <2>3, <2>4, <2>5, <2>6, <2>7, <2>8, <2>9, <2>10 DEF CacheNext
<1>3. QED
  BY <1>1, <1>2, CacheTypeCorrect, PTL DEF CacheSpec

-----------------------------------------------------------------------------
\* However many populates run next to calls in flight, none takes an entry out of
\* the cache, and no phase pays for an answer that storage had before the first
\* phase began or that any of them has put in the cache (runner/resume.py,
\* populate_from_storage; runner/benchmark.py, initialize).
THEOREM NothingForgotten == CacheSpec => CacheRemembers
<1>1. CacheInvariant /\ [CacheNext]_cacheVars => [Grows]_cacheVars
  <2> SUFFICES ASSUME CacheInvariant, CacheNext PROVE entries \subseteq entries'
    BY DEF Grows
  <2>1. ASSUME NEW t \in Tasks, Assign(t) PROVE entries \subseteq entries'
    BY <2>1 DEF CacheInvariant, KnownIsStored, Assign
  <2>2. ASSUME NEW t \in Tasks, Put(t) PROVE entries \subseteq entries'
    BY <2>2 DEF Put
  <2>3. QED
    BY <2>1, <2>2
    DEF CacheNext, BeginInitialize, TakeLock, Fetch, InitializeRaises, Ask, CallFails, Record
<1>2. CacheInvariant /\ [CacheNext]_cacheVars => [PaysForUnknown]_cacheVars
  <2> SUFFICES ASSUME CacheInvariant, CacheNext, NEW t \in Tasks, pc[t] = "ask", pc'[t] = "call"
               PROVE  current'[t] \notin known
    BY DEF PaysForUnknown
  <2> USE DEF CacheInvariant, CacheTypeOK, TaskGoes
  <2>1. ASSUME NEW u \in Tasks, NEW k \in Keys, Ask(u, k) PROVE current'[t] \notin known
    <3>1. u = t /\ k \notin entries
      BY <2>1 DEF Ask
    <3>2. current'[t] = k
      BY <2>1, <3>1 DEF Ask
    <3>3. known \subseteq entries
      BY DEF KnownIsCached
    <3>4. QED
      BY <3>1, <3>2, <3>3
  <2>2. QED
    BY <2>1
    DEF CacheNext, BeginInitialize, TakeLock, Fetch, Assign, InitializeRaises, CallFails, Record, Put
<1>3. CacheInvariant /\ [CacheNext]_cacheVars => [Grows /\ PaysForUnknown]_cacheVars
  BY <1>1, <1>2
<1>4. QED
  BY <1>3, CacheInvariantHolds, PTL DEF CacheSpec, CacheRemembers

-----------------------------------------------------------------------------
(* The SQLite connection of a FileStorage. *)

\* A new FileStorage has neither a connection nor an index (storage/file.py, __init__).
LEMMA ConnectionInitialTypes == ConnectionInit => ConnectionTypeOK
<1> SUFFICES ASSUME ConnectionInit PROVE ConnectionTypeOK
  OBVIOUS
<1>1. /\ db \in Ops \cup {NoOne}
      /\ holder \in Ops \cup Closers \cup {NoOne}
      /\ cause \subseteq Ops
      /\ lines \in Nat
  BY DEF ConnectionInit
<1>2. fileReady \in BOOLEAN /\ indexed \in BOOLEAN
  BY DEF ConnectionInit
<1>3. /\ conn \in [Ops -> {"none", "open", "closed", "leaked"}]
      /\ opc \in [Ops -> {"idle", "connect", "prepare", "drop", "ready", "append", "commit", "done", "failed"}]
      /\ cpc \in [Closers -> {"idle", "closing", "done"}]
  BY DEF ConnectionInit
<1>4. QED
  BY <1>1, <1>2, <1>3 DEF ConnectionTypeOK

\* Every connection is one an operation opened (storage/file.py, initialize).
THEOREM ConnectionTypeCorrect == ConnectionSpec => []ConnectionTypeOK
<1>1. ConnectionInit => ConnectionTypeOK
  BY ConnectionInitialTypes
<1>2. ConnectionTypeOK /\ [ConnectionNext]_connectionVars => ConnectionTypeOK'
  <2> SUFFICES ASSUME ConnectionTypeOK, [ConnectionNext]_connectionVars PROVE ConnectionTypeOK'
    OBVIOUS
  <2> USE FileConnectionAssumption DEF ConnectionTypeOK, OpGoes, Becomes, Affected
  <2>1. ASSUME NEW o \in Ops, BeginUpsert(o) PROVE ConnectionTypeOK'
    BY <2>1 DEF BeginUpsert
  <2>2. ASSUME NEW o \in Ops, Connect(o) PROVE ConnectionTypeOK'
    BY <2>2 DEF Connect
  <2>3. ASSUME NEW o \in Ops, ConnectRaises(o) PROVE ConnectionTypeOK'
    BY <2>3 DEF ConnectRaises
  <2>4. ASSUME NEW o \in Ops, PublishConnection(o) PROVE ConnectionTypeOK'
    BY <2>4 DEF PublishConnection
  <2>5. ASSUME NEW o \in Ops, DropDuplicate(o) PROVE ConnectionTypeOK'
    BY <2>5 DEF DropDuplicate
  <2>6. ASSUME NEW o \in Ops, LookUp(o) PROVE ConnectionTypeOK'
    BY <2>6 DEF LookUp
  <2>7. ASSUME NEW o \in Ops, AppendPrompt(o) PROVE ConnectionTypeOK'
    BY <2>7 DEF AppendPrompt
  <2>8. ASSUME NEW o \in Ops, CommitPrompt(o) PROVE ConnectionTypeOK'
    BY <2>8 DEF CommitPrompt
  <2>9. ASSUME NEW o \in Ops, UpsertRaises(o) PROVE ConnectionTypeOK'
    BY <2>9 DEF UpsertRaises
  <2>10. ASSUME NEW k \in Closers, BeginClose(k) PROVE ConnectionTypeOK'
    BY <2>10 DEF BeginClose
  <2>11. ASSUME NEW k \in Closers, EndClose(k) PROVE ConnectionTypeOK'
    BY <2>11 DEF EndClose
  <2>12. CASE UNCHANGED connectionVars
    BY <2>12 DEF connectionVars
  <2>13. QED
    BY <2>1, <2>2, <2>3, <2>4, <2>5, <2>6, <2>7, <2>8, <2>9, <2>10, <2>11, <2>12 DEF ConnectionNext, Upsert, Close
<1>3. QED
  BY <1>1, <1>2, PTL DEF ConnectionSpec

-----------------------------------------------------------------------------
\* The published connection is open and no operation is still preparing it; one
\* that is being prepared or dropped is open as well.
PublishedIsOpen ==
    /\ db # NoOne => conn[db] = "open"
    /\ \A o \in Ops :
         /\ opc[o] \in {"idle", "connect", "prepare", "drop"} => db # o
         /\ opc[o] \in {"prepare", "drop"} => conn[o] = "open"

\* The lock is held by who writes and by who closes.
WriterHoldsLock ==
    /\ \A o \in Ops : opc[o] \in {"append", "commit"} => holder = o
    /\ \A k \in Closers : cpc[k] = "closing" => holder = k

\* An operation that counts on a connection finds one, unless it is excused, and
\* while a close is under way every operation is.
ConnectedOrExcused ==
    /\ \A o \in Ops : opc[o] \in {"drop", "ready"} => db # NoOne \/ o \in cause
    /\ \A k \in Closers : cpc[k] = "closing" => Affected \subseteq cause

\* A prompt whose index entry is due has its line (storage/file.py, upsert_prompts).
LineIsFirst == \A o \in Ops : opc[o] = "commit" => lines > 0

ConnectionInvariant ==
    /\ ConnectionTypeOK
    /\ PublishedIsOpen
    /\ WriterHoldsLock
    /\ ConnectedOrExcused
    /\ NoStrayConnection
    /\ UseIsSafe
    /\ FailsForCause
    /\ LineIsFirst
    /\ PromptsAreWritten

LEMMA ConnectionInvariantHolds == ConnectionSpec => []ConnectionInvariant
<1> USE FileConnectionAssumption
        DEF PublishedIsOpen, WriterHoldsLock, ConnectedOrExcused, LineIsFirst, NoStrayConnection, UseIsSafe,
            FailsForCause, PromptsAreWritten
<1>1. ConnectionInit => ConnectionInvariant
  <2> SUFFICES ASSUME ConnectionInit, ConnectionTypeOK PROVE ConnectionInvariant
    BY ConnectionInitialTypes
  <2>1. \A o \in Ops : opc[o] = "idle" /\ conn[o] = "none"
    BY DEF ConnectionInit
  <2>2. \A k \in Closers : cpc[k] = "idle"
    BY DEF ConnectionInit
  <2>3. db = NoOne /\ ~fileReady /\ ~indexed
    BY DEF ConnectionInit
  <2>4. QED
    BY <2>1, <2>2, <2>3 DEF ConnectionInvariant, ConnectionTypeOK
<1>2. ConnectionInvariant /\ ConnectionTypeOK' /\ [ConnectionNext]_connectionVars => ConnectionInvariant'
  <2> SUFFICES ASSUME ConnectionInvariant, ConnectionTypeOK', [ConnectionNext]_connectionVars PROVE ConnectionInvariant'
    OBVIOUS
  <2> USE DEF ConnectionInvariant, ConnectionTypeOK, OpGoes, Becomes, Affected
  <2>1. ASSUME NEW o \in Ops, BeginUpsert(o) PROVE ConnectionInvariant'
    BY <2>1 DEF BeginUpsert
  <2>2. ASSUME NEW o \in Ops, Connect(o) PROVE ConnectionInvariant'
    BY <2>2 DEF Connect
  <2>3. ASSUME NEW o \in Ops, ConnectRaises(o) PROVE ConnectionInvariant'
    BY <2>3 DEF ConnectRaises
  <2>4. ASSUME NEW o \in Ops, PublishConnection(o) PROVE ConnectionInvariant'
    BY <2>4 DEF PublishConnection
  <2>5. ASSUME NEW o \in Ops, DropDuplicate(o) PROVE ConnectionInvariant'
    BY <2>5 DEF DropDuplicate
  <2>6. ASSUME NEW o \in Ops, LookUp(o) PROVE ConnectionInvariant'
    BY <2>6 DEF LookUp
  <2>7. ASSUME NEW o \in Ops, AppendPrompt(o) PROVE ConnectionInvariant'
    BY <2>7 DEF AppendPrompt
  <2>8. ASSUME NEW o \in Ops, CommitPrompt(o) PROVE ConnectionInvariant'
    BY <2>8 DEF CommitPrompt
  <2>9. ASSUME NEW o \in Ops, UpsertRaises(o) PROVE ConnectionInvariant'
    BY <2>9 DEF UpsertRaises
  <2>10. ASSUME NEW k \in Closers, BeginClose(k) PROVE ConnectionInvariant'
    BY <2>10 DEF BeginClose
  <2>11. ASSUME NEW k \in Closers, EndClose(k) PROVE ConnectionInvariant'
    BY <2>11 DEF EndClose
  <2>12. CASE UNCHANGED connectionVars
    BY <2>12 DEF connectionVars
  <2>13. QED
    BY <2>1, <2>2, <2>3, <2>4, <2>5, <2>6, <2>7, <2>8, <2>9, <2>10, <2>11, <2>12 DEF ConnectionNext, Upsert, Close
<1>3. QED
  BY <1>1, <1>2, ConnectionTypeCorrect, PTL DEF ConnectionSpec

\* Of any number of operations that open connections at once, all but one close
\* theirs (storage/file.py, initialize).
THEOREM OneConnection == ConnectionSpec => []NoStrayConnection
BY ConnectionInvariantHolds, PTL DEF ConnectionInvariant

\* Whatever is written is written through an open connection, however closes and
\* operations interleave (storage/file.py, close).
THEOREM WritesAreSafe == ConnectionSpec => []UseIsSafe
BY ConnectionInvariantHolds, PTL DEF ConnectionInvariant

\* An operation that fails met an exception or a close
\* (storage/file.py, initialize and upsert_prompts).
THEOREM NoUpsertFailsByRivals == ConnectionSpec => []FailsForCause
BY ConnectionInvariantHolds, PTL DEF ConnectionInvariant

\* All of these, and no prompt that is indexed is missing from the file
\* (storage/file.py, initialize, upsert_prompts and close).
THEOREM ConnectionStaysSafe == ConnectionSpec => []ConnectionIsSafe
<1>1. ConnectionInvariant => ConnectionIsSafe
  BY DEF ConnectionInvariant, ConnectionIsSafe
<1>2. QED
  BY <1>1, ConnectionInvariantHolds, PTL

-----------------------------------------------------------------------------
(* The pools of the processes on one database. *)

Initializing == {"create", "check", "stamp", "publish", "drop"}
Prepared == Initializing \ {"create"}

\* The lock of a process is held by whoever is inside its initialize, which finds
\* no pool published, or by its close, which drains one.
GuardIsHeld ==
    /\ \A c \in Callers : step[c] \in Initializing => guard[ProcessOf[c]] = c /\ ~published[ProcessOf[c]]
    /\ \A p \in Processes : closing[p] = "draining" => guard[p] = p /\ published[p]

\* One pool is open if it is published or being prepared, otherwise none.
OneIsOpen ==
    \A p \in Processes :
        /\ published[p] => opened[p] = 1
        /\ \A c \in Callers : ProcessOf[c] = p /\ step[c] \in Prepared => opened[p] = 1
        /\ ~published[p] /\ (\A c \in Callers : ProcessOf[c] = p => step[c] \notin Prepared) => opened[p] = 0

LockInvariant == PoolTypeOK /\ GuardIsHeld /\ OneIsOpen

\* Every step keeps the lock and the pools in order (storage/postgres.py).
LEMMA LockInvariantHolds == PoolSpec => []LockInvariant
<1>1. PoolInit => LockInvariant
  <2> SUFFICES ASSUME PoolInit PROVE LockInvariant
    OBVIOUS
  <2>1. PoolTypeOK
    <3>1. opened \in [Processes -> Nat] /\ guard \in [Processes -> Callers \cup Processes \cup {None}]
      BY DEF PoolInit
    <3>2. stamps \subseteq {Build[p] : p \in Processes}
      BY DEF PoolInit
    <3>3. QED
      BY <3>1, <3>2 DEF PoolInit, PoolTypeOK
  <2>2. GuardIsHeld /\ OneIsOpen
    BY PostgresPoolAssumption DEF PoolInit, GuardIsHeld, OneIsOpen, Initializing, Prepared
  <2>3. QED
    BY <2>1, <2>2 DEF LockInvariant
<1>2. LockInvariant /\ [PoolNext]_poolVars => LockInvariant'
  <2> SUFFICES ASSUME LockInvariant, [PoolNext]_poolVars PROVE LockInvariant'
    OBVIOUS
  <2> USE PostgresPoolAssumption
          DEF LockInvariant, PoolTypeOK, GuardIsHeld, OneIsOpen, Initializing, Prepared, CallerGoes
  <2>1. ASSUME NEW c \in Callers, TakeGuard(c) PROVE LockInvariant'
    BY <2>1 DEF TakeGuard
  <2>2. ASSUME NEW c \in Callers, CreatePool(c) PROVE LockInvariant'
    BY <2>2 DEF CreatePool
  <2>3. ASSUME NEW c \in Callers, ReadStamp(c) PROVE LockInvariant'
    BY <2>3 DEF ReadStamp
  <2>4. ASSUME NEW c \in Callers, InsertStamp(c) PROVE LockInvariant'
    BY <2>4 DEF InsertStamp
  <2>5. ASSUME NEW c \in Callers, PoolRaises(c) PROVE LockInvariant'
    BY <2>5 DEF PoolRaises
  <2>6. ASSUME NEW c \in Callers, DropPool(c) PROVE LockInvariant'
    BY <2>6 DEF DropPool
  <2>7. ASSUME NEW c \in Callers, PublishPool(c) PROVE LockInvariant'
    BY <2>7 DEF PublishPool
  <2>8. ASSUME NEW c \in Callers, Acquire(c) PROVE LockInvariant'
    BY <2>8 DEF Acquire
  <2>9. ASSUME NEW c \in Callers, EndUpsert(c) PROVE LockInvariant'
    BY <2>9 DEF EndUpsert
  <2>10. ASSUME NEW p \in Processes, BeginPoolClose(p) PROVE LockInvariant'
    BY <2>10 DEF BeginPoolClose
  <2>11. ASSUME NEW p \in Processes, EndPoolClose(p) PROVE LockInvariant'
    BY <2>11 DEF EndPoolClose
  <2>12. CASE UNCHANGED poolVars
    BY <2>12 DEF poolVars
  <2>13. QED
    BY <2>1, <2>2, <2>3, <2>4, <2>5, <2>6, <2>7, <2>8, <2>9, <2>10, <2>11, <2>12 DEF PoolNext, Call, ClosePool
<1>3. QED
  BY <1>1, <1>2, PTL DEF PoolSpec

\* However initialize calls, failures and closes interleave, the open pools of a
\* process are the published one and the one under preparation
\* (storage/postgres.py, initialize and close).
THEOREM OnePool == PoolSpec => []NoStrayPool
<1>1. LockInvariant => NoStrayPool
  <2> SUFFICES ASSUME LockInvariant, NEW p \in Processes
               PROVE  opened[p] = IF published[p] THEN 1
                                  ELSE Cardinality({c \in Callers : ProcessOf[c] = p /\ step[c] \in {"check", "stamp", "publish", "drop"}})
    BY DEF NoStrayPool
  <2> DEFINE preparing == {c \in Callers : ProcessOf[c] = p /\ step[c] \in {"check", "stamp", "publish", "drop"}}
  <2>1. CASE published[p]
    BY <2>1 DEF LockInvariant, OneIsOpen
  <2>2. CASE ~published[p] /\ preparing = {}
    <3>1. opened[p] = 0
      BY <2>2 DEF LockInvariant, OneIsOpen, Initializing, Prepared
    <3>2. Cardinality(preparing) = 0
      BY <2>2, FS_EmptySet
    <3>3. QED
      BY <2>2, <3>1, <3>2
  <2>3. CASE ~published[p] /\ preparing # {}
    <3>1. PICK c \in preparing : TRUE
      BY <2>3
    <3>2. opened[p] = 1
      BY <3>1 DEF LockInvariant, OneIsOpen, Initializing, Prepared
    <3>3. preparing = {c}
      BY <3>1 DEF LockInvariant, GuardIsHeld, Initializing
    <3>4. Cardinality(preparing) = 1
      BY <3>3, FS_Singleton
    <3>5. QED
      BY <2>3, <3>2, <3>4
  <2>4. QED
    BY <2>1, <2>2, <2>3
<1>2. QED
  BY <1>1, LockInvariantHolds, PTL

\* No pool is closed more often than it was opened (storage/postgres.py).
THEOREM PoolTypeCorrect == PoolSpec => []PoolTypeOK
<1>1. LockInvariant => PoolTypeOK
  BY DEF LockInvariant
<1>2. QED
  BY <1>1, LockInvariantHolds, PTL

-----------------------------------------------------------------------------
\* A caller ready to write finds a pool that is not draining, or met a close; one
\* that fails met an exception or a close.
PooledOrExcused ==
    \A c \in Callers :
        /\ step[c] = "ready" => c \in excused \/ (published[ProcessOf[c]] /\ closing[ProcessOf[c]] # "draining")
        /\ closing[ProcessOf[c]] = "draining" => step[c] \in {"idle", "done", "failed"} \/ c \in excused
        /\ step[c] \in {"drop", "failed"} => c \in excused

\* Every step leaves callers ready or excused (storage/postgres.py).
LEMMA PooledOrExcusedHolds == PoolSpec => []PooledOrExcused
<1>1. PoolInit => PooledOrExcused
  BY DEF PoolInit, PooledOrExcused
<1>2. PooledOrExcused /\ LockInvariant /\ [PoolNext]_poolVars => PooledOrExcused'
  <2> SUFFICES ASSUME PooledOrExcused, LockInvariant, [PoolNext]_poolVars PROVE PooledOrExcused'
    OBVIOUS
  <2> USE PostgresPoolAssumption
          DEF LockInvariant, PoolTypeOK, GuardIsHeld, PooledOrExcused, Initializing, CallerGoes
  <2>1. ASSUME NEW c \in Callers, TakeGuard(c) PROVE PooledOrExcused'
    BY <2>1 DEF TakeGuard
  <2>2. ASSUME NEW c \in Callers, CreatePool(c) PROVE PooledOrExcused'
    BY <2>2 DEF CreatePool
  <2>3. ASSUME NEW c \in Callers, ReadStamp(c) PROVE PooledOrExcused'
    BY <2>3 DEF ReadStamp
  <2>4. ASSUME NEW c \in Callers, InsertStamp(c) PROVE PooledOrExcused'
    BY <2>4 DEF InsertStamp
  <2>5. ASSUME NEW c \in Callers, PoolRaises(c) PROVE PooledOrExcused'
    BY <2>5 DEF PoolRaises
  <2>6. ASSUME NEW c \in Callers, DropPool(c) PROVE PooledOrExcused'
    BY <2>6 DEF DropPool
  <2>7. ASSUME NEW c \in Callers, PublishPool(c) PROVE PooledOrExcused'
    BY <2>7 DEF PublishPool
  <2>8. ASSUME NEW c \in Callers, Acquire(c) PROVE PooledOrExcused'
    BY <2>8 DEF Acquire
  <2>9. ASSUME NEW c \in Callers, EndUpsert(c) PROVE PooledOrExcused'
    BY <2>9 DEF EndUpsert
  <2>10. ASSUME NEW p \in Processes, BeginPoolClose(p) PROVE PooledOrExcused'
    BY <2>10 DEF BeginPoolClose
  <2>11. ASSUME NEW p \in Processes, EndPoolClose(p) PROVE PooledOrExcused'
    BY <2>11 DEF EndPoolClose
  <2>12. CASE UNCHANGED poolVars
    BY <2>12 DEF poolVars
  <2>13. QED
    BY <2>1, <2>2, <2>3, <2>4, <2>5, <2>6, <2>7, <2>8, <2>9, <2>10, <2>11, <2>12 DEF PoolNext, Call, ClosePool
<1>3. QED
  BY <1>1, <1>2, LockInvariantHolds, PTL DEF PoolSpec

\* A caller of upsert_prompts fails for a cause, never for what other callers of
\* initialize do (storage/postgres.py, initialize).
THEOREM NoCallerFailsByRivals == PoolSpec => []RaisesForCause
<1>1. PooledOrExcused => RaisesForCause
  BY DEF PooledOrExcused, RaisesForCause
<1>2. QED
  BY <1>1, PooledOrExcusedHolds, PTL

-----------------------------------------------------------------------------
\* Who holds a connection is writing on a published pool.
WritersArePooled == \A c \in using : step[c] = "insert" /\ published[ProcessOf[c]]

\* Every step keeps the writers on a published pool (storage/postgres.py).
LEMMA WritersArePooledHolds == PoolSpec => []WritersArePooled
<1>1. PoolInit => WritersArePooled
  BY DEF PoolInit, WritersArePooled
<1>2. WritersArePooled /\ LockInvariant /\ [PoolNext]_poolVars => WritersArePooled'
  <2> SUFFICES ASSUME WritersArePooled, LockInvariant, [PoolNext]_poolVars PROVE WritersArePooled'
    OBVIOUS
  <2> USE PostgresPoolAssumption
          DEF LockInvariant, PoolTypeOK, GuardIsHeld, WritersArePooled, UsersOf, Initializing, CallerGoes
  <2>1. ASSUME NEW c \in Callers, TakeGuard(c) PROVE WritersArePooled'
    BY <2>1 DEF TakeGuard
  <2>2. ASSUME NEW c \in Callers, CreatePool(c) PROVE WritersArePooled'
    BY <2>2 DEF CreatePool
  <2>3. ASSUME NEW c \in Callers, ReadStamp(c) PROVE WritersArePooled'
    BY <2>3 DEF ReadStamp
  <2>4. ASSUME NEW c \in Callers, InsertStamp(c) PROVE WritersArePooled'
    BY <2>4 DEF InsertStamp
  <2>5. ASSUME NEW c \in Callers, PoolRaises(c) PROVE WritersArePooled'
    BY <2>5 DEF PoolRaises
  <2>6. ASSUME NEW c \in Callers, DropPool(c) PROVE WritersArePooled'
    BY <2>6 DEF DropPool
  <2>7. ASSUME NEW c \in Callers, PublishPool(c) PROVE WritersArePooled'
    BY <2>7 DEF PublishPool
  <2>8. ASSUME NEW c \in Callers, Acquire(c) PROVE WritersArePooled'
    BY <2>8 DEF Acquire
  <2>9. ASSUME NEW c \in Callers, EndUpsert(c) PROVE WritersArePooled'
    BY <2>9 DEF EndUpsert
  <2>10. ASSUME NEW p \in Processes, BeginPoolClose(p) PROVE WritersArePooled'
    BY <2>10 DEF BeginPoolClose
  <2>11. ASSUME NEW p \in Processes, EndPoolClose(p) PROVE WritersArePooled'
    BY <2>11 DEF EndPoolClose
  <2>12. CASE UNCHANGED poolVars
    BY <2>12 DEF poolVars
  <2>13. QED
    BY <2>1, <2>2, <2>3, <2>4, <2>5, <2>6, <2>7, <2>8, <2>9, <2>10, <2>11, <2>12 DEF PoolNext, Call, ClosePool
<1>3. QED
  BY <1>1, <1>2, LockInvariantHolds, PTL DEF PoolSpec

\* No process holds more connections than its pool has.
UsersAreFew == IsFiniteSet(using) /\ \A p \in Processes : Cardinality(UsersOf(p)) <= MaxConnections

\* The users of a process are as many as before, one more or one less
\* (storage/postgres.py, upsert_prompts).
LEMMA UsersGrow ==
    ASSUME UsersAreFew, NEW c \in Callers, Acquire(c)
    PROVE  UsersAreFew'
<1>1. CASE using' = using
  BY <1>1 DEF UsersAreFew, UsersOf
<1>2. CASE using' = using \cup {c} /\ Cardinality(UsersOf(ProcessOf[c])) < MaxConnections
  <2>1. IsFiniteSet(using')
    BY <1>2, FS_AddElement DEF UsersAreFew
  <2>2. ASSUME NEW p \in Processes PROVE Cardinality(UsersOf(p)') <= MaxConnections
    <3>1. IsFiniteSet(UsersOf(p))
      BY FS_Subset DEF UsersAreFew, UsersOf
    <3>2. CASE p = ProcessOf[c]
      <4>1. UsersOf(p)' = UsersOf(p) \cup {c}
        BY <1>2, <3>2 DEF UsersOf
      <4>2. Cardinality(UsersOf(p)') \in {Cardinality(UsersOf(p)), Cardinality(UsersOf(p)) + 1}
        BY <3>1, <4>1, FS_AddElement
      <4>3. Cardinality(UsersOf(p)) \in Nat /\ MaxConnections \in Nat
        BY <3>1, FS_CardinalityType, PostgresPoolAssumption
      <4>4. QED
        BY <1>2, <3>2, <4>2, <4>3
    <3>3. CASE p # ProcessOf[c]
      <4>1. UsersOf(p)' = UsersOf(p)
        BY <1>2, <3>3 DEF UsersOf
      <4>2. QED
        BY <4>1 DEF UsersAreFew
    <3>4. QED
      BY <3>2, <3>3
  <2>3. QED
    BY <2>1, <2>2 DEF UsersAreFew
<1>3. QED
  BY <1>1, <1>2 DEF Acquire

\* Fewer users are few (storage/postgres.py, close).
LEMMA UsersShrink ==
    ASSUME UsersAreFew, using' \subseteq using
    PROVE  UsersAreFew'
<1>1. IsFiniteSet(using')
  BY FS_Subset DEF UsersAreFew
<1>2. ASSUME NEW p \in Processes PROVE Cardinality(UsersOf(p)') <= MaxConnections
  <2>1. IsFiniteSet(UsersOf(p)) /\ UsersOf(p)' \subseteq UsersOf(p)
    BY FS_Subset DEF UsersAreFew, UsersOf
  <2>2. /\ Cardinality(UsersOf(p)') <= Cardinality(UsersOf(p))
        /\ Cardinality(UsersOf(p)') \in Nat /\ Cardinality(UsersOf(p)) \in Nat
    BY <2>1, FS_Subset, FS_CardinalityType
  <2>3. QED
    BY <2>2, PostgresPoolAssumption DEF UsersAreFew
<1>3. QED
  BY <1>1, <1>2 DEF UsersAreFew

\* Every step keeps them few (storage/postgres.py, upsert_prompts).
LEMMA UsersAreFewHolds == PoolSpec => []UsersAreFew
<1>1. PoolInit => UsersAreFew
  <2> SUFFICES ASSUME PoolInit PROVE UsersAreFew
    OBVIOUS
  <2>1. using = {} /\ \A p \in Processes : UsersOf(p) = {}
    BY DEF PoolInit, UsersOf
  <2>2. QED
    BY <2>1, FS_EmptySet, PostgresPoolAssumption DEF UsersAreFew
<1>2. UsersAreFew /\ [PoolNext]_poolVars => UsersAreFew'
  <2> SUFFICES ASSUME UsersAreFew, [PoolNext]_poolVars PROVE UsersAreFew'
    OBVIOUS
  <2>1. using' \subseteq using \/ \E c \in Callers : Acquire(c)
    BY DEF PoolNext, Call, ClosePool, poolVars, TakeGuard, CreatePool, ReadStamp, InsertStamp, PoolRaises,
           DropPool, PublishPool, EndUpsert, BeginPoolClose, EndPoolClose
  <2>2. QED
    BY <2>1, UsersGrow, UsersShrink
<1>3. QED
  BY <1>1, <1>2, PTL DEF PoolSpec

\* No connection outlives its pool and no process holds more than its pool has
\* (storage/postgres.py, close and upsert_prompts).
THEOREM UseIsPooled == PoolSpec => []PoolOutlivesUse
<1>1. WritersArePooled /\ UsersAreFew => PoolOutlivesUse
  BY DEF WritersArePooled, UsersAreFew, PoolOutlivesUse, UsersOf
<1>2. QED
  BY <1>1, WritersArePooledHolds, UsersAreFewHolds, PTL

-----------------------------------------------------------------------------
\* Stamps are of one build from before, or each was left by a process that found
\* none; who publishes a pool has its build's.
StampsAreExplained ==
    /\ \/ blind = {} /\ \A b, e \in stamps : b = e
       \/ \A b \in stamps : \E p \in blind : Build[p] = b
    /\ \A c \in Callers : step[c] = "stamp" => ProcessOf[c] \in blind
    /\ \A c \in Callers : step[c] = "publish" => Build[ProcessOf[c]] \in stamps
    /\ \A p \in Processes : published[p] => Build[p] \in stamps

\* Every step leaves the stamps explained (storage/postgres.py).
LEMMA StampsAreExplainedHolds == PoolSpec => []StampsAreExplained
<1>1. PoolInit => StampsAreExplained
  BY DEF PoolInit, StampsAreExplained
<1>2. StampsAreExplained /\ LockInvariant /\ [PoolNext]_poolVars => StampsAreExplained'
  <2> SUFFICES ASSUME StampsAreExplained, LockInvariant, [PoolNext]_poolVars PROVE StampsAreExplained'
    OBVIOUS
  <2> USE PostgresPoolAssumption
          DEF LockInvariant, PoolTypeOK, StampsAreExplained, CallerGoes
  <2>1. ASSUME NEW c \in Callers, TakeGuard(c) PROVE StampsAreExplained'
    BY <2>1 DEF TakeGuard
  <2>2. ASSUME NEW c \in Callers, CreatePool(c) PROVE StampsAreExplained'
    BY <2>2 DEF CreatePool
  <2>3. ASSUME NEW c \in Callers, ReadStamp(c) PROVE StampsAreExplained'
    BY <2>3 DEF ReadStamp
  <2>4. ASSUME NEW c \in Callers, InsertStamp(c) PROVE StampsAreExplained'
    BY <2>4 DEF InsertStamp
  <2>5. ASSUME NEW c \in Callers, PoolRaises(c) PROVE StampsAreExplained'
    BY <2>5 DEF PoolRaises
  <2>6. ASSUME NEW c \in Callers, DropPool(c) PROVE StampsAreExplained'
    BY <2>6 DEF DropPool
  <2>7. ASSUME NEW c \in Callers, PublishPool(c) PROVE StampsAreExplained'
    BY <2>7 DEF PublishPool
  <2>8. ASSUME NEW c \in Callers, Acquire(c) PROVE StampsAreExplained'
    BY <2>8 DEF Acquire
  <2>9. ASSUME NEW c \in Callers, EndUpsert(c) PROVE StampsAreExplained'
    BY <2>9 DEF EndUpsert
  <2>10. ASSUME NEW p \in Processes, BeginPoolClose(p) PROVE StampsAreExplained'
    BY <2>10 DEF BeginPoolClose
  <2>11. ASSUME NEW p \in Processes, EndPoolClose(p) PROVE StampsAreExplained'
    BY <2>11 DEF EndPoolClose
  <2>12. CASE UNCHANGED poolVars
    BY <2>12 DEF poolVars
  <2>13. QED
    BY <2>1, <2>2, <2>3, <2>4, <2>5, <2>6, <2>7, <2>8, <2>9, <2>10, <2>11, <2>12 DEF PoolNext, Call, ClosePool
<1>3. QED
  BY <1>1, <1>2, LockInvariantHolds, PTL DEF PoolSpec

\* Two builds write to one schema only if a process of each found it unstamped, for
\* any number of processes and builds (storage/postgres.py,
\* _check_or_stamp_schema_version).
THEOREM BuildsAreApart == PoolSpec => []BuildsDoNotMix
<1>1. LockInvariant /\ WritersArePooled /\ StampsAreExplained => BuildsDoNotMix
  <2> SUFFICES ASSUME LockInvariant, WritersArePooled, StampsAreExplained, NEW c \in using, NEW d \in using
               PROVE  /\ Build[ProcessOf[c]] \in stamps
                      /\ Build[ProcessOf[c]] # Build[ProcessOf[d]] => \E p \in blind : Build[p] = Build[ProcessOf[c]]
    BY DEF BuildsDoNotMix
  <2>1. ProcessOf[c] \in Processes /\ ProcessOf[d] \in Processes
    BY PostgresPoolAssumption DEF LockInvariant, PoolTypeOK
  <2>2. Build[ProcessOf[c]] \in stamps /\ Build[ProcessOf[d]] \in stamps
    BY <2>1 DEF WritersArePooled, StampsAreExplained
  <2>3. QED
    BY <2>2 DEF StampsAreExplained
<1>2. QED
  BY <1>1, LockInvariantHolds, WritersArePooledHolds, StampsAreExplainedHolds, PTL

\* All of these at once (storage/postgres.py, initialize, upsert_prompts and close).
THEOREM PoolsStaySafe == PoolSpec => []PoolIsSafe
BY OnePool, UseIsPooled, BuildsAreApart, NoCallerFailsByRivals, PTL DEF PoolIsSafe

-----------------------------------------------------------------------------
(* The shortlist, for any catalogue, profile, bounds and numbers of seats. *)

\* What the estimates of a catalogue are: finitely many, with amounts that can be
\* compared; none costs less than nothing.
AreEstimates(est) ==
    /\ IsFiniteSet(DOMAIN est) /\ DOMAIN est \subseteq Int
    /\ \A i \in DOMAIN est :
         /\ Cost(est[i]) \in Nat
         /\ RankCost(est[i]) \in Nat /\ (RankCost(est[i]) = 0 <=> Cost(est[i]) = 0)
         /\ OrZero(est[i].context) \in Int
    /\ \A i, j \in DOMAIN est : est[i].id = est[j].id => est[i].vendor = est[j].vendor

LEMMA Products ==
    /\ \A a, b \in Nat : a * b \in Nat
    /\ \A a \in Nat, b \in Nat \ {0} : a * b = 0 <=> a = 0
<1>1. \A a, b \in Nat : a * b \in Nat
  OBVIOUS
<1>2. \A a, b \in Nat \ {0} : a * b \in Nat \ {0}
  OBVIOUS
<1>3. \A b \in Nat : 0 * b = 0
  OBVIOUS
<1>4. QED
  BY <1>1, <1>2, <1>3

\* A row that states a context length has an entry with one.
LEMMA ContextIsNumber ==
    ASSUME NEW row, {row.context, row.providerContext} \subseteq Int
    PROVE  Context(row) \in Int
<1> DEFINE stated == {c \in {row.context, row.providerContext} : c > 0}
<1>1. stated \subseteq Nat
  OBVIOUS
<1> HIDE DEF stated
<1>2. CASE stated = {}
  BY <1>2 DEF Context, Missing, stated
<1>3. CASE stated # {}
  <2>1. \E x \in stated : \A y \in stated : x <= y
    BY <1>1, <1>3, LeastNat
  <2>2. Min(stated) \in stated
    BY <2>1 DEF Min
  <2>3. Context(row) = Min(stated)
    BY <1>3 DEF Context, stated
  <2>4. Context(row) \in Nat
    BY <1>1, <2>2, <2>3
  <2>5. QED
    BY <2>4
<1>4. QED
  BY <1>2, <1>3

LEMMA EntryHas ==
    ASSUME NEW row
    PROVE  /\ Entry(row).id = row.id /\ Entry(row).vendor = row.vendor
           /\ Entry(row).input = PerM(row.prompt) /\ Entry(row).output = PerM(row.completion)
           /\ Entry(row).cacheRead = PerM(row.cacheRead) /\ Entry(row).context = Context(row)
BY DEF Entry

LEMMA EstimatesAre ==
    ASSUME NEW rows, IsCatalogue(rows), NEW denied
    PROVE  AreEstimates(Estimates(rows, denied))
<1> DEFINE est == Estimates(rows, denied)
           paying == {j \in DOMAIN rows : ~rows[j].free}
           listed == [i \in paying |-> Entry(rows[i])]
           usable == {i \in paying : listed[i].id \notin denied /\ Keep(listed[i]) /\ Priced(listed[i])}
<1>1. est = [i \in usable |-> listed[i]]
  BY DEF Estimates, Listed, Restrict
<1>2. \A i \in usable : i \in DOMAIN rows /\ est[i] = Entry(rows[i]) /\ Priced(est[i])
  BY <1>1
<1>3. DOMAIN est = usable /\ usable \subseteq 1 .. Len(rows) /\ Len(rows) \in Nat
  BY <1>1 DEF IsCatalogue
<1> HIDE DEF est, usable, listed, paying
<1>4. IsFiniteSet(DOMAIN est) /\ DOMAIN est \subseteq Int
  <2>1. IsFiniteSet(1 .. Len(rows))
    BY <1>3, FS_Interval
  <2>2. QED
    BY <1>3, <2>1, FS_Subset
<1>5. ASSUME NEW i \in usable
      PROVE  /\ Cost(est[i]) \in Nat
             /\ RankCost(est[i]) \in Nat /\ (RankCost(est[i]) = 0 <=> Cost(est[i]) = 0)
             /\ OrZero(est[i].context) \in Int
  <2>1. /\ rows[i].prompt \in Int /\ rows[i].completion \in Int /\ rows[i].cacheRead \in Int
        /\ {rows[i].context, rows[i].providerContext} \subseteq Int
    BY <1>2 DEF IsCatalogue
  <2>2. /\ est[i].input = PerM(rows[i].prompt) /\ est[i].output = PerM(rows[i].completion)
        /\ est[i].cacheRead = PerM(rows[i].cacheRead) /\ est[i].context = Context(rows[i])
    BY <1>2, EntryHas
  <2>3. est[i].input \in Nat /\ est[i].output \in Nat
    BY <1>2, <2>1, <2>2 DEF Priced, Known, PerM, Missing
  <2>4. CacheRate(est[i]) \in Nat
    BY <2>1, <2>2, <2>3 DEF CacheRate, PerM, Missing
  <2>5. Profile.cached \in Nat /\ Profile.fresh \in Nat /\ Profile.output \in Nat
    BY ShortlistAssumption
  <2>6. Cost(est[i]) \in Nat
    <3>1. /\ Profile.cached * CacheRate(est[i]) \in Nat
          /\ Profile.fresh * est[i].input \in Nat
          /\ Profile.output * est[i].output \in Nat
      BY <2>3, <2>4, <2>5, Products
    <3>2. \A x, y, z \in Nat : x + y + z \in Nat
      OBVIOUS
    <3>3. QED
      BY <3>1, <3>2 DEF Cost
  <2>7. RankCost(est[i]) \in Nat /\ (RankCost(est[i]) = 0 <=> Cost(est[i]) = 0)
    <3>1. (IF est[i].moderated THEN Penalty ELSE 100) \in Nat \ {0}
      BY ShortlistAssumption
    <3>2. QED
      BY <2>6, <3>1, Products DEF RankCost
  <2>8. OrZero(est[i].context) \in Int
    BY <2>1, <2>2, ContextIsNumber DEF OrZero
  <2>9. QED
    BY <2>6, <2>7, <2>8
<1>6. ASSUME NEW i \in usable, NEW j \in usable, est[i].id = est[j].id
      PROVE  est[i].vendor = est[j].vendor
  <2>1. est[i].id = rows[i].id /\ est[j].id = rows[j].id
    BY <1>2, EntryHas
  <2>2. est[i].vendor = rows[i].vendor /\ est[j].vendor = rows[j].vendor
    BY <1>2, EntryHas
  <2>3. QED
    BY <1>2, <1>6, <2>1, <2>2 DEF IsCatalogue
<1>7. AreEstimates(est)
  BY <1>3, <1>4, <1>5, <1>6 DEF AreEstimates
<1>8. QED
  BY <1>7 DEF est

\* The order of the estimates as a set of pairs.
InOrderOf(est) == {p \in (DOMAIN est) \X (DOMAIN est) : Before(est, p[1], p[2])}

\* The sort is by a strict and total order.
LEMMA BeforeOrders ==
    ASSUME NEW est, AreEstimates(est)
    PROVE  /\ IsOrder(InOrderOf(est), DOMAIN est)
           /\ \A i, j \in DOMAIN est : <<i, j>> \in InOrderOf(est) <=> Before(est, i, j)
           /\ \A i, j \in DOMAIN est : i # j => Before(est, i, j) \/ Before(est, j, i)
           /\ \A i, j \in DOMAIN est : ~(Before(est, i, j) /\ Before(est, j, i))
<1>1. \A i \in DOMAIN est : i \in Int /\ RankCost(est[i]) \in Int /\ OrZero(est[i].context) \in Int
  BY DEF AreEstimates
<1>2. \A i, j \in DOMAIN est :
        /\ i # j => Before(est, i, j) \/ Before(est, j, i)
        /\ ~(Before(est, i, j) /\ Before(est, j, i))
  BY <1>1 DEF Before, Cheaper
<1>3. \A i, j, k \in DOMAIN est : Before(est, i, j) /\ Before(est, j, k) => Before(est, i, k)
  BY <1>1 DEF Before, Cheaper
<1>4. \A i, j \in DOMAIN est : <<i, j>> \in InOrderOf(est) <=> Before(est, i, j)
  BY DEF InOrderOf
<1>5. IsOrder(InOrderOf(est), DOMAIN est)
  BY <1>2, <1>3, <1>4 DEF IsOrder
<1>6. QED
  BY <1>2, <1>4, <1>5

\* Any set of places has a first one.
LEMMA FirstOfPlaces ==
    ASSUME NEW est, AreEstimates(est), NEW S \in SUBSET DOMAIN est, S # {}
    PROVE  \E m \in S : \A j \in S : ~Before(est, j, m)
<1>1. IsFiniteSet(S)
  BY FS_Subset DEF AreEstimates
<1>2. IsOrder(InOrderOf(est), S)
  BY BeforeOrders DEF IsOrder
<1>3. PICK m \in S : \A j \in S : <<j, m>> \notin InOrderOf(est)
  BY <1>1, <1>2, OrderHasFirst
<1>4. QED
  BY <1>3, BeforeOrders

LEMMA AheadIs ==
    ASSUME NEW est, AreEstimates(est), NEW S \in SUBSET DOMAIN est, NEW i \in DOMAIN est
    PROVE  Ahead(est, S, i) = Cardinality(Preceding(InOrderOf(est), S, i)) /\ Ahead(est, S, i) \in Nat
<1>1. {j \in S : Before(est, j, i)} = Preceding(InOrderOf(est), S, i)
  BY BeforeOrders DEF Preceding
<1>2. IsFiniteSet({j \in S : Before(est, j, i)})
  BY FS_Subset DEF AreEstimates
<1>3. QED
  BY <1>1, <1>2, FS_CardinalityType DEF Ahead

\* Of a model listed several times one place is the first, and only that.
LEMMA FirstPlaces ==
    ASSUME NEW est, AreEstimates(est)
    PROVE  /\ \A i \in DOMAIN est : \E f \in DOMAIN est :
                First(est, f) /\ est[f].id = est[i].id /\ (f = i \/ Before(est, f, i))
           /\ \A i, j \in DOMAIN est : First(est, i) /\ First(est, j) /\ est[i].id = est[j].id => i = j
<1>1. ASSUME NEW i \in DOMAIN est
      PROVE  \E f \in DOMAIN est : First(est, f) /\ est[f].id = est[i].id /\ (f = i \/ Before(est, f, i))
  <2> DEFINE S == {j \in DOMAIN est : est[j].id = est[i].id}
  <2>1. PICK f \in S : \A j \in S : ~Before(est, j, f)
    <3>1. S \in SUBSET DOMAIN est /\ S # {}
      OBVIOUS
    <3> HIDE DEF S
    <3>2. QED
      BY <3>1, FirstOfPlaces
  <2>2. First(est, f)
    BY <2>1 DEF First
  <2>3. f = i \/ Before(est, f, i)
    BY <2>1, BeforeOrders
  <2>4. QED
    BY <2>2, <2>3
<1>2. ASSUME NEW i \in DOMAIN est, NEW j \in DOMAIN est,
             First(est, i), First(est, j), est[i].id = est[j].id
      PROVE  i = j
  BY <1>2, BeforeOrders DEF First
<1>3. QED
  BY <1>1, <1>2

\* Seats and extras as sets of places: finite, apart, of first places only, and no
\* extras past the number asked for, nor fewer unless there are no others.
LEMMA SelectedCounts ==
    ASSUME NEW est, AreEstimates(est), NEW size \in Int, NEW per \in Nat
    PROVE  LET seats == Seats(est, per)
               extras == Extras(est, seats, size)
               places == Selected(est, size, per)
           IN /\ places = seats \cup extras
              /\ seats \subseteq DOMAIN est /\ extras \subseteq Others(est, seats)
              /\ \A i \in places : i \in DOMAIN est /\ First(est, i)
              /\ IsFiniteSet(places) /\ Cardinality(places) \in Nat
              /\ extras = {} \/ Cardinality(places) <= size
              /\ extras = Others(est, seats) \/ Cardinality(places) >= size
<1> DEFINE seats == Seats(est, per)
           extras == Extras(est, seats, size)
           places == Selected(est, size, per)
           rest == Others(est, seats)
<1>1. seats \subseteq DOMAIN est /\ \A i \in seats : First(est, i)
  BY DEF Seats
<1>2. rest \subseteq DOMAIN est /\ rest \cap seats = {} /\ \A i \in rest : First(est, i)
  BY DEF Others
<1>3. IsFiniteSet(seats) /\ Cardinality(seats) \in Nat
  BY <1>1, FS_Subset, FS_CardinalityType DEF AreEstimates
<1>4. IsFiniteSet(rest) /\ IsOrder(InOrderOf(est), rest)
  <2>1. IsFiniteSet(rest)
    BY <1>2, FS_Subset DEF AreEstimates
  <2>2. IsOrder(InOrderOf(est), rest)
    BY <1>2, BeforeOrders DEF IsOrder
  <2>3. QED
    BY <2>1, <2>2
<1>5. \A x, y \in rest : x # y => <<x, y>> \in InOrderOf(est) \/ <<y, x>> \in InOrderOf(est)
  BY <1>2, BeforeOrders
<1>6. /\ extras \subseteq rest
      /\ \A i \in rest : i \in extras <=> Cardinality(seats) + Cardinality(Preceding(InOrderOf(est), rest, i)) < size
  <2>1. \A i \in rest : Ahead(est, rest, i) = Cardinality(Preceding(InOrderOf(est), rest, i))
    BY <1>2, AheadIs
  <2>2. extras = {i \in rest : Cardinality(seats) + Ahead(est, rest, i) < size}
    BY DEF Extras
  <2> HIDE DEF rest
  <2>3. QED
    BY <2>1, <2>2
<1> HIDE DEF rest, seats, extras
<1>7. /\ IsFiniteSet(extras) /\ extras \subseteq rest
      /\ extras = {} \/ Cardinality(seats) + Cardinality(extras) <= size
      /\ extras = rest \/ Cardinality(seats) + Cardinality(extras) >= size
  BY <1>3, <1>4, <1>5, <1>6, CutIsExact
<1>8. IsFiniteSet(seats \cup extras) /\ Cardinality(seats \cup extras) = Cardinality(seats) + Cardinality(extras)
  <2>1. Cardinality(seats \cap extras) = 0
    <3>1. seats \cap extras = {}
      BY <1>2, <1>7
    <3>2. QED
      BY <3>1, FS_EmptySet
  <2>2. Cardinality(extras) \in Nat
    BY <1>7, FS_CardinalityType
  <2>3. /\ IsFiniteSet(seats \cup extras)
        /\ Cardinality(seats \cup extras) = Cardinality(seats) + Cardinality(extras) - Cardinality(seats \cap extras)
    BY <1>3, <1>7, FS_Union
  <2>4. QED
    BY <1>3, <2>1, <2>2, <2>3
<1>9. places = seats \cup extras
  BY DEF Selected, seats, extras
<1> HIDE DEF places
<1>10. /\ IsFiniteSet(places) /\ Cardinality(places) = Cardinality(seats) + Cardinality(extras)
       /\ Cardinality(places) \in Nat
  BY <1>8, <1>9, FS_CardinalityType
<1>11. /\ extras = {} \/ Cardinality(places) <= size
       /\ extras = rest \/ Cardinality(places) >= size
  BY <1>7, <1>10
<1>12. \A i \in places : i \in DOMAIN est /\ First(est, i)
  BY <1>1, <1>2, <1>7, <1>9
<1>13. QED
  BY <1>1, <1>7, <1>9, <1>10, <1>11, <1>12 DEF rest, seats, extras, places

\* A vendor has no more seats than are reserved for it.
LEMMA SeatsAreFew ==
    ASSUME NEW est, AreEstimates(est), NEW per \in Nat, NEW v
    PROVE  Cardinality(Seats(est, per) \cap OfVendor(est, v)) <= per
<1> DEFINE S == OfVendor(est, v)
           none == 0
           C == {i \in S : none + Cardinality(Preceding(InOrderOf(est), S, i)) < per}
<1>1. S \subseteq DOMAIN est /\ IsFiniteSet(S) /\ IsOrder(InOrderOf(est), S)
  <2>1. S \subseteq DOMAIN est
    BY DEF OfVendor
  <2>2. IsFiniteSet(S)
    BY <2>1, FS_Subset DEF AreEstimates
  <2>3. IsOrder(InOrderOf(est), S)
    BY <2>1, BeforeOrders DEF IsOrder
  <2>4. QED
    BY <2>1, <2>2, <2>3
<1>2. \A x, y \in S : x # y => <<x, y>> \in InOrderOf(est) \/ <<y, x>> \in InOrderOf(est)
  BY <1>1, BeforeOrders
<1>3. IsFiniteSet(C) /\ (C = {} \/ none + Cardinality(C) <= per)
  <2>1. per \in Int /\ none \in Nat
    OBVIOUS
  <2> HIDE DEF S, none
  <2>2. C \subseteq S /\ \A i \in S : i \in C <=> none + Cardinality(Preceding(InOrderOf(est), S, i)) < per
    OBVIOUS
  <2>3. C \subseteq S /\ IsFiniteSet(S) /\ IsOrder(InOrderOf(est), S)
    BY <1>1, <2>2
  <2> HIDE DEF C
  <2>4. ASSUME NEW taken \in Nat, NEW most \in Int,
               \A i \in S : i \in C <=> taken + Cardinality(Preceding(InOrderOf(est), S, i)) < most
        PROVE  /\ IsFiniteSet(C)
               /\ C = {} \/ taken + Cardinality(C) <= most
               /\ C = S \/ taken + Cardinality(C) >= most
    BY <1>2, <2>3, <2>4, CutIsExact
  <2>5. QED
    BY <2>1, <2>2, <2>4
<1>4. Cardinality(C) \in Nat /\ Cardinality(C) <= per
  <2> HIDE DEF C, S
  <2>1. Cardinality(C) \in Nat /\ Cardinality({}) = 0
    BY <1>3, FS_CardinalityType, FS_EmptySet
  <2>2. QED
    BY <1>3, <2>1
<1>5. Seats(est, per) \cap S \subseteq C
  <2> SUFFICES ASSUME NEW i \in Seats(est, per), i \in S PROVE i \in C
    OBVIOUS
  <2>1. i \in DOMAIN est /\ Ahead(est, OfVendor(est, est[i].vendor), i) < per /\ est[i].vendor = v
    BY DEF Seats, OfVendor
  <2>2. Ahead(est, S, i) < per /\ Ahead(est, S, i) = Cardinality(Preceding(InOrderOf(est), S, i))
    BY <1>1, <2>1, AheadIs
  <2>3. Cardinality(Preceding(InOrderOf(est), S, i)) \in Nat
    BY <1>1, <2>1, <2>2, AheadIs
  <2> HIDE DEF S
  <2>4. QED
    BY <2>2, <2>3
<1> HIDE DEF C, S
<1>6. Cardinality(Seats(est, per) \cap S) <= Cardinality(C)
  BY <1>3, <1>5, FS_Subset
<1>7. IsFiniteSet(Seats(est, per) \cap S)
  BY <1>3, <1>5, FS_Subset
<1>8. Cardinality(Seats(est, per) \cap S) \in Nat
  BY <1>7, FS_CardinalityType
<1>9. QED
  BY <1>4, <1>6, <1>8 DEF S

\* The cheapest place of a vendor has a seat, if any are reserved.
LEMMA CheapestIsSeated ==
    ASSUME NEW est, AreEstimates(est), NEW per \in Nat, per > 0, NEW i \in DOMAIN est
    PROVE  \E m \in Seats(est, per) : est[m].vendor = est[i].vendor
<1> DEFINE S == OfVendor(est, est[i].vendor)
<1>1. S \in SUBSET DOMAIN est /\ i \in S
  BY DEF OfVendor
<1>2. PICK m \in S : \A j \in S : ~Before(est, j, m)
  <2> HIDE DEF S
  <2>1. QED
    BY <1>1, FirstOfPlaces
<1>3. m \in DOMAIN est /\ est[m].vendor = est[i].vendor
  BY <1>2 DEF OfVendor
<1>4. First(est, m)
  BY <1>2, <1>3 DEF First, OfVendor, AreEstimates
<1>5. Ahead(est, S, m) = 0
  <2>1. {j \in S : Before(est, j, m)} = {}
    BY <1>2
  <2>2. QED
    BY <2>1, FS_EmptySet DEF Ahead
<1>6. m \in Seats(est, per)
  BY <1>3, <1>4, <1>5 DEF Seats
<1>7. QED
  BY <1>3, <1>6

\* As many as asked for, if so many are usable, and the vendors' seats.
LEMMA ShortlistFills ==
    ASSUME NEW est, AreEstimates(est), NEW size \in Int, NEW per \in Nat
    PROVE  ShortlistIsFull(est, size, per)
<1> DEFINE seats == Seats(est, per)
           extras == Extras(est, seats, size)
           places == Selected(est, size, per)
           f == [i \in DOMAIN est |-> est[i].id]
<1>1. /\ places = seats \cup extras
      /\ seats \subseteq DOMAIN est /\ extras \subseteq Others(est, seats)
      /\ \A i \in places : i \in DOMAIN est /\ First(est, i)
      /\ IsFiniteSet(places) /\ Cardinality(places) \in Nat
      /\ extras = {} \/ Cardinality(places) <= size
      /\ extras = Others(est, seats) \/ Cardinality(places) >= size
  BY SelectedCounts
<1> HIDE DEF places, extras, seats
<1>2. Cardinality({est[i].id : i \in places}) = Cardinality(places)
  <2>1. \A i, j \in places : f[i] = f[j] => i = j
    BY <1>1, FirstPlaces
  <2> DEFINE T == {est[i].id : i \in places}
  <2>2. (\A i \in places : f[i] \in T) /\ \A y \in T : \E i \in places : y = f[i]
    BY <1>1
  <2> HIDE DEF f, T
  <2>3. Cardinality(T) = Cardinality(places)
    BY <1>1, <2>1, <2>2, NamesCount
  <2>4. QED
    BY <2>3 DEF T
<1>3. Cardinality(places) >= size \/ {est[i].id : i \in places} = {est[i].id : i \in DOMAIN est}
  <2> SUFFICES ASSUME extras = Others(est, seats), NEW i \in DOMAIN est
               PROVE  \E j \in places : est[j].id = est[i].id
    BY <1>1
  <2>1. PICK j \in DOMAIN est : First(est, j) /\ est[j].id = est[i].id
    BY FirstPlaces
  <2>2. j \in places
    BY <1>1, <2>1 DEF Others
  <2>3. QED
    BY <2>1, <2>2
<1>4. ASSUME per > 0, NEW i \in DOMAIN est
      PROVE  Cardinality(places \cap OfVendor(est, est[i].vendor)) > 0
  <2> DEFINE T == places \cap OfVendor(est, est[i].vendor)
  <2>1. PICK m \in seats : est[m].vendor = est[i].vendor
    BY <1>4, CheapestIsSeated DEF seats
  <2>2. m \in T
    BY <1>1, <2>1 DEF OfVendor
  <2>3. IsFiniteSet(T)
    BY <1>1, FS_Subset
  <2> HIDE DEF T
  <2>4. Cardinality(T) \in Nat /\ Cardinality(T) # 0
    BY <2>2, <2>3, FS_CardinalityType, FS_EmptySet
  <2>5. Cardinality(T) > 0
    BY <2>4
  <2>6. QED
    BY <2>5 DEF T
<1>5. ASSUME Cardinality(places) > size, NEW i \in DOMAIN est
      PROVE  Cardinality(places \cap OfVendor(est, est[i].vendor)) <= per
  <2>1. extras = {}
    BY <1>1, <1>5
  <2>2. places = seats
    BY <1>1, <2>1
  <2>3. QED
    BY <2>2, SeatsAreFew DEF seats
<1>6. QED
  BY <1>2, <1>3, <1>4, <1>5 DEF ShortlistIsFull, places

\* Whoever is left out is dearer than the extras.
LEMMA CheapestAreIn ==
    ASSUME NEW est, AreEstimates(est), NEW size \in Int, NEW per \in Nat
    PROVE  CheapestGoOn(est, size, per)
<1> DEFINE seats == Seats(est, per)
           extras == Extras(est, seats, size)
           places == Selected(est, size, per)
           rest == Others(est, seats)
<1>1. /\ places = seats \cup extras
      /\ seats \subseteq DOMAIN est /\ extras \subseteq rest
  BY SelectedCounts
<1>2. rest \subseteq DOMAIN est /\ \A i \in DOMAIN est : First(est, i) => i \in rest \/ i \in seats
  BY DEF Others
<1>3. \A i \in rest : i \in extras <=> Cardinality(seats) + Ahead(est, rest, i) < size
  BY DEF Extras
<1>4. \A i \in DOMAIN est : Ahead(est, rest, i) \in Nat
  BY <1>2, AheadIs
<1>5. Cardinality(seats) \in Nat
  <2>1. IsFiniteSet(seats)
    BY <1>1, FS_Subset DEF AreEstimates
  <2>2. QED
    BY <2>1, FS_CardinalityType
<1>6. \A i \in seats : Ahead(est, OfVendor(est, est[i].vendor), i) < per
  BY DEF Seats
<1>7. \A i \in DOMAIN est : RankCost(est[i]) = (IF est[i].moderated THEN Penalty ELSE 100) * Cost(est[i])
  <2> SUFFICES ASSUME NEW i \in DOMAIN est
               PROVE  RankCost(est[i]) = (IF est[i].moderated THEN Penalty ELSE 100) * Cost(est[i])
    OBVIOUS
  <2>1. Cost(est[i]) \in Nat /\ (IF est[i].moderated THEN Penalty ELSE 100) \in Nat
    BY ShortlistAssumption DEF AreEstimates
  <2>2. \A a, b \in Nat : a * b = b * a
    OBVIOUS
  <2>3. QED
    BY <2>1, <2>2 DEF RankCost
<1> HIDE DEF seats, extras, places, rest
<1>8. ASSUME NEW i \in places, NEW j \in DOMAIN est, \A k \in places : est[k].id # est[j].id,
             RankCost(est[j]) < RankCost(est[i])
      PROVE  Cardinality({k \in OfVendor(est, est[i].vendor) : Cheaper(est[k], est[i])}) < per
  <2>1. i \in DOMAIN est
    BY <1>1, <1>2
  <2>2. CASE i \in seats
    <3> DEFINE S == OfVendor(est, est[i].vendor)
               T == {k \in S : Cheaper(est[k], est[i])}
               W == {k \in S : Before(est, k, i)}
    <3>1. T \subseteq W
      BY DEF Before
    <3>2. S \subseteq DOMAIN est
      BY DEF OfVendor
    <3>3. IsFiniteSet(W)
      BY <3>2, FS_Subset DEF AreEstimates
    <3> HIDE DEF T, W, S
    <3>4. Cardinality(T) <= Cardinality(W) /\ IsFiniteSet(T)
      BY <3>1, <3>3, FS_Subset
    <3>5. Cardinality(W) < per
      BY <1>6, <2>2 DEF Ahead, W, S
    <3>6. Cardinality(T) \in Nat /\ Cardinality(W) \in Nat
      BY <3>3, <3>4, FS_CardinalityType
    <3>7. Cardinality(T) < per
      BY <3>4, <3>5, <3>6
    <3>8. QED
      BY <3>7 DEF T, S
  <2>3. CASE i \in extras
    <3>1. PICK g \in DOMAIN est : First(est, g) /\ est[g].id = est[j].id /\ (g = j \/ Before(est, g, j))
      BY FirstPlaces
    <3>2. g \notin places
      BY <1>8, <3>1
    <3>3. g \in rest /\ g \notin extras
      BY <1>1, <1>2, <3>1, <3>2
    <3>4. Before(est, j, i)
      BY <1>8, <2>1 DEF Before, Cheaper, AreEstimates
    <3>5. Before(est, g, i)
      BY <2>1, <3>1, <3>4, BeforeOrders DEF IsOrder
    <3>6. Ahead(est, rest, g) <= Ahead(est, rest, i)
      <4> DEFINE V == {k \in rest : Before(est, k, g)}
                 W == {k \in rest : Before(est, k, i)}
      <4>1. V \subseteq W
        <5> SUFFICES ASSUME NEW k \in rest, Before(est, k, g) PROVE Before(est, k, i)
          OBVIOUS
        <5>1. k \in DOMAIN est
          BY <1>2
        <5>2. QED
          BY <2>1, <3>5, <5>1, BeforeOrders DEF IsOrder
      <4>2. IsFiniteSet(W)
        BY <1>2, FS_Subset DEF AreEstimates
      <4> HIDE DEF V, W
      <4>3. Cardinality(V) <= Cardinality(W)
        BY <4>1, <4>2, FS_Subset
      <4>4. QED
        BY <4>3 DEF Ahead, V, W
    <3>7. Cardinality(seats) + Ahead(est, rest, i) < size
      BY <1>1, <1>3, <2>3
    <3>8. Cardinality(seats) + Ahead(est, rest, g) < size
      BY <1>4, <1>5, <2>1, <3>6, <3>7
    <3>9. QED
      BY <1>3, <3>3, <3>8
  <2>4. QED
    BY <1>1, <1>8, <2>2, <2>3
<1>9. places \subseteq DOMAIN est
  BY <1>1, <1>2
<1>10. QED
  BY <1>7, <1>8, <1>9 DEF CheapestGoOn, places

\* The first of all the estimates is selected if anyone is, and is free if anyone is.
LEMMA FreeIsFirst ==
    ASSUME NEW rows, IsCatalogue(rows), NEW denied, NEW size \in Int, NEW per \in Nat
    PROVE  FreeComesFirst(rows, denied, size, per)
<1> DEFINE est == Estimates(rows, denied)
           places == Selected(est, size, per)
<1>1. AreEstimates(est)
  BY EstimatesAre
<1> SUFFICES ASSUME size > 0 \/ per > 0, NEW i \in DOMAIN rows, ~rows[i].free,
                    Entry(rows[i]).input = 0, Entry(rows[i]).output = 0, Entry(rows[i]).cacheRead <= 0,
                    Keep(Entry(rows[i])), Entry(rows[i]).id \notin denied
             PROVE  \E m \in places : Cost(est[m]) = 0 /\ \A j \in places : ~Before(est, j, m)
  BY DEF FreeComesFirst
<1>2. i \in DOMAIN est /\ est[i] = Entry(rows[i])
  <2>1. Priced(Entry(rows[i]))
    BY DEF Priced, Known, Missing
  <2>2. QED
    BY <2>1 DEF Estimates, Listed, Restrict
<1>3. Cost(est[i]) = 0
  <2>1. est[i].input = 0 /\ est[i].output = 0 /\ est[i].cacheRead <= 0 /\ est[i].cacheRead \in Int
    <3>1. rows[i].cacheRead \in Int
      BY DEF IsCatalogue
    <3>2. PerM(rows[i].cacheRead) \in Int
      BY <3>1 DEF PerM, Missing
    <3>3. est[i].cacheRead = PerM(rows[i].cacheRead)
      BY <1>2, EntryHas
    <3>4. QED
      BY <1>2, <3>2, <3>3
  <2>2. CacheRate(est[i]) = 0
    BY <2>1 DEF CacheRate
  <2>3. Profile.cached \in Nat /\ Profile.fresh \in Nat /\ Profile.output \in Nat
    BY ShortlistAssumption
  <2>4. \A a, b, c \in Nat : a * 0 + b * 0 + c * 0 = 0
    OBVIOUS
  <2>5. QED
    BY <2>1, <2>2, <2>3, <2>4 DEF Cost
<1> HIDE DEF est
<1>4. PICK m \in DOMAIN est : \A j \in DOMAIN est : ~Before(est, j, m)
  BY <1>1, <1>2, FirstOfPlaces
<1>5. Cost(est[m]) = 0
  <2>1. /\ RankCost(est[i]) \in Nat /\ RankCost(est[m]) \in Nat
        /\ RankCost(est[i]) = 0 /\ (RankCost(est[m]) = 0 <=> Cost(est[m]) = 0)
    BY <1>1, <1>2, <1>3 DEF AreEstimates
  <2>2. RankCost(est[m]) <= RankCost(est[i])
    BY <1>2, <1>4, <2>1 DEF Before, Cheaper
  <2>3. QED
    BY <2>1, <2>2
<1>6. First(est, m)
  BY <1>4 DEF First
<1>7. ASSUME NEW S \in SUBSET DOMAIN est PROVE Ahead(est, S, m) = 0
  <2>1. {j \in S : Before(est, j, m)} = {}
    BY <1>4
  <2>2. QED
    BY <2>1, FS_EmptySet DEF Ahead
<1>8. m \in places
  <2> DEFINE seats == Seats(est, per)
             extras == Extras(est, seats, size)
  <2>1. CASE per > 0
    <3>1. Ahead(est, OfVendor(est, est[m].vendor), m) = 0
      BY <1>7 DEF OfVendor
    <3>2. m \in seats
      BY <1>6, <2>1, <3>1 DEF Seats
    <3>3. QED
      BY <3>2 DEF Selected
  <2>2. CASE per = 0
    <3>1. \A j \in DOMAIN est : Ahead(est, OfVendor(est, est[j].vendor), j) \in Nat
      BY <1>1, AheadIs DEF OfVendor
    <3>2. seats = {}
      BY <2>2, <3>1 DEF Seats
    <3>3. Cardinality(seats) = 0
      BY <3>2, FS_EmptySet
    <3>4. m \in Others(est, seats) /\ Others(est, seats) \in SUBSET DOMAIN est
      BY <1>6, <3>2 DEF Others
    <3>5. Ahead(est, Others(est, seats), m) = 0
      BY <1>7, <3>4
    <3>6. m \in extras
      BY <2>2, <3>3, <3>4, <3>5 DEF Extras
    <3>7. QED
      BY <3>6 DEF Selected
  <2>3. QED
    BY <2>1, <2>2
<1>9. places \subseteq DOMAIN est
  BY DEF Selected, Seats, Extras, Others
<1>10. QED
  BY <1>4, <1>5, <1>8, <1>9

\* An upstream that is up less is beaten, whatever else it offers.
LEMMA UpstreamBest ==
    ASSUME NEW endpoints, AreEndpoints(endpoints)
    PROVE  UpstreamIsUndominated(endpoints)
<1> DEFINE D == DOMAIN endpoints
           R == {p \in D \X D : BeatenBy(endpoints[p[1]], endpoints[p[2]])}
           T == {i \in D : \A j \in D : ~BeatenBy(endpoints[i], endpoints[j])}
           m == Min(T)
<1>1. D \subseteq Nat /\ IsFiniteSet(D) /\ D # {}
  <2>1. Len(endpoints) \in Nat \ {0} /\ D = 1 .. Len(endpoints)
    BY DEF AreEndpoints
  <2>2. D \subseteq Nat /\ 1 \in D
    BY <2>1
  <2>3. IsFiniteSet(1 .. Len(endpoints))
    BY <2>1, FS_Interval
  <2>4. QED
    BY <2>1, <2>2, <2>3
<1>2. \A i \in D : /\ endpoints[i].uptime30 \in Int /\ endpoints[i].uptime5 \in Int
                   /\ endpoints[i].latency \in Int /\ endpoints[i].throughput \in Int
                   /\ Status(endpoints[i]) \in Int
  BY DEF AreEndpoints, Status
<1>3. \A i, j \in D : <<i, j>> \in R <=> BeatenBy(endpoints[i], endpoints[j])
  OBVIOUS
<1>4. IsOrder(R, D)
  <2>1. \A i \in D : ~BeatenBy(endpoints[i], endpoints[i])
    BY <1>2 DEF BeatenBy, Slower, Known, Uptime, OrZero, Missing
  <2>2. \A i, j, k \in D : BeatenBy(endpoints[i], endpoints[j]) /\ BeatenBy(endpoints[j], endpoints[k])
                             => BeatenBy(endpoints[i], endpoints[k])
    BY <1>2 DEF BeatenBy, Slower, Known, Uptime, OrZero, Missing
  <2> HIDE DEF D, R
  <2>3. QED
    BY <1>3, <2>1, <2>2 DEF IsOrder
<1>5. T # {} /\ T \subseteq Nat
  <2> HIDE DEF D, R
  <2>1. PICK i \in D : \A j \in D : <<i, j>> \notin R
    BY <1>1, <1>4, OrderHasLast
  <2>2. QED
    BY <1>1, <1>3, <2>1
<1>6. m \in T
  <2> HIDE DEF T
  <2>1. \E x \in T : \A y \in T : x <= y
    BY <1>5, LeastNat
  <2>2. QED
    BY <2>1 DEF Min
<1>7. BestUpstream(endpoints) = endpoints[m]
  BY DEF BestUpstream
<1> HIDE DEF m
<1>8. m \in D /\ \A j \in D : ~BeatenBy(endpoints[m], endpoints[j])
  BY <1>6
<1> HIDE DEF D, R, T
<1> DEFINE now(ep) == IF Known(ep.uptime30) THEN ep.uptime30 ELSE ep.uptime5
<1>9. ASSUME NEW i \in D, Status(endpoints[i]) <= Status(endpoints[m]),
             now(endpoints[i]) > now(endpoints[m]), now(endpoints[i]) > 0
      PROVE  FALSE
  <2>1. Uptime(endpoints[m]) < Uptime(endpoints[i])
    BY <1>2, <1>8, <1>9 DEF Uptime, OrZero, Known, Missing
  <2>2. Status(endpoints[i]) \in Int /\ Status(endpoints[m]) \in Int
    BY <1>2, <1>8
  <2>3. BeatenBy(endpoints[m], endpoints[i])
    BY <1>9, <2>1, <2>2 DEF BeatenBy
  <2>4. QED
    BY <1>8, <2>3
<1>10. QED
  BY <1>7, <1>9 DEF UpstreamIsUndominated, D

-----------------------------------------------------------------------------
(* The op of a stage's name, for ops and languages of any of the words. *)

\* A language of two letters is taken off, an op's own last word is not.
LEMMA OpFound ==
    ASSUME NEW op, NEW lang, op \in Seq(Words) \ {<<>>}, lang \in Words \cup {NoLanguage}
    PROVE  OpIsFound(op, lang)
<1>1. Len(op) \in Nat \ {0} /\ op[Len(op)] \in Words
  BY EmptySeq, LenProperties, ElementOfSeq
<1>2. CASE lang = NoLanguage
  <2>1. NameOf(op, lang) = op
    BY <1>2 DEF NameOf
  <2>2. QED
    BY <1>2, <2>1 DEF OpIsFound, StageToOp
<1>3. CASE lang \in TwoLetters /\ lang # NoLanguage
  <2> DEFINE name == Append(op, lang)
  <2>1. NameOf(op, lang) = name
    BY <1>3 DEF NameOf
  <2>2. /\ name \in Seq(Words) /\ Len(name) = Len(op) + 1 /\ name[Len(name)] = lang
        /\ \A i \in 1 .. Len(op) : name[i] = op[i]
    BY <1>3, AppendProperties DEF Words
  <2>3. Last(name) = lang
    BY <2>2 DEF Last
  <2> HIDE DEF name
  <2>4. Len(name) > 1
    BY <1>1, <2>2
  <2>5. StageToOp(name) = Front(name)
    BY <1>3, <2>3, <2>4 DEF StageToOp
  <2>6. Front(name) = op
    <3>1. Front(name) = [i \in 1 .. Len(op) |-> name[i]]
      BY <1>1, <2>2 DEF Front
    <3>2. QED
      BY <2>2, <3>1
  <2>7. QED
    BY <2>1, <2>5, <2>6 DEF OpIsFound
<1>4. QED
  BY <1>2, <1>3 DEF OpIsFound, Words

-----------------------------------------------------------------------------
(* Preflight, for any candidates and any number of pings at a time. *)

Calling == {i \in Entries : ping[i] = "calling"}

Answered == {i \in Entries : ping[i] \in AliveVerdicts}

\* Every slot is free or held by a ping that is out, who was heard has the verdict
\* to show for it, and when it is over every entry has one.
PreflightInvariant ==
    /\ PreflightTypeOK
    /\ slots + Cardinality(Calling) = Concurrency
    /\ heard = Answered
    /\ over => /\ \A i \in Entries : ping[i] \in Ended
               /\ survivors = {ModelOf[i] : i \in LastEntries \cap Answered}

\* A ping that goes out takes a slot, one that ends gives it back.
LEMMA CallingCounts ==
    ASSUME PreflightTypeOK, NEW i \in Entries, NEW answer, Conclude(i, answer)
    PROVE  /\ IsFiniteSet(Calling) /\ Cardinality(Calling) \in Nat
           /\ ping[i] # "calling" /\ answer = "calling" => Cardinality(Calling') = Cardinality(Calling) + 1
           /\ ping[i] = "calling" /\ answer # "calling" => Cardinality(Calling') = Cardinality(Calling) - 1
           /\ ping[i] # "calling" /\ answer # "calling" => Cardinality(Calling') = Cardinality(Calling)
<1>1. IsFiniteSet(Entries)
  BY FS_Interval, PreflightAssumption DEF Entries
<1>2. IsFiniteSet(Calling)
  BY <1>1, FS_Subset DEF Calling
<1>3. Cardinality(Calling) \in Nat
  BY <1>2, FS_CardinalityType
<1>4. \A j \in Entries : ping'[j] = IF j = i THEN answer ELSE ping[j]
  BY DEF Conclude, PreflightTypeOK
<1>5. i \in Calling <=> ping[i] = "calling"
  BY DEF Calling
<1>6. ASSUME i \notin Calling, answer = "calling"
      PROVE  Cardinality(Calling') = Cardinality(Calling) + 1
  <2>1. Calling' = Calling \cup {i}
    BY <1>4, <1>6 DEF Calling
  <2>2. QED
    BY <1>2, <1>6, <2>1, FS_AddElement
<1>7. ASSUME i \in Calling, answer # "calling"
      PROVE  Cardinality(Calling') = Cardinality(Calling) - 1
  <2>1. Calling' = Calling \ {i}
    BY <1>4, <1>7 DEF Calling
  <2>2. QED
    BY <1>2, <1>7, <2>1, FS_RemoveElement
<1>8. ASSUME i \notin Calling, answer # "calling"
      PROVE  Cardinality(Calling') = Cardinality(Calling)
  <2>1. Calling' = Calling
    BY <1>4, <1>8 DEF Calling
  <2>2. QED
    BY <2>1
<1>9. QED
  BY <1>2, <1>3, <1>5, <1>6, <1>7, <1>8

LEMMA PreflightInvariantHolds == PreflightSpec => []PreflightInvariant
<1>1. PreflightInit => PreflightInvariant
  <2> SUFFICES ASSUME PreflightInit PROVE PreflightInvariant
    OBVIOUS
  <2>1. Calling = {} /\ Answered = {}
    BY DEF PreflightInit, Calling, Answered, AliveVerdicts
  <2>2. slots + Cardinality(Calling) = Concurrency
    BY <2>1, FS_EmptySet, PreflightAssumption DEF PreflightInit
  <2>3. PreflightTypeOK
    <3>1. slots \in 0 .. Concurrency
      BY PreflightAssumption DEF PreflightInit
    <3>2. ping \in [Entries -> Ended \cup {"queued", "calling"}]
      BY DEF PreflightInit
    <3>3. QED
      BY <3>1, <3>2 DEF PreflightInit, PreflightTypeOK
  <2>4. QED
    BY <2>1, <2>2, <2>3 DEF PreflightInit, PreflightInvariant
<1>2. PreflightInvariant /\ [PreflightNext]_preflightVars => PreflightInvariant'
  <2> SUFFICES ASSUME PreflightInvariant, [PreflightNext]_preflightVars PROVE PreflightInvariant'
    OBVIOUS
  <2> USE DEF PreflightInvariant
  <2>1. ASSUME NEW i \in Entries, NEW answer \in Ended \cup {"calling"}, Conclude(i, answer),
               UNCHANGED <<survivors, over>>, ping[i] \in {"queued", "calling"}, ping[i] # answer,
               slots' = slots + (IF ping[i] = "calling" THEN 1 ELSE 0) - (IF answer = "calling" THEN 1 ELSE 0),
               answer = "calling" => slots > 0,
               heard' = IF answer \in AliveVerdicts THEN heard \cup {i} ELSE heard
        PROVE  PreflightInvariant'
    <3>1. ping' \in [Entries -> Ended \cup {"queued", "calling"}]
      BY <2>1 DEF Conclude, PreflightTypeOK
    <3>2. slots' + Cardinality(Calling') = Concurrency /\ slots' \in 0 .. Concurrency
      <4>1. /\ Cardinality(Calling) \in Nat
            /\ Cardinality(Calling') =
                 Cardinality(Calling) + (IF answer = "calling" THEN 1 ELSE 0) - (IF ping[i] = "calling" THEN 1 ELSE 0)
        <5>1. /\ Cardinality(Calling) \in Nat
              /\ ping[i] # "calling" /\ answer = "calling" => Cardinality(Calling') = Cardinality(Calling) + 1
              /\ ping[i] = "calling" /\ answer # "calling" => Cardinality(Calling') = Cardinality(Calling) - 1
              /\ ping[i] # "calling" /\ answer # "calling" => Cardinality(Calling') = Cardinality(Calling)
          BY <2>1, CallingCounts
        <5>2. QED
          BY <2>1, <5>1
      <4>2. Cardinality(Calling') \in Nat
        <5>1. IsFiniteSet(Calling')
          <6>1. IsFiniteSet(Entries)
            BY FS_Interval, PreflightAssumption DEF Entries
          <6>2. QED
            BY <6>1, FS_Subset DEF Calling
        <5>2. QED
          BY <5>1, FS_CardinalityType
      <4>3. slots \in 0 .. Concurrency /\ Concurrency \in Nat
        BY PreflightAssumption DEF PreflightTypeOK
      <4>4. slots' \in Int /\ slots' + Cardinality(Calling') = Concurrency
        BY <2>1, <4>1, <4>3
      <4>5. slots' >= 0
        BY <2>1, <4>3
      <4>6. QED
        BY <4>2, <4>3, <4>4, <4>5
    <3>3. \A j \in Entries : ping'[j] = IF j = i THEN answer ELSE ping[j]
      BY <2>1 DEF Conclude, PreflightTypeOK
    <3>4. heard' = Answered'
      BY <2>1, <3>3 DEF Answered, AliveVerdicts
    <3>5. ~over'
      BY <2>1 DEF Ended
    <3>6. PreflightTypeOK'
      BY <2>1, <3>1, <3>2 DEF PreflightTypeOK
    <3>7. QED
      BY <3>2, <3>4, <3>5, <3>6
  <2>2. CASE UNCHANGED preflightVars
    BY <2>2 DEF preflightVars, PreflightTypeOK, Calling, Answered
  <2>3. CASE Collect
    <3>1. /\ over' = TRUE /\ UNCHANGED <<ping, slots, heard>>
          /\ \A i \in Entries : ping[i] \in Ended
          /\ survivors' = {ModelOf[i] : i \in {j \in LastEntries : ping[j] \in AliveVerdicts}}
      BY <2>3 DEF Collect
    <3>2. {j \in LastEntries : ping[j] \in AliveVerdicts} = LastEntries \cap Answered
      BY DEF Answered, LastEntries
    <3>3. survivors' \subseteq Entrants
      BY <3>1, PreflightAssumption DEF LastEntries
    <3>4. Calling' = Calling /\ Answered' = Answered
      BY <3>1 DEF Calling, Answered
    <3>5. PreflightTypeOK'
      BY <3>1, <3>3 DEF PreflightTypeOK
    <3>6. QED
      BY <3>1, <3>2, <3>4, <3>5
  <2>4. ASSUME NEW i \in Entries, Begin(i) PROVE PreflightInvariant'
    <3>1. slots \in Int
      BY PreflightAssumption DEF PreflightTypeOK
    <3>2. CASE Ping(i)
      BY <2>1, <3>1, <3>2 DEF Ping, NextInLine, AliveVerdicts
    <3>3. CASE FactoryRaises(i)
      BY <2>1, <3>1, <3>3 DEF FactoryRaises, NextInLine, AliveVerdicts, Ended
    <3>4. QED
      BY <2>4, <3>2, <3>3 DEF Begin
  <2>5. ASSUME NEW i \in Entries, Answer(i) PROVE PreflightInvariant'
    <3>1. slots \in Int
      BY PreflightAssumption DEF PreflightTypeOK
    <3>2. QED
      BY <2>1, <2>5, <3>1 DEF Answer, AliveVerdicts, Ended
  <2>6. ASSUME NEW i \in Entries, Refuse(i) \/ Expire(i) PROVE PreflightInvariant'
    <3>1. slots \in Int
      BY PreflightAssumption DEF PreflightTypeOK
    <3>2. QED
      BY <2>1, <2>6, <3>1 DEF Refuse, Expire, AliveVerdicts, Ended
  <2>7. QED
    BY <2>2, <2>3, <2>4, <2>5, <2>6 DEF PreflightNext
<1>3. QED
  BY <1>1, <1>2, PTL DEF PreflightSpec

\* The types of preflight: never more pings at a time than there are slots
\* (discovery/benchmark.py, preflight).
THEOREM PreflightTypeCorrect == PreflightSpec => []PreflightTypeOK
<1>1. PreflightInvariant => PreflightTypeOK
  BY DEF PreflightInvariant
<1>2. QED
  BY <1>1, PreflightInvariantHolds, PTL

\* Whatever the upstreams do, when preflight is over every slot is back and those go
\* on whose last entry was answered in time (discovery/benchmark.py, preflight).
THEOREM PreflightEndsRight == PreflightSpec => []EndsRight
<1>1. PreflightInvariant => EndsRight
  <2> SUFFICES ASSUME PreflightInvariant, over PROVE VerdictsAreRight
    BY DEF EndsRight
  <2>1. Calling = {}
    BY DEF PreflightInvariant, Calling, Ended
  <2>2. slots = Concurrency
    <3>1. slots + 0 = Concurrency /\ slots \in 0 .. Concurrency
      BY <2>1, FS_EmptySet DEF PreflightInvariant, PreflightTypeOK
    <3>2. QED
      BY <3>1, PreflightAssumption
  <2>3. QED
    BY <2>2 DEF PreflightInvariant, VerdictsAreRight
<1>2. QED
  BY <1>1, PreflightInvariantHolds, PTL

-----------------------------------------------------------------------------
(* The benchmark: every machine in it behaves as it does alone, so what is    *)
(* proved of each holds of all of them at once.                               *)

\* A step of the benchmark is a step of one machine, and the others stutter.
LEMMA StepOfOne ==
    ASSUME [Next]_vars
    PROVE  /\ [CascadeNext]_cascadeVars /\ [CacheNext]_cacheVars
           /\ [ConnectionNext]_connectionVars /\ [PoolNext]_poolVars
           /\ [PreflightNext]_preflightVars /\ [PairingNext]_pairingVars /\ [GraphNext]_graphVars
           /\ [B!Next]_(B!vars)
           /\ UNCHANGED <<job, list>>
<1> USE DEF gateVars, B!vars, B!gateVars, B!callVars, B!storeVars
<1>1. CASE UNCHANGED vars
  BY <1>1 DEF vars
<1>2. CASE Cascading(CascadeNext)
  BY <1>2 DEF Cascading
<1>3. CASE Caching(CacheNext)
  BY <1>3 DEF Caching
<1>4. CASE Filing(ConnectionNext)
  BY <1>4 DEF Filing
<1>5. CASE Pooling(PoolNext)
  BY <1>5 DEF Pooling
<1>6. CASE Pinging(PreflightNext)
  BY <1>6 DEF Pinging
<1>7. CASE Pairing(PairingNext)
  BY <1>7 DEF Pairing
<1>8. CASE Ordering(GraphNext)
  BY <1>8 DEF Ordering
<1>9. CASE Gating(B!Next)
  BY <1>9 DEF Gating
<1>10. QED
  BY <1>1, <1>2, <1>3, <1>4, <1>5, <1>6, <1>7, <1>8, <1>9 DEF Next

\* The benchmark implements every one of its machines (discovery/benchmark.py and
\* what it calls).
THEOREM BenchmarkHasAll ==
    Spec => /\ CascadeSpec /\ CacheSpec /\ ConnectionSpec /\ PoolSpec
            /\ PreflightSpec /\ PairingSpec /\ GraphSpec /\ B!Spec
<1>1. Init => /\ CascadeInit /\ CacheInit /\ ConnectionInit /\ PoolInit
              /\ PreflightInit /\ PairingInit /\ GraphInit /\ B!Init
  BY DEF Init
<1>2. [Next]_vars => /\ [CascadeNext]_cascadeVars /\ [CacheNext]_cacheVars
                     /\ [ConnectionNext]_connectionVars /\ [PoolNext]_poolVars
                     /\ [PreflightNext]_preflightVars /\ [PairingNext]_pairingVars /\ [GraphNext]_graphVars
                     /\ [B!Next]_(B!vars)
  BY StepOfOne
<1>3. QED
  BY <1>1, <1>2, PTL DEF Spec, B!Spec, CascadeSpec, CacheSpec, ConnectionSpec, PoolSpec, PreflightSpec, PairingSpec,
     GraphSpec

\* In every state every machine's variables have their types.
THEOREM BenchmarkTypeCorrect == Spec => []TypeOK
<1>1. GraphSpec => []GraphTypeOK
  BY GraphTypeCorrect
<1>2. CascadeTypeOK /\ CacheTypeOK /\ ConnectionTypeOK /\ PoolTypeOK /\ GraphTypeOK /\ PreflightTypeOK => TypeOK
  BY DEF TypeOK
<1>3. QED
  BY <1>1, <1>2, BenchmarkHasAll, TypeCorrect, CacheTypeCorrect, ConnectionTypeCorrect, PoolTypeCorrect,
     PreflightTypeCorrect, PTL

\* A behaviour computes with the list it starts with.
LEMMA ListIsGiven == Spec => [](list \in Lists)
<1>1. Init => list \in Lists
  BY DEF Init
<1>2. list \in Lists /\ [Next]_vars => (list \in Lists)'
  BY StepOfOne DEF Lists
<1>3. QED
  BY <1>1, <1>2, PTL DEF Spec

\* For any ops and languages storage books a spend where the gate looks for it
\* (storage/memory.py, _stage_to_op).
THEOREM OpsAlwaysAgree == Spec => []OpsAgree
<1>1. list \in Lists => OpsAgree
  BY OpFound, BenchmarkAssumption DEF OpsAgree, Lists, IsStageOp
<1>2. QED
  BY <1>1, ListIsGiven, PTL

\* For any catalogue, profile and bounds the shortlist has everyone it should and
\* the free on top, and for any endpoints the upstream picked is not dominated
\* (cost/estimator.py, estimate_top_n_by_cost; cost/openrouter.py,
\* _pick_best_upstream).
THEOREM CostsStaySound == Spec => []CostsAreSound
<1>1. list \in Lists => CostsAreSound
  <2> SUFFICES ASSUME list \in Lists PROVE CostsAreSound
    OBVIOUS
  <2>1. ASSUME job = "shortlist"
        PROVE  /\ ShortlistIsFull(Estimates(list.rows, list.denied), list.n, list.seats)
               /\ CheapestGoOn(Estimates(list.rows, list.denied), list.n, list.seats)
               /\ FreeComesFirst(list.rows, list.denied, list.n, list.seats)
    <3>1. IsCatalogue(list.rows) /\ list.n \in Int /\ list.seats \in Nat
      BY <2>1, BenchmarkAssumption DEF Lists
    <3>2. AreEstimates(Estimates(list.rows, list.denied))
      BY <3>1, EstimatesAre
    <3>3. QED
      BY <3>1, <3>2, ShortlistFills, CheapestAreIn, FreeIsFirst
  <2>2. ASSUME job = "upstream" PROVE UpstreamIsUndominated(list)
    <3>1. AreEndpoints(list)
      BY <2>2, BenchmarkAssumption DEF Lists
    <3>2. QED
      BY <3>1, UpstreamBest
  <2>3. QED
    BY <2>1, <2>2 DEF CostsAreSound
<1>2. QED
  BY <1>1, ListIsGiven, PTL

\* What the phases rely on holds of the benchmark as a whole: a phase gets only what
\* is fresh, nobody judges itself, nothing is lost from the ranking or paid twice,
\* and connections, pools, pairs, graphs and verdicts are right, all at once.
THEOREM BenchmarkStaysSafe ==
    Spec => /\ [](SubstrateIsFresh /\ JudgeIsIndependent /\ RankingIsWhole /\ FinalistsAreRanked /\ CacheHasRows)
            /\ [](ConnectionIsSafe /\ PoolIsSafe /\ PairsAreFair /\ GraphsRunInOrder /\ EndsRight)
            /\ NothingRepaid /\ CacheRemembers
BY BenchmarkHasAll, SubstratesAreFresh, JudgesAreIndependent, RankingHasAll, FinalistsHaveRows, CacheIsBacked,
   ConnectionStaysSafe, PoolsStaySafe, PairingIsFair, GraphsAreOrdered, PreflightEndsRight,
   NothingPaidTwice, NothingForgotten, PTL
===============================================================================
