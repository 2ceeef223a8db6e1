----------------------------- MODULE PostgresPool -----------------------------
(***************************************************************************)
(* storage/postgres.py: the connection pools of the processes that share   *)
(* one database, from initialize over upsert_prompts to close, and the     *)
(* version stamp the first of them leaves in schema_version.  initialize   *)
(* holds the process's lock from the empty pool to the published one; the  *)
(* database does not know that lock, and its table of versions takes two   *)
(* rows.  Every call of the database may raise.                            *)
(***************************************************************************)
EXTENDS Integers, FiniteSets

CONSTANTS
    Processes,
    Build,           \* the _SCHEMA_VERSION of each process's build
    Callers,         \* coroutines that call initialize and then upsert_prompts
    ProcessOf,       \* where each runs
    MaxConnections   \* max_connections

None == "none"

ASSUME PostgresPoolAssumption ==
    /\ Build \in [Processes -> Nat]
    /\ ProcessOf \in [Callers -> Processes]
    /\ MaxConnections \in Nat \ {0}
    /\ None \notin Callers \cup Processes
    /\ Callers \cap Processes = {}

VARIABLES
    published,  \* _pool is set, per process
    opened,     \* pools the process has open on the server
    guard,      \* who holds _lock: a caller, the process's close or None
    step,       \* where each caller is
    closing,    \* where each process's close is
    using,      \* callers that hold a connection of the published pool
    stamps,     \* the rows of schema_version
    blind,      \* history: processes that found schema_version empty
    excused     \* history: callers that met an exception or a close

poolVars == <<published, opened, guard, step, closing, using, stamps, blind, excused>>

UsersOf(p) == {c \in using : ProcessOf[c] = p}
CallerGoes(c, l) == step' = [step EXCEPT ![c] = l]

-----------------------------------------------------------------------------
\* The schema is new, or an earlier run of some build has stamped it.
PoolInit ==
    /\ published = [p \in Processes |-> FALSE]
    /\ opened = [p \in Processes |-> 0]
    /\ guard = [p \in Processes |-> None]
    /\ step = [c \in Callers |-> "idle"]
    /\ closing = [p \in Processes |-> "idle"]
    /\ using = {}
    /\ stamps \in {{}} \cup {{Build[p]} : p \in Processes}
    /\ blind = {}
    /\ excused = {}

\* Slip: a caller that finds another one at it takes the pool for granted.
TakeGuardForGranted(c) ==
    LET p == ProcessOf[c] IN
    /\ step[c] = "idle"
    /\ IF published[p] \/ guard[p] # None THEN CallerGoes(c, "ready") /\ UNCHANGED guard
       ELSE CallerGoes(c, "create") /\ guard' = [guard EXCEPT ![p] = c]
    /\ UNCHANGED <<published, opened, closing, using, stamps, blind, excused>>

\* initialize takes the lock; a published pool is all it needs.
TakeGuard(c) ==
    LET p == ProcessOf[c] IN
    /\ step[c] = "idle"
    /\ guard[p] = None
    /\ IF published[p] THEN CallerGoes(c, "ready") /\ UNCHANGED guard
       ELSE CallerGoes(c, "create") /\ guard' = [guard EXCEPT ![p] = c]
    /\ UNCHANGED <<published, opened, closing, using, stamps, blind, excused>>

CreatePool(c) ==
    /\ step[c] = "create"
    /\ opened' = [opened EXCEPT ![ProcessOf[c]] = @ + 1]
    /\ CallerGoes(c, "check")
    /\ UNCHANGED <<published, guard, closing, using, stamps, blind, excused>>

\* Slip: a stamp of another build is not an error.
ReadStampOfAny(c) ==
    LET p == ProcessOf[c] IN
    /\ step[c] = "check"
    /\ IF stamps = {} THEN CallerGoes(c, "stamp") /\ blind' = blind \cup {p}
       ELSE CallerGoes(c, "publish") /\ UNCHANGED blind
    /\ UNCHANGED <<published, opened, guard, closing, using, stamps, excused>>

\* The DDL, then any one row of schema_version: none is to be stamped, one of
\* another build is an error.
ReadStamp(c) ==
    LET p == ProcessOf[c] IN
    /\ step[c] = "check"
    /\ \/ stamps = {} /\ CallerGoes(c, "stamp") /\ blind' = blind \cup {p} /\ UNCHANGED excused
       \/ Build[p] \in stamps /\ CallerGoes(c, "publish") /\ UNCHANGED <<blind, excused>>
       \/ stamps \ {Build[p]} # {} /\ CallerGoes(c, "drop") /\ excused' = excused \cup {c} /\ UNCHANGED blind
    /\ UNCHANGED <<published, opened, guard, closing, using, stamps>>

InsertStamp(c) ==
    /\ step[c] = "stamp"
    /\ stamps' = stamps \cup {Build[ProcessOf[c]]}
    /\ CallerGoes(c, "publish")
    /\ UNCHANGED <<published, opened, guard, closing, using, blind, excused>>

\* create_pool raises and there is nothing to close; or a statement does.
PoolRaises(c) ==
    LET p == ProcessOf[c] IN
    /\ step[c] \in {"create", "check", "stamp"}
    /\ excused' = excused \cup {c}
    /\ IF step[c] = "create"
       THEN CallerGoes(c, "failed") /\ guard' = [guard EXCEPT ![p] = None]
       ELSE CallerGoes(c, "drop") /\ UNCHANGED guard
    /\ UNCHANGED <<published, opened, closing, using, stamps, blind>>

\* Slip: the pool of an initialize that failed stays open.
DropPoolLeaky(c) ==
    LET p == ProcessOf[c] IN
    /\ step[c] = "drop"
    /\ guard' = [guard EXCEPT ![p] = None]
    /\ CallerGoes(c, "failed")
    /\ UNCHANGED <<published, opened, closing, using, stamps, blind, excused>>

DropPool(c) ==
    LET p == ProcessOf[c] IN
    /\ step[c] = "drop"
    /\ opened' = [opened EXCEPT ![p] = @ - 1]
    /\ guard' = [guard EXCEPT ![p] = None]
    /\ CallerGoes(c, "failed")
    /\ UNCHANGED <<published, closing, using, stamps, blind, excused>>

PublishPool(c) ==
    LET p == ProcessOf[c] IN
    /\ step[c] = "publish"
    /\ published' = [published EXCEPT ![p] = TRUE]
    /\ guard' = [guard EXCEPT ![p] = None]
    /\ CallerGoes(c, "ready")
    /\ UNCHANGED <<opened, closing, using, stamps, blind, excused>>

\* upsert_prompts: without a pool, or on one that is closing, it raises; it waits
\* for a connection while all are held.
Acquire(c) ==
    LET p == ProcessOf[c] IN
    /\ step[c] = "ready"
    /\ IF ~published[p] \/ closing[p] = "draining" THEN CallerGoes(c, "failed") /\ UNCHANGED using
       ELSE /\ Cardinality(UsersOf(p)) < MaxConnections
            /\ using' = using \cup {c}
            /\ CallerGoes(c, "insert")
    /\ UNCHANGED <<published, opened, guard, closing, stamps, blind, excused>>

\* The transaction commits or is rolled back, and gives the connection back.
EndUpsert(c) ==
    /\ step[c] = "insert"
    /\ using' = using \ {c}
    /\ \/ CallerGoes(c, "done") /\ UNCHANGED excused
       \/ CallerGoes(c, "failed") /\ excused' = excused \cup {c}
    /\ UNCHANGED <<published, opened, guard, closing, stamps, blind>>

-----------------------------------------------------------------------------
\* close takes the lock and lets the pool drain, with _pool still set.
BeginPoolClose(p) ==
    /\ closing[p] = "idle"
    /\ guard[p] = None
    /\ IF published[p] THEN closing' = [closing EXCEPT ![p] = "draining"] /\ guard' = [guard EXCEPT ![p] = p]
       ELSE closing' = [closing EXCEPT ![p] = "closed"] /\ UNCHANGED guard
    /\ excused' = excused \cup {c \in Callers : ProcessOf[c] = p /\ step[c] \notin {"idle", "done", "failed"}}
    /\ UNCHANGED <<published, opened, step, using, stamps, blind>>

\* Slip: close does not wait for the connections that are in use.
EndPoolCloseAtOnce(p) ==
    /\ closing[p] = "draining"
    /\ opened' = [opened EXCEPT ![p] = @ - 1]
    /\ published' = [published EXCEPT ![p] = FALSE]
    /\ guard' = [guard EXCEPT ![p] = None]
    /\ closing' = [closing EXCEPT ![p] = "closed"]
    /\ UNCHANGED <<step, using, stamps, blind, excused>>

EndPoolClose(p) ==
    /\ closing[p] = "draining"
    /\ UsersOf(p) = {}
    /\ opened' = [opened EXCEPT ![p] = @ - 1]
    /\ published' = [published EXCEPT ![p] = FALSE]
    /\ guard' = [guard EXCEPT ![p] = None]
    /\ closing' = [closing EXCEPT ![p] = "closed"]
    /\ UNCHANGED <<step, using, stamps, blind, excused>>

Call(c) ==
    \/ TakeGuard(c) \/ CreatePool(c) \/ ReadStamp(c) \/ InsertStamp(c) \/ PoolRaises(c)
    \/ DropPool(c) \/ PublishPool(c) \/ Acquire(c) \/ EndUpsert(c)

ClosePool(p) == BeginPoolClose(p) \/ EndPoolClose(p)

PoolNext == (\E c \in Callers : Call(c)) \/ (\E p \in Processes : ClosePool(p))

PoolSpec == PoolInit /\ [][PoolNext]_poolVars

-----------------------------------------------------------------------------
(* Properties *)

PoolTypeOK ==
    /\ published \in [Processes -> BOOLEAN]
    /\ opened \in [Processes -> Nat]
    /\ guard \in [Processes -> Callers \cup Processes \cup {None}]
    /\ step \in [Callers -> {"idle", "create", "check", "stamp", "publish", "drop", "ready", "insert", "done", "failed"}]
    /\ closing \in [Processes -> {"idle", "draining", "closed"}]
    /\ using \subseteq Callers
    /\ stamps \subseteq {Build[p] : p \in Processes}
    /\ blind \subseteq Processes
    /\ excused \subseteq Callers

\* A pool that is open is the published one or is being prepared under the lock:
\* neither rival calls of initialize nor one that fails leave another behind
\* (postgres.py, initialize).
NoStrayPool ==
    \A p \in Processes :
        opened[p] = IF published[p] THEN 1
                    ELSE Cardinality({c \in Callers : ProcessOf[c] = p /\ step[c] \in {"check", "stamp", "publish", "drop"}})

\* While a connection is held its pool is there, and never more are held than the
\* pool has (postgres.py, close and upsert_prompts).
PoolOutlivesUse ==
    \A p \in Processes :
        /\ UsersOf(p) # {} => published[p]
        /\ Cardinality(UsersOf(p)) <= MaxConnections

\* A process that writes has its build's stamp in the schema, and two of different
\* builds both write only if one of each build found the schema unstamped
\* (postgres.py, _check_or_stamp_schema_version).
BuildsDoNotMix ==
    \A c, d \in using :
        LET b == Build[ProcessOf[c]]
            e == Build[ProcessOf[d]]
        IN /\ b \in stamps
           /\ b # e => \E p \in blind : Build[p] = b

\* Only an exception, or a close that began meanwhile, makes a caller fail
\* (postgres.py, initialize).
RaisesForCause == \A c \in Callers : step[c] = "failed" => c \in excused

\* Callers, closes, builds and whatever raises leave the pools and their users
\* in order.
PoolIsSafe == NoStrayPool /\ PoolOutlivesUse /\ BuildsDoNotMix /\ RaisesForCause
===============================================================================
