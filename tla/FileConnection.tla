---------------------------- MODULE FileConnection ----------------------------
(***************************************************************************)
(* storage/file.py: the SQLite connection of a FileStorage, from           *)
(* initialize to close, with upsert_prompts as the operation that uses it. *)
(* Every operation begins with initialize.  The connection is opened       *)
(* outside the lock and published under it, a close may come between the   *)
(* two or between an operation's initialize and its use of the             *)
(* connection, and every file or database call may raise.  A connection is *)
(* named by the operation that opened it.                                  *)
(***************************************************************************)
EXTENDS Integers

CONSTANTS
    Ops,       \* upsert_prompts calls of one prompt, concurrent or one after the other
    Closers    \* close calls

NoOne == "no one"

ASSUME FileConnectionAssumption == NoOne \notin Ops \cup Closers /\ Ops \cap Closers = {}

VARIABLES
    db,           \* _db: the operation that opened it, or NoOne
    fileReady,  \* _initialized
    holder,       \* who holds _lock
    conn,         \* what became of the connection each operation opened
    opc,          \* where each operation is
    cpc,          \* where each close is
    lines,        \* lines the prompt has in _prompts.jsonl
    indexed,      \* the prompt is in prompts_index
    cause         \* history: the operations that met an exception, a close or both

connectionVars == <<db, fileReady, holder, conn, opc, cpc, lines, indexed, cause>>

OpGoes(o, l) == opc' = [opc EXCEPT ![o] = l]
Becomes(o, c) == conn' = [conn EXCEPT ![o] = c]

-----------------------------------------------------------------------------
ConnectionInit ==
    /\ db = NoOne
    /\ fileReady = FALSE
    /\ holder = NoOne
    /\ conn = [o \in Ops |-> "none"]
    /\ opc = [o \in Ops |-> "idle"]
    /\ cpc = [k \in Closers |-> "idle"]
    /\ lines = 0
    /\ indexed = FALSE
    /\ cause = {}

\* Slip: a caller that finds another one at it takes the connection for granted.
BeginUpsertForGranted(o) ==
    /\ opc[o] = "idle"
    /\ holder = NoOne
    /\ OpGoes(o, IF fileReady \/ \E r \in Ops : opc[r] \in {"connect", "prepare"} THEN "ready" ELSE "connect")
    /\ UNCHANGED <<db, fileReady, holder, conn, cpc, lines, indexed, cause>>

\* initialize, under the lock and without an await: is there a connection?
BeginUpsert(o) ==
    /\ opc[o] = "idle"
    /\ holder = NoOne
    /\ OpGoes(o, IF fileReady THEN "ready" ELSE "connect")
    /\ UNCHANGED <<db, fileReady, holder, conn, cpc, lines, indexed, cause>>

\* aiosqlite.connect, outside the lock.
Connect(o) ==
    /\ opc[o] = "connect"
    /\ Becomes(o, "open")
    /\ OpGoes(o, "prepare")
    /\ UNCHANGED <<db, fileReady, holder, cpc, lines, indexed, cause>>

\* It raises, or the WAL switch is refused five times, or the DDL raises: a
\* connection opened by then is not closed.
ConnectRaises(o) ==
    /\ opc[o] \in {"connect", "prepare"}
    /\ IF opc[o] = "prepare" THEN Becomes(o, "leaked") ELSE UNCHANGED conn
    /\ OpGoes(o, "failed")
    /\ cause' = cause \cup {o}
    /\ UNCHANGED <<db, fileReady, holder, cpc, lines, indexed>>

\* Slip: the connection is published whether or not one is.
PublishConnectionAlways(o) ==
    /\ opc[o] = "prepare"
    /\ holder = NoOne
    /\ db' = o /\ fileReady' = TRUE /\ OpGoes(o, "ready")
    /\ UNCHANGED <<holder, conn, cpc, lines, indexed, cause>>

\* The first one done publishes its connection; another one's is a duplicate.
PublishConnection(o) ==
    /\ opc[o] = "prepare"
    /\ holder = NoOne
    /\ IF fileReady THEN OpGoes(o, "drop") /\ UNCHANGED <<db, fileReady>>
       ELSE db' = o /\ fileReady' = TRUE /\ OpGoes(o, "ready")
    /\ UNCHANGED <<holder, conn, cpc, lines, indexed, cause>>

\* The duplicate is closed, outside the lock.
DropDuplicate(o) ==
    /\ opc[o] = "drop"
    /\ Becomes(o, "closed")
    /\ OpGoes(o, "ready")
    /\ UNCHANGED <<db, fileReady, holder, cpc, lines, indexed, cause>>

\* upsert_prompts under the lock: with the connection gone its assertion fails;
\* a prompt in the index is left alone.
LookUp(o) ==
    /\ opc[o] = "ready"
    /\ holder = NoOne
    /\ IF db = NoOne \/ conn[db] = "closed" THEN OpGoes(o, "failed") /\ UNCHANGED holder
       ELSE IF indexed THEN OpGoes(o, "done") /\ UNCHANGED holder
       ELSE OpGoes(o, "append") /\ holder' = o
    /\ UNCHANGED <<db, fileReady, conn, cpc, lines, indexed, cause>>

\* Slip: the index first, then the line.
IndexFirst(o) ==
    /\ opc[o] = "append"
    /\ indexed' = TRUE
    /\ OpGoes(o, "commit")
    /\ UNCHANGED <<db, fileReady, holder, conn, cpc, lines, cause>>

AppendPrompt(o) ==
    /\ opc[o] = "append"
    /\ lines' = lines + 1
    /\ OpGoes(o, "commit")
    /\ UNCHANGED <<db, fileReady, holder, conn, cpc, indexed, cause>>

\* The index entry is inserted and committed.
CommitPrompt(o) ==
    /\ opc[o] = "commit"
    /\ indexed' = TRUE
    /\ holder' = NoOne
    /\ OpGoes(o, "done")
    /\ UNCHANGED <<db, fileReady, conn, cpc, lines, cause>>

\* The append or the index write raises; the lock is freed.
UpsertRaises(o) ==
    /\ opc[o] \in {"append", "commit"}
    /\ holder' = NoOne
    /\ OpGoes(o, "failed")
    /\ cause' = cause \cup {o}
    /\ UNCHANGED <<db, fileReady, conn, cpc, lines, indexed>>

-----------------------------------------------------------------------------
Affected == {o \in Ops : opc[o] \notin {"done", "failed"}}

\* Slip: close does not take the lock.
BeginCloseUnlocked(k) ==
    /\ cpc[k] = "idle"
    /\ cpc' = [cpc EXCEPT ![k] = "closing"]
    /\ holder' = k
    /\ cause' = cause \cup Affected
    /\ UNCHANGED <<db, fileReady, conn, opc, lines, indexed>>

\* close takes the lock; operations that have not ended may find nothing.
BeginClose(k) ==
    /\ cpc[k] = "idle"
    /\ holder = NoOne
    /\ cpc' = [cpc EXCEPT ![k] = "closing"]
    /\ holder' = k
    /\ cause' = cause \cup Affected
    /\ UNCHANGED <<db, fileReady, conn, opc, lines, indexed>>

EndClose(k) ==
    /\ cpc[k] = "closing"
    /\ conn' = IF db = NoOne THEN conn ELSE [conn EXCEPT ![db] = "closed"]
    /\ db' = NoOne
    /\ fileReady' = FALSE
    /\ holder' = NoOne
    /\ cpc' = [cpc EXCEPT ![k] = "done"]
    /\ UNCHANGED <<opc, lines, indexed, cause>>

Upsert(o) ==
    \/ BeginUpsert(o) \/ Connect(o) \/ ConnectRaises(o) \/ PublishConnection(o) \/ DropDuplicate(o)
    \/ LookUp(o) \/ AppendPrompt(o) \/ CommitPrompt(o) \/ UpsertRaises(o)

Close(k) == BeginClose(k) \/ EndClose(k)

ConnectionNext == (\E o \in Ops : Upsert(o)) \/ (\E k \in Closers : Close(k))

ConnectionSpec == ConnectionInit /\ [][ConnectionNext]_connectionVars

-----------------------------------------------------------------------------
(* Properties *)

ConnectionTypeOK ==
    /\ db \in Ops \cup {NoOne}
    /\ fileReady \in BOOLEAN
    /\ holder \in Ops \cup Closers \cup {NoOne}
    /\ conn \in [Ops -> {"none", "open", "closed", "leaked"}]
    /\ opc \in [Ops -> {"idle", "connect", "prepare", "drop", "ready", "append", "commit", "done", "failed"}]
    /\ cpc \in [Closers -> {"idle", "closing", "done"}]
    /\ lines \in Nat
    /\ indexed \in BOOLEAN
    /\ cause \subseteq Ops

\* An open connection is the published one, or its opener is about to publish it
\* or drop it: of several first callers all but one close theirs (file.py,
\* initialize; an initialize that raises leaks its own).
NoStrayConnection ==
    \A o \in Ops : conn[o] = "open" => db = o \/ opc[o] \in {"prepare", "drop"}

\* The connection is not torn out from under an operation that uses it, and the
\* flag and the connection are one (file.py, close).
UseIsSafe ==
    /\ fileReady <=> db # NoOne
    /\ \A o \in Ops : opc[o] \in {"append", "commit"} => db # NoOne /\ conn[db] = "open"

\* An operation fails only if something raised in it or a close overtook it, never
\* for its rivals' initialize calls (file.py, initialize).
FailsForCause == \A o \in Ops : opc[o] = "failed" => o \in cause

\* A prompt the index knows is in the file, whatever raised (file.py,
\* upsert_prompts).
PromptsAreWritten == indexed => lines > 0

\* Operations, closes and whatever raises in them leave the connection, its
\* users and the prompts in order.
ConnectionIsSafe == NoStrayConnection /\ UseIsSafe /\ FailsForCause /\ PromptsAreWritten
===============================================================================
