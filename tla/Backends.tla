------------------------------ MODULE Backends ------------------------------
(***************************************************************************)
(* The in-memory and the Postgres backend driven by the same calls, as the *)
(* contract tests do that storage/base.py:8-9 speaks of.  The variables of *)
(* MemoryStore are those of the one, the pg variables those of the other.  *)
(***************************************************************************)
EXTENDS MemoryStore

VARIABLES pgRows, pgWinners, pgRecorded, pgRaised

pgVars == <<pgRows, pgWinners, pgRecorded, pgRaised>>

Postgres == INSTANCE PostgresStore WITH
    rows <- pgRows, winners <- pgWinners, recorded <- pgRecorded, raised <- pgRaised

BothInit == Init /\ Postgres!Init

RecordBoth(c) == RecordCall(c) /\ Postgres!RecordCall(c)

\* Only a connection can fail: the row is offered to one backend alone.
ReplyLost(c) == Postgres!RecordCallRaises(c) /\ UNCHANGED vars

PersistBoth(t) == PersistWinners(t) /\ Postgres!PersistWinners(t)

DeleteBoth(t) == DeleteExperiment(t) /\ Postgres!DeleteExperiment(t)

BothNext ==
    \/ \E c \in Calls : RecordBoth(c) \/ ReplyLost(c)
    \/ \E t \in Tags : PersistBoth(t) \/ DeleteBoth(t)

BothSpec == BothInit /\ [][BothNext]_<<vars, pgVars>>

-----------------------------------------------------------------------------
\* Postgres keeps the promise of storage/base.py, lost replies included.
PostgresKeepsPromise == Postgres!KeepsPromise

\* A consumer may exchange the backends: as long as no connection failed, the
\* same calls, retries and deletions leave the same rows to rank, and the same
\* answers in the resume cache.
SameAnswers ==
    pgRaised = {} => rows = pgRows /\ Answer = Postgres!Answer
===============================================================================
