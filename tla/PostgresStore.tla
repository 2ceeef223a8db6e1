---------------------------- MODULE PostgresStore ----------------------------
(***************************************************************************)
(* storage/postgres.py: a table of rows and a table of winners.  Pooled    *)
(* connections run the operations concurrently; each is one statement or   *)
(* one transaction, which the server applies whole or not at all, and      *)
(* whose reply can be lost after it was applied.                           *)
(***************************************************************************)
EXTENDS Recordings

VARIABLES
    outcome,    \* how each call comes out
    rows,       \* benchmark_results: the call whose row a key holds
    winners,    \* benchmark_winners: the tags that have a row
    recorded,   \* the calls record_call returned from
    raised      \* the calls record_call raised in

vars == <<outcome, rows, winners, recorded, raised>>

Init ==
    /\ outcome \in [Calls -> Outcomes]
    /\ rows = [k \in Keys |-> NoRow]
    /\ winners = {}
    /\ recorded = {}
    /\ raised = {}

\* The WHERE of the upsert: the stored row has an error_class or a
\* parse_failure_prefix.  A short row has neither.
Overwritable(k) == rows[k] # NoRow /\ outcome[rows[k]] \in {"failed", "junk"}

\* INSERT ... ON CONFLICT DO UPDATE, over a test of the stored row.
Upsert(c, k, overwritable) ==
    rows' = [rows EXCEPT ![k] = IF @ = NoRow \/ overwritable THEN c ELSE @]

Return(c) ==
    /\ c \notin recorded \cup raised
    /\ recorded' = recorded \cup {c}
    /\ UNCHANGED <<outcome, winners, raised>>

\* Slips: DO NOTHING on a conflict; a conflict key that lacks a column.
RecordCallDoNothing(c) == Return(c) /\ Upsert(c, KeyOf[c], FALSE)
RecordCallCoarse(c) == Return(c) /\ \E k \in Keys : Upsert(c, k, Overwritable(k))

RecordCall(c) == Return(c) /\ Upsert(c, KeyOf[c], Overwritable(KeyOf[c]))

\* The connection fails before or after the server applied the statement.
RecordCallRaises(c) ==
    /\ c \notin recorded \cup raised
    /\ raised' = raised \cup {c}
    /\ Upsert(c, KeyOf[c], Overwritable(KeyOf[c])) \/ UNCHANGED rows
    /\ UNCHANGED <<outcome, winners, recorded>>

PersistWinners(t) ==
    /\ winners' = winners \cup {t}
    /\ UNCHANGED <<outcome, rows, recorded, raised>>

\* One transaction over both tables.
DeleteExperiment(t) ==
    /\ rows' = [k \in Keys |-> IF rows[k] # NoRow /\ TagOf[rows[k]] = t THEN NoRow ELSE rows[k]]
    /\ winners' = winners \ {t}
    /\ UNCHANGED <<outcome, recorded, raised>>

Next ==
    \/ \E c \in Calls : RecordCall(c) \/ RecordCallRaises(c)
    \/ \E t \in Tags : PersistWinners(t) \/ DeleteExperiment(t)

Spec == Init /\ [][Next]_vars

-----------------------------------------------------------------------------
\* What prefetch_resume_cache answers: no error, no parse failure, long enough.
Answer == [k \in Keys |->
    IF rows[k] # NoRow /\ outcome[rows[k]] = "usable" THEN rows[k] ELSE NoRow]

Store == INSTANCE ResultStore WITH
    answer <- Answer, acked <- {c \in recorded : outcome[c] = "usable"},
    Deletable <- Tags

\* The promise of storage/base.py.  Where rows may come out short the backend
\* breaks it: the WHERE that postgres.py:406-419 says lets every row that was
\* not genuinely usable be overwritten keeps the short row, and the usable row
\* of the retry is dropped.
KeepsPromise == Store!Spec

\* A row is held under its own key, and its call was made.
TypeOK ==
    /\ outcome \in [Calls -> Outcomes]
    /\ recorded \subseteq Calls
    /\ raised \subseteq Calls
    /\ recorded \cap raised = {}
    /\ winners \subseteq Tags
    /\ rows \in [Keys -> recorded \cup raised \cup {NoRow}]
    /\ \A k \in Keys : rows[k] # NoRow => KeyOf[rows[k]] = k
===============================================================================
