----------------------------- MODULE MemoryStore -----------------------------
(***************************************************************************)
(* storage/memory.py: a dict of rows and a dict of winners behind one      *)
(* asyncio.Lock; no operation awaits inside it, so each is one step.       *)
(***************************************************************************)
EXTENDS Recordings

VARIABLES
    outcome,    \* how each call comes out
    rows,       \* _rows: the call whose row a key holds
    winners,    \* _winners: the tags a WinnerSet is held for
    recorded    \* the calls record_call returned from

vars == <<outcome, rows, winners, recorded>>

Init ==
    /\ outcome \in [Calls -> Outcomes]
    /\ rows = [k \in Keys |-> NoRow]
    /\ winners = {}
    /\ recorded = {}

\* The row of a key is one is_row_usable accepts.
Holds(k) == rows[k] # NoRow /\ outcome[rows[k]] = "usable"

\* The row of c goes under a key, unless the row there stays.
Write(c, k, stays) ==
    /\ c \notin recorded
    /\ recorded' = recorded \cup {c}
    /\ rows' = [rows EXCEPT ![k] = IF stays THEN @ ELSE c]
    /\ UNCHANGED <<outcome, winners>>

\* Slips: the first row of a key stays, whatever it is; the key lacks a column.
RecordCallFirst(c) == Write(c, KeyOf[c], rows[KeyOf[c]] # NoRow)
RecordCallCoarse(c) == \E k \in Keys : Write(c, k, Holds(k))

\* A usable row stays, any other is overwritten by the later attempt.
RecordCall(c) == Write(c, KeyOf[c], Holds(KeyOf[c]))

PersistWinners(t) ==
    /\ winners' = winners \cup {t}
    /\ UNCHANGED <<outcome, rows, recorded>>

DeleteExperiment(t) ==
    /\ rows' = [k \in Keys |-> IF rows[k] # NoRow /\ TagOf[rows[k]] = t THEN NoRow ELSE rows[k]]
    /\ winners' = winners \ {t}
    /\ UNCHANGED <<outcome, recorded>>

Next ==
    \/ \E c \in Calls : RecordCall(c)
    \/ \E t \in Tags : PersistWinners(t) \/ DeleteExperiment(t)

Spec == Init /\ [][Next]_vars

-----------------------------------------------------------------------------
\* What prefetch_resume_cache and get_cached answer.
Answer == [k \in Keys |-> IF Holds(k) THEN rows[k] ELSE NoRow]

Store == INSTANCE ResultStore WITH
    answer <- Answer, acked <- {c \in recorded : outcome[c] = "usable"},
    Deletable <- Tags

\* The backend keeps the promise of storage/base.py: a usable row is never
\* replaced, a retry's usable row is never dropped for a stale failure, and
\* only the deletion of its own tag takes an answer away.
KeepsPromise == Store!Spec

\* A row is held under its own key, and came from a recorded call.
TypeOK ==
    /\ outcome \in [Calls -> Outcomes]
    /\ recorded \subseteq Calls
    /\ winners \subseteq Tags
    /\ rows \in [Keys -> recorded \cup {NoRow}]
    /\ \A k \in Keys : rows[k] # NoRow => KeyOf[rows[k]] = k
===============================================================================
