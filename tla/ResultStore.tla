----------------------------- MODULE ResultStore -----------------------------
(***************************************************************************)
(* What every backend of storage/base.py promises of the resume cache: for *)
(* each primary key at most one usable row answers it, whatever tag wrote  *)
(* it; the answer is never replaced by another and goes only when the tag  *)
(* that wrote it is deleted; and record_call returns from recording a      *)
(* usable row only when its key is answered.                               *)
(***************************************************************************)
EXTENDS Naturals

CONSTANTS
    NCalls,   \* how many calls are recorded
    Keys,     \* (composite_hash, provider, model, thinking)
    Tags,     \* experiment tags
    KeyOf,    \* the key of a call's row
    TagOf,    \* the tag of a call's row
    Deletable \* the tags delete_experiment is called for

Calls == 1 .. NCalls
NoRow == 0

VARIABLES
    answer,   \* the row that answers a key in prefetch_resume_cache
    acked     \* the calls whose usable row record_call returned from

vars == <<answer, acked>>

Init ==
    /\ answer = [k \in Keys |-> NoRow]
    /\ acked = {}

\* A row answers its key, which had no answer; record_call may not live to say so.
Answer(c) ==
    /\ answer[KeyOf[c]] = NoRow
    /\ answer' = [answer EXCEPT ![KeyOf[c]] = c]
    /\ acked' \in {acked, acked \cup {c}}

\* A key that is answered already needs no other row.
Acknowledge(c) ==
    /\ answer[KeyOf[c]] # NoRow
    /\ acked' = acked \cup {c}
    /\ UNCHANGED answer

\* A tag is deleted and its answers with it.
Purge(t) ==
    /\ answer' = [k \in Keys |->
                     IF answer[k] # NoRow /\ TagOf[answer[k]] = t THEN NoRow ELSE answer[k]]
    /\ UNCHANGED acked

Next ==
    \/ \E c \in Calls : Answer(c) \/ Acknowledge(c)
    \/ \E t \in Deletable : Purge(t)

Spec == Init /\ [][Next]_vars
===============================================================================
