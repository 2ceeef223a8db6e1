----------------------------- MODULE Recordings -----------------------------
(***************************************************************************)
(* What the backends are asked to store: the rows of a number of calls,    *)
(* each under a primary key and a tag.  Several calls of one key are the   *)
(* attempts of one and the same work.                                      *)
(***************************************************************************)
EXTENDS Naturals

CONSTANTS
    NCalls,    \* how many calls are recorded
    Keys,      \* (composite_hash, provider, model, thinking)
    Tags,      \* experiment tags
    KeyOf,     \* the key of a call's row
    TagOf,     \* the tag of a call's row
    Outcomes   \* how a row can come out

Calls == 1 .. NCalls
NoRow == 0

\* predicates.is_row_usable accepts a usable row alone: a short one is under the
\* minimum length, a junk one has a parse_failure_prefix, a failed one an error.
ASSUME RecordingsAssumption ==
    /\ NCalls \in Nat
    /\ KeyOf \in [Calls -> Keys]
    /\ TagOf \in [Calls -> Tags]
    /\ Outcomes \subseteq {"usable", "short", "junk", "failed"}
===============================================================================
