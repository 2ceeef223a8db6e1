------------------------------ MODULE StageNames ------------------------------
(***************************************************************************)
(* storage/memory.py, _stage_to_op: the op under which storage books a     *)
(* stage's spend, read off the stage's name, where the budget gate goes by *)
(* Stage.op.                                                               *)
(***************************************************************************)
EXTENDS Integers, Sequences, SequencesExt

NoLanguage == "none"

-----------------------------------------------------------------------------
(* A stage's name is a sequence of the words "_" stands between. *)

\* Words of two small letters, and some others.
TwoLetters == {"es", "do"}
Longer == {"check", "hant"}
Words == TwoLetters \cup Longer

\* Slip: any word at the end is taken for a language.
StageToOpAnyTail(name) == IF Len(name) > 1 THEN Front(name) ELSE name

\* _stage_to_op.  Every one of _KNOWN_LANGS has two letters.
StageToOp(name) ==
    IF Len(name) > 1 /\ Last(name) \in TwoLetters THEN Front(name) ELSE name

\* How the consumers name a stage: its op, and its language if it has one.
NameOf(op, lang) == IF lang = NoLanguage THEN op ELSE Append(op, lang)

IsStageOp(s) == s.op \in Seq(Words) \ {<<>>} /\ s.lang \in Words \cup {NoLanguage}

-----------------------------------------------------------------------------
(* Properties of an op and a language *)

\* Spend is booked where the gate looks for it: under the stage's op, when the
\* language has two letters and an op without one does not end in two letters
\* (budget.py, the seed of check; memory.py, _stage_to_op).
OpIsFound(op, lang) ==
    \/ lang \in Longer
    \/ lang = NoLanguage /\ Len(op) > 1 /\ Last(op) \in TwoLetters
    \/ StageToOp(NameOf(op, lang)) = op
===============================================================================
