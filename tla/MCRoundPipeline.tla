---------------------------- MODULE MCRoundPipeline ----------------------------
(* Instances of RoundPipeline for TLC. *)
EXTENDS RoundPipeline, TLC

\* A root stage and a stage built on it, with ops of their own.
MCParentOf == [s \in Stages |-> s - 1]
MCOpOf == [s \in Stages |-> IF s = 1 THEN "enrich" ELSE "judge"]
\* No constant tells the models apart.
ModelSymmetry == Permutations(Models)
MCOpLimit == [o \in {OpOf[s] : s \in Stages} |-> 1]
NoSubstrate == [x \in Stages \X Units |-> NoText]
\* The previous round's winner of the root stage answered the first unit.
WinnerSubstrate == [x \in Stages \X Units |-> IF x[1] = 1 THEN "good" ELSE NoText]
===============================================================================
