------------------------------ MODULE StageGraph ------------------------------
(***************************************************************************)
(* core/types.py, StageGraph: which lists of stages are accepted, and the  *)
(* order the pipelines run them in.  topo_order visits the stages of the   *)
(* list, each after its parent, which it visits first; `stack` is the      *)
(* stages whose visit is under way.                                        *)
(***************************************************************************)
EXTENDS Integers, Sequences, FiniteSets, Functions

CONSTANTS
    Names,      \* what a consumer may call a stage, or a parent
    NoParent,
    MaxStages   \* bound of the lists

ASSUME GraphAssumption == NoParent \notin Names /\ MaxStages \in Nat

VARIABLES
    graph,        \* StageGraph.stages, of each [id, parent]
    verdict,      \* how far __post_init__ is, and how it ends
    nextStage,    \* the place in the list topo_order goes on with
    stack, out    \* the stages under way, and those in order; `seen` is the set of out

graphVars == <<graph, verdict, nextStage, stack, out>>

Stages == [id : Names, parent : Names \cup {NoParent}]

Ids == {graph[i].id : i \in DOMAIN graph}
ParentOf(sid) == (CHOOSE s \in Range(graph) : s.id = sid).parent
Placed == Range(out)
Top == stack[Len(stack)]

-----------------------------------------------------------------------------
\* Slips: a stage met again on the way up is passed over; a stage is put before
\* what is in order already.
VisitParentAgain ==
    /\ verdict = "ordering" /\ stack # <<>>
    /\ ParentOf(Top) \notin Placed \cup {NoParent}
    /\ IF ParentOf(Top) \in Range(stack)
       THEN out' = Append(out, Top) /\ stack' = SubSeq(stack, 1, Len(stack) - 1)
       ELSE stack' = Append(stack, ParentOf(Top)) /\ UNCHANGED out
    /\ UNCHANGED <<graph, verdict, nextStage>>

PlaceInFront ==
    /\ verdict = "ordering" /\ stack # <<>>
    /\ ParentOf(Top) \in Placed \cup {NoParent}
    /\ out' = <<Top>> \o out
    /\ stack' = SubSeq(stack, 1, Len(stack) - 1)
    /\ UNCHANGED <<graph, verdict, nextStage>>

GraphInit ==
    /\ graph \in UNION {[1 .. k -> Stages] : k \in 0 .. MaxStages}
    /\ verdict = "new" /\ nextStage = 1 /\ stack = <<>> /\ out = <<>>

\* __post_init__ before it has the order made: no id twice, no parent unknown.
CheckStages ==
    /\ verdict = "new"
    /\ verdict' = IF /\ Cardinality(Ids) = Len(graph)
                     /\ \A i \in DOMAIN graph : graph[i].parent \in Ids \cup {NoParent}
                  THEN "ordering" ELSE "rejected"
    /\ UNCHANGED <<graph, nextStage, stack, out>>

\* The loop over the list: a stage that was somebody's parent is in order already.
NextStage ==
    /\ verdict = "ordering" /\ stack = <<>> /\ nextStage <= Len(graph)
    /\ stack' = IF graph[nextStage].id \in Placed THEN <<>> ELSE <<graph[nextStage].id>>
    /\ nextStage' = nextStage + 1
    /\ UNCHANGED <<graph, verdict, out>>

\* visit calls itself for the parent, and raises for one that is under way.
VisitParent ==
    /\ verdict = "ordering" /\ stack # <<>>
    /\ ParentOf(Top) \notin Placed \cup {NoParent}
    /\ IF ParentOf(Top) \in Range(stack)
       THEN verdict' = "rejected" /\ UNCHANGED stack
       ELSE stack' = Append(stack, ParentOf(Top)) /\ UNCHANGED verdict
    /\ UNCHANGED <<graph, nextStage, out>>

\* The parent's visit has returned, or there is none.
Place ==
    /\ verdict = "ordering" /\ stack # <<>>
    /\ ParentOf(Top) \in Placed \cup {NoParent}
    /\ out' = Append(out, Top)
    /\ stack' = SubSeq(stack, 1, Len(stack) - 1)
    /\ UNCHANGED <<graph, verdict, nextStage>>

\* __post_init__ counts the order it was given.
CountOrder ==
    /\ verdict = "ordering" /\ stack = <<>> /\ nextStage > Len(graph)
    /\ verdict' = IF Len(out) = Len(graph) THEN "accepted" ELSE "rejected"
    /\ UNCHANGED <<graph, nextStage, stack, out>>

GraphNext == CheckStages \/ NextStage \/ VisitParent \/ Place \/ CountOrder

GraphSpec == GraphInit /\ [][GraphNext]_graphVars

-----------------------------------------------------------------------------
(* Properties *)

\* The stages in order and under way are stages of the list.
GraphTypeOK ==
    /\ graph \in Seq(Stages)
    /\ verdict \in {"new", "ordering", "accepted", "rejected"}
    /\ nextStage \in 1 .. Len(graph) + 1
    /\ stack \in Seq(Ids) /\ out \in Seq(Ids)

\* No id twice, no parent unknown, and no stages that are all built on one
\* another: of any, one is built on none of them.
Forest ==
    /\ \A i, j \in DOMAIN graph : graph[i].id = graph[j].id => i = j
    /\ \A i \in DOMAIN graph : graph[i].parent \in Ids \cup {NoParent}
    /\ \A C \in SUBSET Ids : C # {} => \E x \in C : ParentOf(x) \notin C

\* Every stage once, and after the one whose output it is built on.
InOrder ==
    /\ Len(out) = Len(graph) /\ Placed = Ids
    /\ \A i \in DOMAIN out :
         ParentOf(out[i]) = NoParent \/ \E j \in 1 .. i - 1 : out[j] = ParentOf(out[i])

\* A list is accepted if and only if it is a forest, and then every stage of it
\* runs once, after its parent (types.py, StageGraph: "Rejects cycles + missing
\* parents"; topo_order: "parents before children").
GraphsRunInOrder ==
    /\ verdict = "accepted" => Forest /\ InOrder
    /\ verdict = "rejected" => ~Forest
===============================================================================
