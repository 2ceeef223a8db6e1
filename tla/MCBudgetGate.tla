----------------------------- MODULE MCBudgetGate -----------------------------
(* Instances of BudgetGate for TLC. *)
EXTENDS BudgetGate

\* A budgeted op used under two tags, and an op without a budget.
MCOps == {"enrich", "judge"}
MCKeys == {"A/enrich", "B/enrich", "A/judge"}
MCOpOf == [k \in MCKeys |-> IF k = "A/judge" THEN "judge" ELSE "enrich"]
MCBudgeted == {"enrich"}
\* Two calls race on one key, one uses the same op under another tag and one an
\* op without a budget.
MCKeyOf == [c \in Calls |->
    IF c <= 2 THEN "A/enrich" ELSE IF c = 3 THEN "B/enrich" ELSE "A/judge"]
\* Two calls are admitted together at first, and one after a call that cost 3.
MCCap == [o \in MCOps |-> 6]
MCFloor == [o \in MCOps |-> 2]
MCCosts == {0, 3}
MCReplaced == {0, 1}
MCPrior == [k \in MCKeys |-> IF k = "A/enrich" THEN 1 ELSE 0]
===============================================================================
