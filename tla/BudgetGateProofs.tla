--------------------------- MODULE BudgetGateProofs ---------------------------
(* Theorems about BudgetGate, for every number of calls, key, cap and cost. *)
EXTENDS BudgetGate, SumLemmas

LEMMA MaxOfNat ==
    ASSUME NEW a \in Int, NEW b \in Int
    PROVE  /\ MaxOf(a, b) \in {a, b}
           /\ MaxOf(a, b) >= a
           /\ MaxOf(a, b) >= b
BY DEF MaxOf

\* The projection of a call is a positive number of cents.
LEMMA ProjectedNat ==
    ASSUME TypeOK, NEW o \in Ops
    PROVE  Projected(o) \in Nat /\ Projected(o) >= 1
<1> DEFINE afterLast == (last[o] * HeadroomNum) \div HeadroomDen
           floor     == IF last[o] = 0 THEN Floor[o] ELSE 0
<1>1. last[o] * HeadroomNum \in Nat
  BY MoneyAssumption DEF TypeOK
<1>2. afterLast \in Int
  BY <1>1, MoneyAssumption
<1>3. floor \in Int
  BY MoneyAssumption
<1> HIDE DEF afterLast, floor
<1>4. MaxOf(MaxOf(afterLast, floor), 1) \in Nat /\ MaxOf(MaxOf(afterLast, floor), 1) >= 1
  BY <1>2, <1>3 DEF MaxOf
<1>5. QED
  BY <1>4 DEF Projected, MinProjection, afterLast, floor

-----------------------------------------------------------------------------
(* Type correctness. *)

LEMMA InitType == Init => TypeOK
BY CallsAssumption, MoneyAssumption DEF Init, TypeOK, Calls, NoCall

LEMMA AdmitType ==
    ASSUME TypeOK, NEW c \in Calls, NEW s \in Nat, Admit(c, s)
    PROVE  /\ pc' \in [Calls -> {"idle", "seeding", "admitted", "skipped", "failed",
                                 "returned", "recorded", "leaked", "lost"}]
           /\ pc'[c] \in {"skipped", "admitted"}
           /\ \A d \in Calls \ {c} : pc'[d] = pc[d]
           /\ reserved' \in [Keys -> Nat]
           /\ res' \in [Calls -> Nat]
<1>1. Projected(Op(c)) \in Nat
  BY ProjectedNat, KeysAssumption DEF Op
<1>2. QED
  BY <1>1, KeysAssumption DEF Admit, Decide, TypeOK

LEMMA StepType ==
    ASSUME TypeOK, [Next]_vars
    PROVE  TypeOK'
<1> USE DEF TypeOK
<1>1. ASSUME NEW c \in Calls, CheckUnbudgeted(c)
      PROVE  TypeOK'
  BY <1>1 DEF CheckUnbudgeted, gateVars, storeVars, Calls, NoCall
<1>2. ASSUME NEW c \in Calls, CheckSeeded(c)
      PROVE  TypeOK'
  <2>1. spent[KeyOf[c]] \in Nat /\ Admit(c, spent[KeyOf[c]])
    BY <1>2, KeysAssumption DEF CheckSeeded
  <2>2. /\ pc' \in [Calls -> {"idle", "seeding", "admitted", "skipped", "failed",
                              "returned", "recorded", "leaked", "lost"}]
        /\ pc'[c] \in {"skipped", "admitted"}
        /\ \A d \in Calls \ {c} : pc'[d] = pc[d]
        /\ reserved' \in [Keys -> Nat]
        /\ res' \in [Calls -> Nat]
    BY <2>1, AdmitType
  <2>3. QED
    BY <1>2, <2>2 DEF CheckSeeded, storeVars, Calls, NoCall
<1>3. ASSUME NEW c \in Calls, BeginSeed(c)
      PROVE  TypeOK'
  BY <1>3 DEF BeginSeed, storeVars, Calls, NoCall
<1>4. ASSUME NEW c \in Calls, FinishSeed(c)
      PROVE  TypeOK'
  <2>1. ledger[KeyOf[c]] \in Nat /\ KeyOf[c] \in Keys /\ Admit(c, ledger[KeyOf[c]])
    BY <1>4, KeysAssumption DEF FinishSeed, SeedWith
  <2>2. /\ pc' \in [Calls -> {"idle", "seeding", "admitted", "skipped", "failed",
                              "returned", "recorded", "leaked", "lost"}]
        /\ pc'[c] \in {"skipped", "admitted"}
        /\ \A d \in Calls \ {c} : pc'[d] = pc[d]
        /\ reserved' \in [Keys -> Nat]
        /\ res' \in [Calls -> Nat]
    BY <2>1, AdmitType
  <2>3. spent' \in [Keys -> Nat]
    BY <1>4, <2>1 DEF FinishSeed, SeedWith
  <2>4. lock = c /\ lock' = NoCall
    BY <1>4 DEF FinishSeed, SeedWith
  <2>5. \A d \in Calls : pc'[d] = "seeding" <=> lock' = d
    BY <2>2, <2>4 DEF Calls, NoCall
  <2>6. QED
    BY <1>4, <2>1, <2>2, <2>3, <2>4, <2>5 DEF FinishSeed, SeedWith, storeVars
<1>5. ASSUME NEW c \in Calls, SeedRaises(c)
      PROVE  TypeOK'
  BY <1>5 DEF SeedRaises, storeVars, Calls, NoCall
<1>6. ASSUME NEW c \in Calls, AbortBeforeCall(c)
      PROVE  TypeOK'
  BY <1>6 DEF AbortBeforeCall, gateVars, storeVars, Calls, NoCall
<1>7. ASSUME NEW c \in Calls, CallReturns(c)
      PROVE  TypeOK'
  <2>1. PICK r \in Costs, e \in Costs :
            /\ raw' = [raw EXCEPT ![c] = r]
            /\ eff' = [eff EXCEPT ![c] = e]
            /\ paid' = [paid EXCEPT ![KeyOf[c]] = @ + e]
    BY <1>7 DEF CallReturns
  <2>2. r \in Nat /\ e \in Nat /\ KeyOf[c] \in Keys
    BY MoneyAssumption, KeysAssumption
  <2>3. raw' \in [Calls -> Nat] /\ eff' \in [Calls -> Nat] /\ paid' \in [Keys -> Nat]
    BY <2>1, <2>2
  <2>4. QED
    BY <1>7, <2>3 DEF CallReturns, gateVars, storeVars, Calls, NoCall
<1>8. ASSUME NEW c \in Calls, RowWritten(c)
      PROVE  TypeOK'
  <2>1. MaxOf(0, eff[c] - res[c]) \in Nat
    BY MaxOfNat DEF MaxOf
  <2>2. KeyOf[c] \in Keys
    BY KeysAssumption
  <2>3. overrun' \in [Keys -> Nat]
    BY <1>8, <2>1, <2>2 DEF RowWritten
  <2>4. ledger' \in [Keys -> Nat]
    BY <1>8, <2>2, MoneyAssumption DEF RowWritten
  <2>5. QED
    BY <1>8, <2>3, <2>4 DEF RowWritten, gateVars, callVars
<1>9. ASSUME NEW c \in Calls, RecordCost(c)
      PROVE  TypeOK'
  <2>1. KeyOf[c] \in Keys /\ Op(c) \in Ops
    BY KeysAssumption DEF Op
  <2>2. MaxOf(0, reserved[KeyOf[c]] - res[c]) \in Nat
    BY <2>1, MaxOfNat DEF MaxOf
  <2>3. reserved' \in [Keys -> Nat]
    BY <1>9, <2>2 DEF RecordCost, Reconcile
  <2>4. spent' \in [Keys -> Nat] /\ last' \in [Ops -> Nat]
    BY <1>9, <2>1 DEF RecordCost, Reconcile
  <2>5. QED
    BY <1>9, <2>3, <2>4 DEF RecordCost, Reconcile, storeVars, Calls, NoCall
<1>10. ASSUME NEW c \in Calls, RecordCallRaises(c)
       PROVE  TypeOK'
  BY <1>10 DEF RecordCallRaises, gateVars, storeVars, Calls, NoCall
<1>11. CASE Restart
  BY <1>11, MoneyAssumption DEF Restart, storeVars, Calls, NoCall
<1>12. CASE UNCHANGED vars
  BY <1>12 DEF vars, gateVars, callVars, storeVars
<1>13. QED
  BY <1>1, <1>2, <1>3, <1>4, <1>5, <1>6, <1>7, <1>8, <1>9, <1>10, <1>11, <1>12 DEF Next, Step, Proceed, Raise

\* Amounts never go negative and the lock is held by the seeding call alone,
\* in every reachable state (check and record_cost, budget.py:57-146).
THEOREM TypeCorrect == Spec => []TypeOK
<1>1. TypeOK /\ [Next]_vars => TypeOK'
  BY StepType
<1>2. QED
  BY InitType, <1>1, PTL DEF Spec
-----------------------------------------------------------------------------
(* Sums stated by their witness. *)

\* One entry of a sum of naturals is at most the bound of the sum.
LEMMA SumEntry ==
    ASSUME NEW f \in [Calls -> Nat], NEW b \in Int, SumAtMost(f, b), NEW c \in Calls
    PROVE  f[c] <= b
<1>1. PICK ps \in [0 .. NCalls -> 0 .. b] : \A i \in Calls : ps[i - 1] + f[i] <= ps[i]
  BY DEF SumAtMost
<1>2. c \in 0 .. NCalls /\ c - 1 \in 0 .. NCalls
  BY CallsAssumption DEF Calls
<1>3. ps[c] \in 0 .. b /\ ps[c - 1] \in 0 .. b /\ f[c] \in Nat
  BY <1>1, <1>2
<1>4. QED
  BY <1>1, <1>3

\* A bound of a sum of naturals is a natural.
LEMMA SumBoundNat ==
    ASSUME NEW f, NEW b \in Int, SumAtMost(f, b)
    PROVE  b \in Nat
<1>1. PICK ps \in [0 .. NCalls -> 0 .. b] : TRUE
  BY DEF SumAtMost
<1>2. ps[0] \in 0 .. b
  BY <1>1, CallsAssumption
<1>3. QED
  BY <1>2

\* A sum without a term is at most any natural.
LEMMA SumOfNothing ==
    ASSUME NEW f \in [Calls -> Nat], \A c \in Calls : f[c] = 0, NEW b \in Nat
    PROVE  SumAtMost(f, b)
<1> DEFINE ps == [i \in 0 .. NCalls |-> 0]
<1>1. ps \in [0 .. NCalls -> 0 .. b]
  OBVIOUS
<1>2. \A i \in Calls : i \in 0 .. NCalls /\ i - 1 \in 0 .. NCalls
  BY CallsAssumption DEF Calls
<1>3. \A i \in Calls : ps[i - 1] + f[i] <= ps[i]
  BY <1>2
<1>4. \A i, j \in 0 .. NCalls : i <= j => ps[i] <= ps[j]
  OBVIOUS
<1> HIDE DEF ps
<1>5. QED
  BY <1>1, <1>3, <1>4 DEF SumAtMost

\* When one entry of a sum changes, the bound may change by as much.
LEMMA SumShift ==
    ASSUME NEW f \in [Calls -> Nat], NEW g \in [Calls -> Nat],
           NEW a \in Int, NEW b \in Int,
           SumAtMost(f, a), NEW c \in Calls,
           \A d \in Calls \ {c} : g[d] = f[d],
           b >= a + g[c] - f[c]
    PROVE  SumAtMost(g, b)
<1>1. PICK ps \in [0 .. NCalls -> 0 .. a] :
          /\ \A i \in Calls : ps[i - 1] + f[i] <= ps[i]
          /\ \A i, j \in 0 .. NCalls : i <= j => ps[i] <= ps[j]
  BY DEF SumAtMost
<1> DEFINE by == g[c] - f[c]
           qs == [i \in 0 .. NCalls |-> IF i < c THEN ps[i] ELSE ps[i] + by]
<1>2. /\ c \in 1 .. NCalls
      /\ f[c] \in Nat /\ g[c] \in Nat /\ by \in Int
  BY DEF Calls
<1>3. \A i \in 0 .. NCalls : ps[i] \in Nat /\ ps[i] <= a
  BY <1>1
<1>4. /\ c \in 0 .. NCalls /\ c - 1 \in 0 .. NCalls
      /\ ps[c - 1] + f[c] <= ps[c]
  BY <1>1, <1>2, CallsAssumption DEF Calls
<1>5. ASSUME NEW i \in 0 .. NCalls, i < c
      PROVE  qs[i] \in 0 .. b
  <2>0. i <= c - 1
    BY <1>2, <1>5
  <2>1. ps[i] <= ps[c - 1]
    BY <1>1, <1>4, <2>0
  <2>2. ps[i] \in Nat /\ ps[c - 1] \in Nat /\ ps[c] \in Nat /\ ps[c] <= a
    BY <1>3, <1>4
  <2>3. qs[i] = ps[i]
    BY <1>5
  <2>4. QED
    BY <2>1, <2>2, <2>3, <1>2, <1>4
<1>6. ASSUME NEW i \in 0 .. NCalls, ~(i < c)
      PROVE  qs[i] \in 0 .. b
  <2>0. c <= i
    BY <1>2, <1>6
  <2>1. ps[c] <= ps[i]
    BY <1>1, <1>4, <2>0
  <2>2. ps[i] \in Nat /\ ps[c - 1] \in Nat /\ ps[c] \in Nat /\ ps[i] <= a
    BY <1>3, <1>4
  <2>3. qs[i] = ps[i] + by
    BY <1>6
  <2>4. QED
    BY <2>1, <2>2, <2>3, <1>2, <1>4
<1>7. qs \in [0 .. NCalls -> 0 .. b]
  BY <1>5, <1>6
<1>8. ASSUME NEW i \in Calls
      PROVE  qs[i - 1] + g[i] <= qs[i]
  <2>1. i \in 0 .. NCalls /\ i - 1 \in 0 .. NCalls /\ i \in Int /\ c \in Int
    BY CallsAssumption DEF Calls
  <2>2. ps[i - 1] + f[i] <= ps[i] /\ ps[i] \in Nat /\ ps[i - 1] \in Nat /\ f[i] \in Nat
    BY <1>1, <1>3, <2>1
  <2>3. CASE i = c
    BY <2>1, <2>2, <2>3, <1>2
  <2>4. CASE i < c
    BY <2>1, <2>2, <2>4
  <2>5. CASE i > c
    <3>1. ~(i < c) /\ ~(i - 1 < c)
      BY <2>1, <2>5
    <3>2. qs[i - 1] = ps[i - 1] + by /\ qs[i] = ps[i] + by
      BY <2>1, <3>1
    <3>3. g[i] = f[i]
      BY <2>1, <2>5
    <3> HIDE DEF qs, by
    <3>4. QED
      BY <1>2, <2>2, <3>2, <3>3
  <2>6. QED
    BY <2>1, <2>3, <2>4, <2>5
<1>9. ASSUME NEW i \in 0 .. NCalls, NEW j \in 0 .. NCalls, i <= j
      PROVE  qs[i] <= qs[j]
  <2>1. ps[i] <= ps[j] /\ ps[i] \in Nat /\ ps[j] \in Nat /\ i \in Int /\ j \in Int /\ c \in Int
    BY <1>1, <1>2, <1>3, <1>9
  <2>2. CASE i < c /\ ~(j < c)
    <3>0. i <= c - 1 /\ c <= j
      BY <2>1, <2>2
    <3>1. ps[i] <= ps[c - 1] /\ ps[c] <= ps[j] /\ ps[c - 1] \in Nat /\ ps[c] \in Nat
      BY <3>0, <1>1, <1>3, <1>4
    <3>2. QED
      BY <2>1, <2>2, <3>1, <1>2, <1>4
  <2>3. CASE i < c /\ j < c
    BY <2>1, <2>3
  <2>4. CASE ~(i < c)
    BY <2>1, <2>4, <1>2, <1>9
  <2>5. QED
    BY <2>2, <2>3, <2>4
<1>10. QED
  BY <1>7, <1>8, <1>9 DEF SumAtMost
-----------------------------------------------------------------------------
(* The cap. *)

LEMMA DueType ==
    ASSUME TypeOK, NEW k \in Keys
    PROVE  Due(k) \in [Calls -> Nat]
<1>1. \A c \in Calls : res[c] \in Nat /\ eff[c] \in Nat
  BY DEF TypeOK
<1>2. \A c \in Calls : MaxOf(0, res[c] - eff[c]) \in Nat
  BY <1>1, MaxOfNat DEF MaxOf
<1>3. QED
  BY <1>1, <1>2 DEF Due

LEMMA BoundsAreInts ==
    ASSUME TypeOK, NEW k \in Keys
    PROVE  /\ overrun[k] + spent[k] + reserved[k] - ledger[k] \in Int
           /\ MaxOf(Cap[OpOf[k]], PriorSpend[k]) + overrun[k] - ledger[k] \in Int
           /\ MaxOf(Cap[OpOf[k]], PriorSpend[k]) \in Nat
           /\ MaxOf(Cap[OpOf[k]], PriorSpend[k]) >= Cap[OpOf[k]]
           /\ MaxOf(Cap[OpOf[k]], PriorSpend[k]) >= PriorSpend[k]
           /\ Cap[OpOf[k]] \in Nat
<1>1. Cap[OpOf[k]] \in Nat /\ PriorSpend[k] \in Nat
  BY KeysAssumption, MoneyAssumption
<1>2. /\ MaxOf(Cap[OpOf[k]], PriorSpend[k]) \in Nat
      /\ MaxOf(Cap[OpOf[k]], PriorSpend[k]) >= Cap[OpOf[k]]
      /\ MaxOf(Cap[OpOf[k]], PriorSpend[k]) >= PriorSpend[k]
  BY <1>1 DEF MaxOf
<1>3. overrun[k] \in Nat /\ spent[k] \in Nat /\ reserved[k] \in Nat /\ ledger[k] \in Nat
  BY DEF TypeOK
<1>4. QED
  BY <1>1, <1>2, <1>3

LEMMA InitCap == Init => CapInvariant
<1> SUFFICES ASSUME Init
             PROVE  CapInvariant
  OBVIOUS
<1>1. TypeOK
  BY InitType
<1>2. SeededFirst /\ WrittenAfterReturn /\ GateCoversLedger
  BY DEF Init, SeededFirst, WrittenAfterReturn, GateCoversLedger, Outstanding
<1>3. ASSUME NEW k \in Keys
      PROVE  SumAtMost(Due(k), MaxOf(Cap[OpOf[k]], PriorSpend[k]) + overrun[k] - ledger[k])
  <2>1. \A c \in Calls : Due(k)[c] = 0
    BY DEF Init, Due, Outstanding
  <2>2. MaxOf(Cap[OpOf[k]], PriorSpend[k]) + overrun[k] - ledger[k] \in Nat
    <3>1. overrun[k] = 0 /\ ledger[k] = PriorSpend[k] /\ PriorSpend[k] \in Nat
      BY MoneyAssumption DEF Init
    <3>2. QED
      BY <1>1, <3>1, BoundsAreInts
  <2>3. QED
    BY <1>1, <2>1, <2>2, DueType, SumOfNothing
<1>4. QED
  BY <1>1, <1>2, <1>3 DEF CapInvariant, CapCoversLedger

\* A step that leaves every amount alone, and what is due, keeps both covers.
LEMMA QuietStep ==
    ASSUME CapInvariant,
           UNCHANGED <<spent, reserved, seeded, ledger, overrun>>,
           \A k \in Keys : OpOf[k] \in Budgeted => Due(k)' = Due(k)
    PROVE  GateCoversLedger' /\ CapCoversLedger'
<1>1. \A k \in seeded : k \in Keys /\ OpOf[k] \in Budgeted
  BY DEF CapInvariant, TypeOK, SeededFirst
<1>2. GateCoversLedger'
  <2> SUFFICES ASSUME NEW k \in seeded'
               PROVE  SumAtMost(Due(k)', overrun'[k] + spent'[k] + reserved'[k] - ledger'[k])
    BY DEF GateCoversLedger
  <2>1. k \in seeded /\ SumAtMost(Due(k), overrun[k] + spent[k] + reserved[k] - ledger[k])
    BY DEF CapInvariant, GateCoversLedger
  <2>2. QED
    BY <1>1, <2>1
<1>3. CapCoversLedger'
  <2> SUFFICES ASSUME NEW k \in Keys, OpOf[k] \in Budgeted
               PROVE  SumAtMost(Due(k)', MaxOf(Cap[OpOf[k]], PriorSpend[k]) + overrun'[k] - ledger'[k])
    BY DEF CapCoversLedger
  <2>1. SumAtMost(Due(k), MaxOf(Cap[OpOf[k]], PriorSpend[k]) + overrun[k] - ledger[k])
    BY DEF CapInvariant, CapCoversLedger
  <2>2. QED
    BY <2>1
<1>4. QED
  BY <1>2, <1>3
\* The decision of check() reserves what it admits: if the spend it read covers
\* the ledger and what is due, so does the spend with the new reservation, and
\* the cap covers them too.
LEMMA AdmitCovers ==
    ASSUME CapInvariant, NEW c \in Calls, Op(c) \in Budgeted,
           pc[c] \in {"idle", "seeding"},
           NEW s \in Nat, Admit(c, s),
           UNCHANGED <<eff, written, ledger, overrun>>,
           SumAtMost(Due(KeyOf[c]),
                     overrun[KeyOf[c]] + s + reserved[KeyOf[c]] - ledger[KeyOf[c]])
    PROVE  /\ SumAtMost(Due(KeyOf[c])',
                        overrun[KeyOf[c]] + s + reserved'[KeyOf[c]] - ledger[KeyOf[c]])
           /\ SumAtMost(Due(KeyOf[c])',
                        MaxOf(Cap[OpOf[KeyOf[c]]], PriorSpend[KeyOf[c]])
                            + overrun[KeyOf[c]] - ledger[KeyOf[c]])
           /\ \A k \in Keys \ {KeyOf[c]} :
                 Due(k)' = Due(k) /\ reserved'[k] = reserved[k]
<1> DEFINE k == KeyOf[c]
           p == Projected(Op(c))
           top == MaxOf(Cap[OpOf[k]], PriorSpend[k])
<1>1. TypeOK /\ k \in Keys /\ Op(c) = OpOf[k] /\ Op(c) \in Ops
  BY KeysAssumption DEF CapInvariant, Op
<1>2. /\ overrun[k] \in Nat /\ reserved[k] \in Nat /\ ledger[k] \in Nat
      /\ p \in Nat /\ top \in Nat /\ Cap[OpOf[k]] \in Nat /\ top >= Cap[OpOf[k]]
  BY <1>1, ProjectedNat, BoundsAreInts DEF TypeOK
<1>3. c \notin written /\ ~Outstanding(c)
  BY DEF CapInvariant, WrittenAfterReturn, Outstanding
<1>4. \A d \in Calls \ {c} : Outstanding(d)' = Outstanding(d) /\ res'[d] = res[d]
  BY <1>1 DEF Admit, Decide, Outstanding, TypeOK
<1>5. \A j \in Keys \ {k} : Due(j)' = Due(j) /\ reserved'[j] = reserved[j]
  <2> SUFFICES ASSUME NEW j \in Keys \ {k}
               PROVE  Due(j)' = Due(j) /\ reserved'[j] = reserved[j]
    OBVIOUS
  <2>1. reserved'[j] = reserved[j]
    BY <1>1 DEF Admit, Decide, TypeOK
  <2>2. \A d \in Calls : KeyOf[d] = j => d # c
    OBVIOUS
  <2>3. QED
    BY <1>4, <2>1, <2>2 DEF Due
<1>6. CASE s + reserved[k] + p > Cap[OpOf[k]]
  <2>1. ~Outstanding(c)' /\ reserved' = reserved
    BY <1>1, <1>6 DEF Admit, Decide, Outstanding, TypeOK
  <2>2. Due(k)' = Due(k)
    BY <1>3, <1>4, <2>1 DEF Due
  <2>3. SumAtMost(Due(k), top + overrun[k] - ledger[k])
    BY <1>1 DEF CapInvariant, CapCoversLedger
  <2>4. QED
    BY <1>5, <2>1, <2>2, <2>3
<1>7. CASE ~(s + reserved[k] + p > Cap[OpOf[k]])
  <2>1. Outstanding(c)' /\ reserved'[k] = reserved[k] + p /\ res'[c] = p
    BY <1>1, <1>7 DEF Admit, Decide, Outstanding, TypeOK
  <2>2. Due(k) \in [Calls -> Nat] /\ Due(k)[c] = 0
    BY <1>1, <1>3, DueType DEF Due
  <2>3. /\ Due(k)' \in [Calls -> Nat]
        /\ Due(k)'[c] = p
        /\ \A d \in Calls \ {c} : Due(k)'[d] = Due(k)[d]
    <3>1. Due(k)' = [d \in Calls |-> IF d = c THEN p ELSE Due(k)[d]]
      BY <1>3, <1>4, <2>1 DEF Due
    <3>2. QED
      BY <1>2, <2>2, <3>1
  <2>4. SumAtMost(Due(k)', overrun[k] + s + reserved'[k] - ledger[k])
    <3> DEFINE a == overrun[k] + s + reserved[k] - ledger[k]
               b == overrun[k] + s + reserved'[k] - ledger[k]
    <3>1. a \in Int /\ b \in Int /\ b >= a + p - 0
      BY <1>2, <2>1
    <3>2. SumAtMost(Due(k), a)
      OBVIOUS
    <3> HIDE DEF a, b, k, p
    <3>3. SumAtMost(Due(k)', b)
      BY <2>2, <2>3, <3>1, <3>2, SumShift
    <3>4. QED
      BY <3>3 DEF b
  <2>5. SumAtMost(Due(k)', top + overrun[k] - ledger[k])
    <3> DEFINE a == overrun[k] + s + reserved[k] - ledger[k]
               b == top + overrun[k] - ledger[k]
    <3>1. a \in Int /\ b \in Int /\ b >= a + p - 0
      BY <1>2, <1>7
    <3>2. SumAtMost(Due(k), a)
      OBVIOUS
    <3> HIDE DEF a, b, k, p
    <3>3. SumAtMost(Due(k)', b)
      BY <2>2, <2>3, <3>1, <3>2, SumShift
    <3>4. QED
      BY <3>3 DEF b
  <2>6. QED
    BY <1>5, <2>4, <2>5
<1>8. QED
  BY <1>6, <1>7
\* A step of one call that leaves every amount alone and does not change whether
\* a budgeted call is outstanding keeps both covers.
LEMMA CallMoves ==
    ASSUME CapInvariant, NEW c \in Calls,
           UNCHANGED <<spent, reserved, seeded, ledger, overrun, res, written>>,
           \A d \in Calls \ {c} : pc'[d] = pc[d] /\ eff'[d] = eff[d],
           Op(c) \in Budgeted => Outstanding(c)' = Outstanding(c),
           eff'[c] = eff[c] \/ c \notin written
    PROVE  GateCoversLedger' /\ CapCoversLedger'
<1>1. ASSUME NEW k \in Keys, OpOf[k] \in Budgeted
      PROVE  Due(k)' = Due(k)
  <2>1. \A d \in Calls : KeyOf[d] = k => Outstanding(d)' = Outstanding(d)
    BY <1>1 DEF Outstanding, Op
  <2>2. \A d \in written : eff'[d] = eff[d]
    BY DEF CapInvariant, TypeOK
  <2>3. QED
    BY <2>1, <2>2 DEF Due
<1>2. QED
  BY <1>1, QuietStep

LEMMA StepSeededFirst ==
    ASSUME CapInvariant, [Next]_vars
    PROVE  SeededFirst' /\ WrittenAfterReturn'
<1> USE DEF CapInvariant, TypeOK, SeededFirst, WrittenAfterReturn, Outstanding, Op
<1>0. ASSUME NEW c \in Calls, Admit(c, spent[KeyOf[c]]) \/ Admit(c, ledger[KeyOf[c]])
      PROVE  pc'[c] \in {"skipped", "admitted"} /\ \A d \in Calls \ {c} : pc'[d] = pc[d]
  BY <1>0 DEF Admit, Decide
<1>1. ASSUME NEW c \in Calls, CheckUnbudgeted(c)
      PROVE  SeededFirst' /\ WrittenAfterReturn'
  BY <1>1 DEF CheckUnbudgeted, gateVars, storeVars
<1>2. ASSUME NEW c \in Calls, CheckSeeded(c)
      PROVE  SeededFirst' /\ WrittenAfterReturn'
  BY <1>0, <1>2 DEF CheckSeeded, storeVars
<1>3. ASSUME NEW c \in Calls, BeginSeed(c)
      PROVE  SeededFirst' /\ WrittenAfterReturn'
  BY <1>3 DEF BeginSeed, storeVars
<1>4. ASSUME NEW c \in Calls, FinishSeed(c)
      PROVE  SeededFirst' /\ WrittenAfterReturn'
  <2>1. \A d \in Calls \ {c} : pc[d] # "seeding"
    BY <1>4 DEF FinishSeed, SeedWith
  <2>2. /\ pc'[c] \in {"skipped", "admitted"}
        /\ \A d \in Calls \ {c} : pc'[d] = pc[d]
        /\ seeded' = seeded \cup {KeyOf[c]}
        /\ pc[c] = "seeding"
        /\ written' = written
    BY <1>0, <1>4 DEF FinishSeed, SeedWith, storeVars
  <2>3. WrittenAfterReturn'
    BY <2>2
  <2>4. \A k \in seeded' : OpOf[k] \in Budgeted
    BY <2>2
  <2>5. \A d \in Calls : pc'[d] # "seeding"
    BY <2>1, <2>2
  <2>6. \A d \in Calls : Outstanding(d)' /\ Op(d) \in Budgeted => KeyOf[d] \in seeded'
    BY <2>2
  <2>7. QED
    BY <2>3, <2>4, <2>5, <2>6
<1>5. ASSUME NEW c \in Calls, SeedRaises(c)
      PROVE  SeededFirst' /\ WrittenAfterReturn'
  BY <1>5 DEF SeedRaises, storeVars
<1>6. ASSUME NEW c \in Calls, AbortBeforeCall(c)
      PROVE  SeededFirst' /\ WrittenAfterReturn'
  BY <1>6 DEF AbortBeforeCall, gateVars, storeVars
<1>7. ASSUME NEW c \in Calls, CallReturns(c)
      PROVE  SeededFirst' /\ WrittenAfterReturn'
  BY <1>7 DEF CallReturns, gateVars, storeVars
<1>8. ASSUME NEW c \in Calls, RowWritten(c)
      PROVE  SeededFirst' /\ WrittenAfterReturn'
  BY <1>8 DEF RowWritten, gateVars, callVars
<1>9. ASSUME NEW c \in Calls, RecordCost(c)
      PROVE  SeededFirst' /\ WrittenAfterReturn'
  BY <1>9 DEF RecordCost, Reconcile, storeVars
<1>10. ASSUME NEW c \in Calls, RecordCallRaises(c)
       PROVE  SeededFirst' /\ WrittenAfterReturn'
  BY <1>10 DEF RecordCallRaises, gateVars, storeVars
<1>11. CASE Restart
  BY <1>11 DEF Restart, storeVars
<1>12. CASE UNCHANGED vars
  BY <1>12 DEF vars, gateVars, callVars, storeVars
<1>13. QED
  BY <1>1, <1>2, <1>3, <1>4, <1>5, <1>6, <1>7, <1>8, <1>9, <1>10, <1>11, <1>12 DEF Next, Step, Proceed, Raise
LEMMA CheckSeededCovers ==
    ASSUME CapInvariant, NEW c \in Calls, CheckSeeded(c)
    PROVE  GateCoversLedger' /\ CapCoversLedger'
<1> DEFINE k == KeyOf[c]
<1>1. /\ pc[c] = "idle" /\ Op(c) \in Budgeted /\ k \in seeded /\ k \in Keys
      /\ Admit(c, spent[k]) /\ spent[k] \in Nat
      /\ UNCHANGED <<spent, seeded, eff, written, ledger, overrun>>
  BY KeysAssumption DEF CheckSeeded, storeVars, CapInvariant, TypeOK
<1>2. SumAtMost(Due(k), overrun[k] + spent[k] + reserved[k] - ledger[k])
  BY <1>1 DEF CapInvariant, GateCoversLedger
<1>3. /\ SumAtMost(Due(k)', overrun[k] + spent[k] + reserved'[k] - ledger[k])
      /\ SumAtMost(Due(k)', MaxOf(Cap[OpOf[k]], PriorSpend[k]) + overrun[k] - ledger[k])
      /\ \A j \in Keys \ {k} : Due(j)' = Due(j) /\ reserved'[j] = reserved[j]
  BY <1>1, <1>2, AdmitCovers
<1>4. GateCoversLedger'
  <2> SUFFICES ASSUME NEW j \in seeded'
               PROVE  SumAtMost(Due(j)', overrun'[j] + spent'[j] + reserved'[j] - ledger'[j])
    BY DEF GateCoversLedger
  <2>1. j \in seeded /\ j \in Keys
    BY <1>1 DEF CapInvariant, TypeOK
  <2>2. CASE j = k
    BY <1>1, <1>3, <2>2
  <2>3. CASE j # k
    BY <1>1, <1>3, <2>1, <2>3 DEF CapInvariant, GateCoversLedger
  <2>4. QED
    BY <2>2, <2>3
<1>5. CapCoversLedger'
  <2> SUFFICES ASSUME NEW j \in Keys, OpOf[j] \in Budgeted
               PROVE  SumAtMost(Due(j)', MaxOf(Cap[OpOf[j]], PriorSpend[j]) + overrun'[j] - ledger'[j])
    BY DEF CapCoversLedger
  <2>1. CASE j = k
    BY <1>1, <1>3, <2>1
  <2>2. CASE j # k
    BY <1>1, <1>3, <2>2 DEF CapInvariant, CapCoversLedger
  <2>3. QED
    BY <2>1, <2>2
<1>6. QED
  BY <1>4, <1>5

LEMMA FinishSeedCovers ==
    ASSUME CapInvariant, NEW c \in Calls, FinishSeed(c)
    PROVE  GateCoversLedger' /\ CapCoversLedger'
<1> DEFINE k == KeyOf[c]
<1>1. /\ pc[c] = "seeding" /\ Op(c) \in Budgeted /\ k \notin seeded /\ k \in Keys
      /\ Admit(c, ledger[k])
      /\ spent' = [spent EXCEPT ![k] = ledger[k]]
      /\ seeded' = seeded \cup {k}
      /\ UNCHANGED <<eff, written, ledger, overrun>>
  BY KeysAssumption DEF FinishSeed, SeedWith, storeVars, CapInvariant, SeededFirst
<1>2. /\ TypeOK
      /\ ledger[k] \in Nat /\ overrun[k] \in Nat /\ reserved[k] \in Nat
      /\ spent'[k] = ledger[k]
      /\ \A j \in Keys \ {k} : spent'[j] = spent[j]
  BY <1>1 DEF CapInvariant, TypeOK
<1>3. SumAtMost(Due(k), overrun[k] + ledger[k] + reserved[k] - ledger[k])
  <2>1. \A d \in Calls : Due(k)[d] = 0
    BY <1>1 DEF CapInvariant, SeededFirst, Due, Op
  <2>2. overrun[k] + ledger[k] + reserved[k] - ledger[k] \in Nat
    BY <1>2
  <2>3. QED
    BY <1>1, <1>2, <2>1, <2>2, DueType, SumOfNothing
<1>4. /\ SumAtMost(Due(k)', overrun[k] + ledger[k] + reserved'[k] - ledger[k])
      /\ SumAtMost(Due(k)', MaxOf(Cap[OpOf[k]], PriorSpend[k]) + overrun[k] - ledger[k])
      /\ \A j \in Keys \ {k} : Due(j)' = Due(j) /\ reserved'[j] = reserved[j]
  BY <1>1, <1>2, <1>3, AdmitCovers
<1>5. GateCoversLedger'
  <2> SUFFICES ASSUME NEW j \in seeded'
               PROVE  SumAtMost(Due(j)', overrun'[j] + spent'[j] + reserved'[j] - ledger'[j])
    BY DEF GateCoversLedger
  <2>1. CASE j = k
    BY <1>1, <1>2, <1>4, <2>1
  <2>2. CASE j # k
    <3>1. j \in seeded /\ j \in Keys
      BY <1>1, <2>2 DEF CapInvariant, TypeOK
    <3>2. QED
      BY <1>1, <1>2, <1>4, <2>2, <3>1 DEF CapInvariant, GateCoversLedger
  <2>3. QED
    BY <2>1, <2>2
<1>6. CapCoversLedger'
  <2> SUFFICES ASSUME NEW j \in Keys, OpOf[j] \in Budgeted
               PROVE  SumAtMost(Due(j)', MaxOf(Cap[OpOf[j]], PriorSpend[j]) + overrun'[j] - ledger'[j])
    BY DEF CapCoversLedger
  <2>1. CASE j = k
    BY <1>1, <1>4, <2>1
  <2>2. CASE j # k
    BY <1>1, <1>4, <2>2 DEF CapInvariant, CapCoversLedger
  <2>3. QED
    BY <2>1, <2>2
<1>7. QED
  BY <1>5, <1>6

LEMMA RowWrittenCovers ==
    ASSUME CapInvariant, NEW c \in Calls, RowWritten(c)
    PROVE  GateCoversLedger' /\ CapCoversLedger'
<1> DEFINE k == KeyOf[c]
           over == MaxOf(0, eff[c] - res[c])
           left == MaxOf(0, res[c] - eff[c])
<1>1. TypeOK /\ k \in Keys /\ pc[c] = "returned" /\ c \notin written /\ written' = written \cup {c}
  BY KeysAssumption DEF CapInvariant, RowWritten
<1>2. PICK old \in Nat : old <= ledger[k] /\ ledger' = [ledger EXCEPT ![k] = @ - old + eff[c]]
  BY MoneyAssumption DEF RowWritten
<1>3. /\ UNCHANGED <<spent, reserved, seeded, pc, res, eff>>
      /\ overrun' = [overrun EXCEPT ![k] = @ + over]
  BY DEF RowWritten, gateVars, callVars
<1>4. /\ res[c] \in Nat /\ eff[c] \in Nat /\ ledger[k] \in Nat /\ overrun[k] \in Nat
      /\ spent[k] \in Nat /\ reserved[k] \in Nat
      /\ ledger'[k] = ledger[k] - old + eff[c]
      /\ overrun'[k] = overrun[k] + over
  BY <1>1, <1>2, <1>3 DEF TypeOK
<1>5. left \in Nat /\ over \in Nat /\ over - eff[c] = left - res[c]
  BY <1>4 DEF MaxOf
<1>6. \A j \in Keys \ {k} : Due(j)' = Due(j) /\ ledger'[j] = ledger[j] /\ overrun'[j] = overrun[j]
  <2> SUFFICES ASSUME NEW j \in Keys \ {k}
               PROVE  Due(j)' = Due(j) /\ ledger'[j] = ledger[j] /\ overrun'[j] = overrun[j]
    OBVIOUS
  <2>1. \A d \in Calls : KeyOf[d] = j => d # c
    OBVIOUS
  <2>2. QED
    BY <1>1, <1>2, <1>3, <2>1 DEF Due, Outstanding, TypeOK
<1>7. /\ Due(k) \in [Calls -> Nat] /\ Due(k)[c] = res[c]
      /\ Due(k)' = [d \in Calls |-> IF d = c THEN left ELSE Due(k)[d]]
  <2>1. Due(k) \in [Calls -> Nat] /\ Due(k)[c] = res[c]
    BY <1>1, DueType DEF Due, Outstanding
  <2>2. Due(k)' = [d \in Calls |-> IF d = c THEN left ELSE Due(k)[d]]
    BY <1>1, <1>3 DEF Due, Outstanding
  <2>3. QED
    BY <2>1, <2>2
<1>8. ASSUME NEW a \in Int, NEW b \in Int, SumAtMost(Due(k), a), b >= a + over - eff[c]
      PROVE  SumAtMost(Due(k)', b)
  <2>1. /\ Due(k)' \in [Calls -> Nat]
        /\ Due(k)'[c] = left
        /\ \A d \in Calls \ {c} : Due(k)'[d] = Due(k)[d]
    BY <1>5, <1>7
  <2>2. b >= a + left - res[c]
    BY <1>4, <1>5, <1>8
  <2> HIDE DEF k, left, over
  <2>3. QED
    BY <1>7, <1>8, <2>1, <2>2, SumShift
<1>9. GateCoversLedger'
  <2> SUFFICES ASSUME NEW j \in seeded'
               PROVE  SumAtMost(Due(j)', overrun'[j] + spent'[j] + reserved'[j] - ledger'[j])
    BY DEF GateCoversLedger
  <2>1. j \in seeded /\ j \in Keys
    BY <1>1, <1>3 DEF TypeOK
  <2>2. SumAtMost(Due(j), overrun[j] + spent[j] + reserved[j] - ledger[j])
    BY <2>1 DEF CapInvariant, GateCoversLedger
  <2>3. CASE j = k
    <3> DEFINE a == overrun[k] + spent[k] + reserved[k] - ledger[k]
               b == overrun'[k] + spent'[k] + reserved'[k] - ledger'[k]
    <3>1. a \in Int /\ b \in Int /\ b >= a + over - eff[c]
      BY <1>2, <1>3, <1>4, <1>5
    <3>2. SumAtMost(Due(k), a)
      BY <2>2, <2>3
    <3> HIDE DEF a, b, k, over
    <3>3. SumAtMost(Due(k)', b)
      BY <1>8, <3>1, <3>2
    <3>4. QED
      BY <2>3, <3>3 DEF b
  <2>4. CASE j # k
    BY <1>3, <1>6, <2>1, <2>2, <2>4
  <2>5. QED
    BY <2>3, <2>4
<1>10. CapCoversLedger'
  <2> SUFFICES ASSUME NEW j \in Keys, OpOf[j] \in Budgeted
               PROVE  SumAtMost(Due(j)', MaxOf(Cap[OpOf[j]], PriorSpend[j]) + overrun'[j] - ledger'[j])
    BY DEF CapCoversLedger
  <2>1. SumAtMost(Due(j), MaxOf(Cap[OpOf[j]], PriorSpend[j]) + overrun[j] - ledger[j])
    BY DEF CapInvariant, CapCoversLedger
  <2>2. CASE j = k
    <3> DEFINE top == MaxOf(Cap[OpOf[k]], PriorSpend[k])
               a == top + overrun[k] - ledger[k]
               b == top + overrun'[k] - ledger'[k]
    <3>0. top \in Nat
      BY <1>1, BoundsAreInts
    <3>1. a \in Int /\ b \in Int /\ b >= a + over - eff[c]
      <4> HIDE DEF top, over
      <4>1. QED
        BY <1>2, <1>3, <1>4, <1>5, <3>0
    <3>2. SumAtMost(Due(k), a)
      BY <2>1, <2>2
    <3> HIDE DEF a, b, k, over
    <3>3. SumAtMost(Due(k)', b)
      BY <1>8, <3>1, <3>2
    <3>4. QED
      BY <2>2, <3>3 DEF b
  <2>3. CASE j # k
    BY <1>6, <2>1, <2>3
  <2>4. QED
    BY <2>2, <2>3
<1>11. QED
  BY <1>9, <1>10
LEMMA RecordCostCovers ==
    ASSUME CapInvariant, NEW c \in Calls, RecordCost(c)
    PROVE  GateCoversLedger' /\ CapCoversLedger'
<1> DEFINE k == KeyOf[c]
           left == MaxOf(0, res[c] - eff[c])
<1>1. /\ TypeOK /\ k \in Keys /\ pc[c] = "returned" /\ c \in written
      /\ pc' = [pc EXCEPT ![c] = "recorded"]
      /\ spent' = [spent EXCEPT ![k] = @ + eff[c]]
      /\ reserved' = [reserved EXCEPT ![k] = MaxOf(0, @ - res[c])]
      /\ UNCHANGED <<seeded, res, eff, written, ledger, overrun>>
  BY KeysAssumption DEF CapInvariant, RecordCost, Reconcile, storeVars
<1>2. /\ res[c] \in Nat /\ eff[c] \in Nat /\ ledger[k] \in Nat /\ overrun[k] \in Nat
      /\ spent[k] \in Nat /\ reserved[k] \in Nat
      /\ spent'[k] = spent[k] + eff[c]
      /\ reserved'[k] \in Nat /\ reserved'[k] >= reserved[k] - res[c]
  BY <1>1 DEF TypeOK, MaxOf
<1>3. left \in Nat /\ left >= res[c] - eff[c]
  BY <1>2 DEF MaxOf
<1>4. \A j \in Keys \ {k} : Due(j)' = Due(j) /\ spent'[j] = spent[j] /\ reserved'[j] = reserved[j]
  <2> SUFFICES ASSUME NEW j \in Keys \ {k}
               PROVE  Due(j)' = Due(j) /\ spent'[j] = spent[j] /\ reserved'[j] = reserved[j]
    OBVIOUS
  <2>1. \A d \in Calls : KeyOf[d] = j => d # c
    OBVIOUS
  <2>2. \A d \in Calls \ {c} : Outstanding(d)' = Outstanding(d)
    BY <1>1 DEF Outstanding, TypeOK
  <2>3. QED
    BY <1>1, <2>1, <2>2 DEF Due, TypeOK
<1>5. Due(k) \in [Calls -> Nat] /\ Due(k)[c] = left
  BY <1>1, DueType DEF Due, Outstanding
<1>6. /\ Due(k)' \in [Calls -> Nat] /\ Due(k)'[c] = 0
      /\ \A d \in Calls \ {c} : Due(k)'[d] = Due(k)[d]
  <2>1. Due(k)' = [d \in Calls |-> IF d = c THEN 0 ELSE Due(k)[d]]
    BY <1>1 DEF Due, Outstanding, TypeOK
  <2>2. QED
    BY <1>5, <2>1
<1>7. ASSUME NEW a \in Int, NEW b \in Int, SumAtMost(Due(k), a), b >= a - left
      PROVE  SumAtMost(Due(k)', b)
  <2>1. b >= a + 0 - left
    BY <1>3, <1>7
  <2> HIDE DEF k, left
  <2>2. QED
    BY <1>5, <1>6, <1>7, <2>1, SumShift
<1>8. GateCoversLedger'
  <2> SUFFICES ASSUME NEW j \in seeded'
               PROVE  SumAtMost(Due(j)', overrun'[j] + spent'[j] + reserved'[j] - ledger'[j])
    BY DEF GateCoversLedger
  <2>1. j \in seeded /\ j \in Keys
    BY <1>1 DEF TypeOK
  <2>2. SumAtMost(Due(j), overrun[j] + spent[j] + reserved[j] - ledger[j])
    BY <2>1 DEF CapInvariant, GateCoversLedger
  <2>3. CASE j = k
    <3> DEFINE a == overrun[k] + spent[k] + reserved[k] - ledger[k]
               b == overrun'[k] + spent'[k] + reserved'[k] - ledger'[k]
    <3>1. a \in Int /\ b \in Int /\ b >= a - left
      <4> HIDE DEF left
      <4>1. overrun'[k] = overrun[k] /\ ledger'[k] = ledger[k]
        BY <1>1
      <4>2. QED
        BY <1>2, <1>3, <4>1
    <3>2. SumAtMost(Due(k), a)
      BY <2>2, <2>3
    <3> HIDE DEF a, b, k, left
    <3>3. SumAtMost(Due(k)', b)
      BY <1>7, <3>1, <3>2
    <3>4. QED
      BY <2>3, <3>3 DEF b
  <2>4. CASE j # k
    BY <1>1, <1>4, <2>1, <2>2, <2>4
  <2>5. QED
    BY <2>3, <2>4
<1>9. CapCoversLedger'
  <2> SUFFICES ASSUME NEW j \in Keys, OpOf[j] \in Budgeted
               PROVE  SumAtMost(Due(j)', MaxOf(Cap[OpOf[j]], PriorSpend[j]) + overrun'[j] - ledger'[j])
    BY DEF CapCoversLedger
  <2> DEFINE a == MaxOf(Cap[OpOf[j]], PriorSpend[j]) + overrun[j] - ledger[j]
  <2>1. SumAtMost(Due(j), a) /\ a \in Int
    BY <1>1, BoundsAreInts DEF CapInvariant, CapCoversLedger
  <2>2. CASE j = k
    <3>1. a >= a - left
      <4> HIDE DEF left, a
      <4>1. QED
        BY <1>3, <2>1
    <3> HIDE DEF a, k, left
    <3>2. SumAtMost(Due(k)', a)
      BY <1>7, <2>1, <2>2, <3>1
    <3>3. QED
      BY <1>1, <2>2, <3>2 DEF a
  <2>3. CASE j # k
    BY <1>1, <1>4, <2>1, <2>3
  <2>4. QED
    BY <2>2, <2>3
<1>10. QED
  BY <1>8, <1>9

LEMMA RestartCovers ==
    ASSUME CapInvariant, Restart, TypeOK'
    PROVE  GateCoversLedger' /\ CapCoversLedger'
<1>1. seeded' = {} /\ \A c \in Calls : ~Outstanding(c)'
  BY DEF Restart, Outstanding
<1>2. GateCoversLedger'
  BY <1>1 DEF GateCoversLedger
<1>3. CapCoversLedger'
  <2> SUFFICES ASSUME NEW j \in Keys, OpOf[j] \in Budgeted
               PROVE  SumAtMost(Due(j)', MaxOf(Cap[OpOf[j]], PriorSpend[j]) + overrun'[j] - ledger'[j])
    BY DEF CapCoversLedger
  <2> DEFINE a == MaxOf(Cap[OpOf[j]], PriorSpend[j]) + overrun[j] - ledger[j]
  <2>1. SumAtMost(Due(j), a) /\ a \in Int
    BY BoundsAreInts DEF CapInvariant, CapCoversLedger
  <2>2. a \in Nat
    <3> HIDE DEF a
    <3>1. QED
      BY <2>1, SumBoundNat
  <2>3. Due(j)' = [c \in Calls |-> 0]
    BY <1>1 DEF Due
  <2>4. UNCHANGED <<overrun, ledger>>
    BY DEF Restart, storeVars
  <2>5. SumAtMost(Due(j)', a)
    <3> HIDE DEF a
    <3>1. QED
      BY <2>2, <2>3, SumOfNothing
  <2>6. QED
    BY <2>4, <2>5
<1>4. QED
  BY <1>2, <1>3

LEMMA StepCap ==
    ASSUME CapInvariant, [Next]_vars
    PROVE  CapInvariant'
<1>1. TypeOK' /\ SeededFirst' /\ WrittenAfterReturn'
  BY StepType, StepSeededFirst DEF CapInvariant
<1>2. TypeOK /\ SeededFirst /\ WrittenAfterReturn
  BY DEF CapInvariant
<1>3. GateCoversLedger' /\ CapCoversLedger'
  <2> USE DEF gateVars, callVars, storeVars
  <2>1. ASSUME NEW c \in Calls, CheckUnbudgeted(c)
        PROVE  GateCoversLedger' /\ CapCoversLedger'
    BY <1>2, <2>1, CallMoves DEF CheckUnbudgeted, TypeOK
  <2>2. ASSUME NEW c \in Calls, CheckSeeded(c)
        PROVE  GateCoversLedger' /\ CapCoversLedger'
    BY <2>2, CheckSeededCovers
  <2>3. ASSUME NEW c \in Calls, BeginSeed(c)
        PROVE  GateCoversLedger' /\ CapCoversLedger'
    BY <1>2, <2>3, CallMoves DEF BeginSeed, TypeOK, Outstanding
  <2>4. ASSUME NEW c \in Calls, FinishSeed(c)
        PROVE  GateCoversLedger' /\ CapCoversLedger'
    BY <2>4, FinishSeedCovers
  <2>5. ASSUME NEW c \in Calls, SeedRaises(c)
        PROVE  GateCoversLedger' /\ CapCoversLedger'
    BY <1>2, <2>5, CallMoves DEF SeedRaises, TypeOK, Outstanding
  <2>6. ASSUME NEW c \in Calls, AbortBeforeCall(c)
        PROVE  GateCoversLedger' /\ CapCoversLedger'
    BY <1>2, <2>6, CallMoves DEF AbortBeforeCall, TypeOK, Outstanding
  <2>7. ASSUME NEW c \in Calls, CallReturns(c)
        PROVE  GateCoversLedger' /\ CapCoversLedger'
    <3>1. c \notin written
      BY <1>2, <2>7 DEF CallReturns, WrittenAfterReturn
    <3>2. \A d \in Calls \ {c} : pc'[d] = pc[d] /\ eff'[d] = eff[d]
      BY <1>2, <2>7 DEF CallReturns, TypeOK
    <3>3. Outstanding(c)' = Outstanding(c)
      BY <1>2, <2>7 DEF CallReturns, TypeOK, Outstanding
    <3>4. UNCHANGED <<spent, reserved, seeded, ledger, overrun, res, written>>
      BY <2>7 DEF CallReturns
    <3>5. QED
      BY <3>1, <3>2, <3>3, <3>4, CallMoves
  <2>8. ASSUME NEW c \in Calls, RowWritten(c)
        PROVE  GateCoversLedger' /\ CapCoversLedger'
    BY <2>8, RowWrittenCovers
  <2>9. ASSUME NEW c \in Calls, RecordCost(c)
        PROVE  GateCoversLedger' /\ CapCoversLedger'
    BY <2>9, RecordCostCovers
  <2>10. ASSUME NEW c \in Calls, RecordCallRaises(c)
         PROVE  GateCoversLedger' /\ CapCoversLedger'
    BY <1>2, <2>10, CallMoves DEF RecordCallRaises, TypeOK, Outstanding
  <2>11. CASE Restart
    BY <1>1, <2>11, RestartCovers
  <2>12. CASE UNCHANGED vars
    <3>1. \A k \in Keys : Due(k)' = Due(k)
      BY <2>12 DEF vars, Due, Outstanding
    <3>2. QED
      BY <2>12, <3>1, QuietStep DEF vars
  <2>13. QED
    BY <2>1, <2>2, <2>3, <2>4, <2>5, <2>6, <2>7, <2>8, <2>9, <2>10, <2>11, <2>12 DEF Next, Step, Proceed, Raise
<1>4. QED
  BY <1>1, <1>3 DEF CapInvariant

LEMMA CapInvariantHolds == Spec => []CapInvariant
<1>1. CapInvariant /\ [Next]_vars => CapInvariant'
  BY StepCap
<1>2. QED
  BY InitCap, <1>1, PTL DEF Spec

\* For any number of concurrent calls and any schedule, with any number of
\* restarts, the spend storage records under a budgeted key stays within the cap
\* but for what single calls cost beyond their projection (budget.py:57-146).
THEOREM CapHolds == Spec => []LedgerWithinCap
<1>1. CapInvariant => LedgerWithinCap
  <2> SUFFICES ASSUME CapInvariant, NEW k \in Keys, OpOf[k] \in Budgeted
               PROVE  ledger[k] <= MaxOf(Cap[OpOf[k]], PriorSpend[k]) + overrun[k]
    BY DEF LedgerWithinCap
  <2> DEFINE top == MaxOf(Cap[OpOf[k]], PriorSpend[k])
             a == top + overrun[k] - ledger[k]
  <2>1. SumAtMost(Due(k), a)
    BY DEF CapInvariant, CapCoversLedger
  <2>2. TypeOK /\ top \in Nat /\ overrun[k] \in Nat /\ ledger[k] \in Nat
    BY BoundsAreInts DEF CapInvariant, TypeOK
  <2> HIDE DEF top
  <2>3. a \in Int
    BY <2>2
  <2>4. a \in Nat
    <3> HIDE DEF a
    <3>1. QED
      BY <2>1, <2>3, SumBoundNat
  <2>5. QED
    BY <2>2, <2>4 DEF top
<1>2. QED
  BY CapInvariantHolds, <1>1, PTL
-----------------------------------------------------------------------------
(* The gate's books: what is reserved, spent and stored under a key, each     *)
(* against the calls it stands for.                                           *)

\* The calls whose reservation stands, the rows the gate has yet to hear of, the
\* calls billed and not yet recorded, and those of them without a row.
Held(k) == {c \in Calls : KeyOf[c] = k /\ Outstanding(c)}
Unheard(k) == {c \in written : KeyOf[c] = k /\ Outstanding(c)}
Billed(k) == {c \in Calls : KeyOf[c] = k /\ pc[c] = "returned"}
Rowless(k) == {c \in Calls : KeyOf[c] = k /\ pc[c] = "returned" /\ c \notin written}

HeldSum(k) == SumFunctionOnSet(res, Held(k))
UnheardSum(k) == SumFunctionOnSet(eff, Unheard(k))
BilledSum(k) == SumFunctionOnSet(eff, Billed(k))
RowlessSum(k) == SumFunctionOnSet(eff, Rowless(k))

\* What one call adds to each.
HeldOf(c, k) == IF c \in Held(k) THEN res[c] ELSE 0
UnheardOf(c, k) == IF c \in Unheard(k) THEN eff[c] ELSE 0
BilledOf(c, k) == IF c \in Billed(k) THEN eff[c] ELSE 0
RowlessOf(c, k) == IF c \in Rowless(k) THEN eff[c] ELSE 0

\* Inductive with CapInvariant: the four balances, per key.
BooksBalance ==
    /\ \A c \in Calls : pc[c] \in {"idle", "seeding"} => res[c] = 0
    /\ \A k \in Keys : reserved[k] = HeldSum(k)
    /\ \A k \in seeded : ledger[k] <= spent[k] + UnheardSum(k)
    /\ \A k \in seeded : spent[k] + BilledSum(k) <= paid[k]
    /\ \A k \in Keys : ledger[k] + RowlessSum(k) <= paid[k]

LEMMA CallSetsFinite ==
    \A S \in SUBSET Calls : IsFiniteSet(S)
<1>1. IsFiniteSet(Calls)
  BY CallsAssumption, FS_Interval DEF Calls
<1>2. QED
  BY <1>1, FS_Subset

SumsTyped(k) ==
    /\ HeldSum(k) \in Nat /\ UnheardSum(k) \in Nat
    /\ BilledSum(k) \in Nat /\ RowlessSum(k) \in Nat

LEMMA SumsAreNat ==
    ASSUME TypeOK, NEW k \in Keys
    PROVE  SumsTyped(k)
<1>1. /\ Held(k) \in SUBSET Calls /\ Unheard(k) \in SUBSET Calls
      /\ Billed(k) \in SUBSET Calls /\ Rowless(k) \in SUBSET Calls
  BY DEF TypeOK, Held, Unheard, Billed, Rowless
<1>2. \A c \in Calls : res[c] \in Nat /\ eff[c] \in Nat
  BY DEF TypeOK
<1>3. HeldSum(k) \in Nat
  BY <1>1, <1>2, CallSetsFinite, SumIsNat DEF HeldSum
<1>4. UnheardSum(k) \in Nat
  BY <1>1, <1>2, CallSetsFinite, SumIsNat DEF UnheardSum
<1>5. BilledSum(k) \in Nat
  BY <1>1, <1>2, CallSetsFinite, SumIsNat DEF BilledSum
<1>6. RowlessSum(k) \in Nat
  BY <1>1, <1>2, CallSetsFinite, SumIsNat DEF RowlessSum
<1>7. QED
  BY <1>3, <1>4, <1>5, <1>6 DEF SumsTyped

LEMMA SumsStayNat ==
    ASSUME NEW k \in Keys
    PROVE  (TypeOK => SumsTyped(k))'
<1>1. TypeOK => SumsTyped(k)
  BY SumsAreNat
<1>2. QED
  BY <1>1, PTL

\* A step of one call moves its own terms and no others.
LEMMA OneCallMoves ==
    ASSUME TypeOK, TypeOK', NEW c \in Calls, NEW k \in Keys,
           \A d \in Calls \ {c} : /\ pc'[d] = pc[d] /\ res'[d] = res[d] /\ eff'[d] = eff[d]
                                  /\ d \in written' <=> d \in written
    PROVE  /\ HeldSum(k)' + HeldOf(c, k) = HeldSum(k) + HeldOf(c, k)'
           /\ UnheardSum(k)' + UnheardOf(c, k) = UnheardSum(k) + UnheardOf(c, k)'
           /\ BilledSum(k)' + BilledOf(c, k) = BilledSum(k) + BilledOf(c, k)'
           /\ RowlessSum(k)' + RowlessOf(c, k) = RowlessSum(k) + RowlessOf(c, k)'
<1>1. /\ Held(k) \in SUBSET Calls /\ Unheard(k) \in SUBSET Calls
      /\ Billed(k) \in SUBSET Calls /\ Rowless(k) \in SUBSET Calls
      /\ Held(k)' \in SUBSET Calls /\ Unheard(k)' \in SUBSET Calls
      /\ Billed(k)' \in SUBSET Calls /\ Rowless(k)' \in SUBSET Calls
  BY DEF TypeOK, Held, Unheard, Billed, Rowless
<1>2. \A d \in Calls : res[d] \in Nat /\ eff[d] \in Nat /\ res'[d] \in Nat /\ eff'[d] \in Nat
  BY DEF TypeOK
<1>3. \A d \in Calls \ {c} : Outstanding(d)' = Outstanding(d)
  BY DEF Outstanding
<1>4. Held(k) \ {c} = Held(k)' \ {c} /\ Billed(k) \ {c} = Billed(k)' \ {c}
  BY <1>3 DEF Held, Billed
<1>5. Rowless(k) \ {c} = Rowless(k)' \ {c}
  BY DEF Rowless
<1>6. Unheard(k) \ {c} = Unheard(k)' \ {c}
  BY <1>3 DEF Unheard, TypeOK
<1>7. HeldSum(k)' + HeldOf(c, k) = HeldSum(k) + HeldOf(c, k)'
  <2> DEFINE S == Held(k)
             T == Held(k)'
  <2>1. IsFiniteSet(S) /\ IsFiniteSet(T) /\ S \ {c} = T \ {c}
    BY <1>1, <1>4, CallSetsFinite
  <2>2. /\ \A x \in S : res[x] \in Nat
        /\ \A x \in T : res'[x] \in Nat
        /\ \A x \in S \ {c} : res'[x] = res[x]
    BY <1>1, <1>2
  <2> HIDE DEF S, T
  <2>3. SumFunctionOnSet(res', T) + (IF c \in S THEN res[c] ELSE 0)
            = SumFunctionOnSet(res, S) + (IF c \in T THEN res'[c] ELSE 0)
    BY <2>1, <2>2, SumMoves
  <2>4. QED
    BY <2>3 DEF HeldSum, HeldOf, S, T
<1>8. UnheardSum(k)' + UnheardOf(c, k) = UnheardSum(k) + UnheardOf(c, k)'
  <2> DEFINE S == Unheard(k)
             T == Unheard(k)'
  <2>1. IsFiniteSet(S) /\ IsFiniteSet(T) /\ S \ {c} = T \ {c}
    BY <1>1, <1>6, CallSetsFinite
  <2>2. /\ \A x \in S : eff[x] \in Nat
        /\ \A x \in T : eff'[x] \in Nat
        /\ \A x \in S \ {c} : eff'[x] = eff[x]
    BY <1>1, <1>2
  <2> HIDE DEF S, T
  <2>3. SumFunctionOnSet(eff', T) + (IF c \in S THEN eff[c] ELSE 0)
            = SumFunctionOnSet(eff, S) + (IF c \in T THEN eff'[c] ELSE 0)
    BY <2>1, <2>2, SumMoves
  <2>4. QED
    BY <2>3 DEF UnheardSum, UnheardOf, S, T
<1>9. BilledSum(k)' + BilledOf(c, k) = BilledSum(k) + BilledOf(c, k)'
  <2> DEFINE S == Billed(k)
             T == Billed(k)'
  <2>1. IsFiniteSet(S) /\ IsFiniteSet(T) /\ S \ {c} = T \ {c}
    BY <1>1, <1>4, CallSetsFinite
  <2>2. /\ \A x \in S : eff[x] \in Nat
        /\ \A x \in T : eff'[x] \in Nat
        /\ \A x \in S \ {c} : eff'[x] = eff[x]
    BY <1>1, <1>2
  <2> HIDE DEF S, T
  <2>3. SumFunctionOnSet(eff', T) + (IF c \in S THEN eff[c] ELSE 0)
            = SumFunctionOnSet(eff, S) + (IF c \in T THEN eff'[c] ELSE 0)
    BY <2>1, <2>2, SumMoves
  <2>4. QED
    BY <2>3 DEF BilledSum, BilledOf, S, T
<1>10. RowlessSum(k)' + RowlessOf(c, k) = RowlessSum(k) + RowlessOf(c, k)'
  <2> DEFINE S == Rowless(k)
             T == Rowless(k)'
  <2>1. IsFiniteSet(S) /\ IsFiniteSet(T) /\ S \ {c} = T \ {c}
    BY <1>1, <1>5, CallSetsFinite
  <2>2. /\ \A x \in S : eff[x] \in Nat
        /\ \A x \in T : eff'[x] \in Nat
        /\ \A x \in S \ {c} : eff'[x] = eff[x]
    BY <1>1, <1>2
  <2> HIDE DEF S, T
  <2>3. SumFunctionOnSet(eff', T) + (IF c \in S THEN eff[c] ELSE 0)
            = SumFunctionOnSet(eff, S) + (IF c \in T THEN eff'[c] ELSE 0)
    BY <2>1, <2>2, SumMoves
  <2>4. QED
    BY <2>3 DEF RowlessSum, RowlessOf, S, T
<1>11. QED
  BY <1>7, <1>8, <1>9, <1>10

LEMMA SumsStartAtZero ==
    ASSUME NEW k \in Keys, \A c \in Calls : ~Outstanding(c), written \subseteq Calls
    PROVE  HeldSum(k) = 0 /\ UnheardSum(k) = 0 /\ BilledSum(k) = 0 /\ RowlessSum(k) = 0
<1>1. Held(k) = {} /\ Unheard(k) = {} /\ Billed(k) = {} /\ Rowless(k) = {}
  BY DEF Held, Unheard, Billed, Rowless, Outstanding
<1>2. QED
  BY <1>1, SumOfNone DEF HeldSum, UnheardSum, BilledSum, RowlessSum

LEMMA InitBooks == Init => BooksBalance
<1> SUFFICES ASSUME Init PROVE BooksBalance
  OBVIOUS
<1>1. \A k \in Keys : HeldSum(k) = 0 /\ RowlessSum(k) = 0
  BY SumsStartAtZero DEF Init, Outstanding
<1>2. QED
  BY <1>1, MoneyAssumption DEF Init, BooksBalance

\* A step of one call that spends nothing and changes no row.
LEMMA QuietCallBooks ==
    ASSUME CapInvariant, BooksBalance, TypeOK', NEW c \in Calls,
           UNCHANGED <<spent, reserved, seeded, res, eff, written, ledger, paid>>,
           \A d \in Calls \ {c} : pc'[d] = pc[d],
           \/ ~Outstanding(c) /\ res[c] = 0 /\ c \notin written
           \/ Outstanding(c) /\ Outstanding(c)' /\ pc'[c] # "returned",
           pc'[c] \notin {"returned", "idle"},
           pc'[c] = "seeding" => res[c] = 0
    PROVE  BooksBalance'
<1>1. TypeOK
  BY DEF CapInvariant
<1>2. ASSUME NEW k \in Keys
      PROVE  /\ HeldSum(k)' = HeldSum(k) /\ UnheardSum(k)' = UnheardSum(k)
             /\ BilledSum(k)' <= BilledSum(k) /\ RowlessSum(k)' <= RowlessSum(k)
  <2>1. /\ HeldSum(k)' + HeldOf(c, k) = HeldSum(k) + HeldOf(c, k)'
        /\ UnheardSum(k)' + UnheardOf(c, k) = UnheardSum(k) + UnheardOf(c, k)'
        /\ BilledSum(k)' + BilledOf(c, k) = BilledSum(k) + BilledOf(c, k)'
        /\ RowlessSum(k)' + RowlessOf(c, k) = RowlessSum(k) + RowlessOf(c, k)'
    BY <1>1, OneCallMoves
  <2>2. /\ HeldSum(k) \in Nat /\ UnheardSum(k) \in Nat /\ BilledSum(k) \in Nat /\ RowlessSum(k) \in Nat
        /\ HeldSum(k)' \in Nat /\ UnheardSum(k)' \in Nat /\ BilledSum(k)' \in Nat /\ RowlessSum(k)' \in Nat
    BY <1>1, SumsAreNat, SumsStayNat DEF SumsTyped
  <2>3. res[c] \in Nat /\ eff[c] \in Nat
    BY <1>1 DEF TypeOK
  <2>4. HeldOf(c, k)' = HeldOf(c, k) /\ HeldOf(c, k) \in Nat
    BY <2>3 DEF HeldOf, Held
  <2>5. UnheardOf(c, k)' = UnheardOf(c, k) /\ UnheardOf(c, k) \in Nat
    BY <2>3 DEF UnheardOf, Unheard
  <2>6. BilledOf(c, k)' = 0 /\ BilledOf(c, k) \in Nat
    BY <2>3 DEF BilledOf, Billed
  <2>7. RowlessOf(c, k)' = 0 /\ RowlessOf(c, k) \in Nat
    BY <2>3 DEF RowlessOf, Rowless
  <2>8. QED
    BY <2>1, <2>2, <2>4, <2>5, <2>6, <2>7
<1>3. \A k \in Keys : /\ BilledSum(k) \in Nat /\ RowlessSum(k) \in Nat
                      /\ BilledSum(k)' \in Nat /\ RowlessSum(k)' \in Nat
                      /\ spent[k] \in Nat /\ paid[k] \in Nat /\ ledger[k] \in Nat
  BY <1>1, SumsAreNat, SumsStayNat DEF SumsTyped, TypeOK
<1>4. seeded \subseteq Keys
  BY <1>1 DEF TypeOK
<1>5. \A d \in Calls : pc'[d] \in {"idle", "seeding"} => res'[d] = 0
  BY DEF BooksBalance
<1>6. QED
  BY <1>2, <1>3, <1>4, <1>5 DEF BooksBalance

\* The decision reserves what it admits, and bills nothing.
LEMMA AdmitBooks ==
    ASSUME CapInvariant, BooksBalance, TypeOK', NEW c \in Calls, NEW n \in Nat, Admit(c, n),
           pc[c] \in {"idle", "seeding"}, UNCHANGED <<eff, written>>
    PROVE  /\ \A k \in Keys : /\ reserved'[k] = HeldSum(k)'
                              /\ UnheardSum(k)' = UnheardSum(k)
                              /\ BilledSum(k)' = BilledSum(k)
                              /\ RowlessSum(k)' = RowlessSum(k)
           /\ \A d \in Calls : pc'[d] \in {"idle", "seeding"} => res'[d] = 0
<1>1. TypeOK /\ c \notin written /\ ~Outstanding(c) /\ res[c] = 0 /\ KeyOf[c] \in Keys
  BY KeysAssumption DEF CapInvariant, WrittenAfterReturn, BooksBalance, Outstanding
<1>2. Projected(Op(c)) \in Nat
  BY <1>1, ProjectedNat, KeysAssumption DEF Op
<1>3. \/ /\ pc' = [pc EXCEPT ![c] = "skipped"]
         /\ UNCHANGED <<reserved, res>>
      \/ /\ pc' = [pc EXCEPT ![c] = "admitted"]
         /\ reserved' = [reserved EXCEPT ![KeyOf[c]] = @ + Projected(Op(c))]
         /\ res' = [res EXCEPT ![c] = Projected(Op(c))]
  BY DEF Admit, Decide
<1>4. /\ pc'[c] \in {"skipped", "admitted"}
      /\ \A d \in Calls \ {c} : pc'[d] = pc[d] /\ res'[d] = res[d]
  BY <1>1, <1>3 DEF TypeOK
<1>5. ASSUME NEW k \in Keys
      PROVE  /\ reserved'[k] = HeldSum(k)'
             /\ UnheardSum(k)' = UnheardSum(k)
             /\ BilledSum(k)' = BilledSum(k)
             /\ RowlessSum(k)' = RowlessSum(k)
  <2>1. /\ HeldSum(k)' + HeldOf(c, k) = HeldSum(k) + HeldOf(c, k)'
        /\ UnheardSum(k)' + UnheardOf(c, k) = UnheardSum(k) + UnheardOf(c, k)'
        /\ BilledSum(k)' + BilledOf(c, k) = BilledSum(k) + BilledOf(c, k)'
        /\ RowlessSum(k)' + RowlessOf(c, k) = RowlessSum(k) + RowlessOf(c, k)'
    BY <1>1, <1>4, OneCallMoves
  <2>2. /\ HeldSum(k) \in Nat /\ UnheardSum(k) \in Nat /\ BilledSum(k) \in Nat /\ RowlessSum(k) \in Nat
        /\ HeldSum(k)' \in Nat /\ UnheardSum(k)' \in Nat /\ BilledSum(k)' \in Nat /\ RowlessSum(k)' \in Nat
    BY <1>1, SumsAreNat, SumsStayNat DEF SumsTyped
  <2>3. HeldOf(c, k) = 0
    BY <1>1 DEF HeldOf, Held
  <2>4. UnheardOf(c, k) = 0 /\ UnheardOf(c, k)' = 0
    BY <1>1 DEF UnheardOf, Unheard
  <2>5. BilledOf(c, k) = 0 /\ BilledOf(c, k)' = 0
    BY <1>1, <1>4 DEF BilledOf, Billed, Outstanding
  <2>6. RowlessOf(c, k) = 0 /\ RowlessOf(c, k)' = 0
    BY <1>1, <1>4 DEF RowlessOf, Rowless, Outstanding
  <2>7. reserved[k] = HeldSum(k)
    BY DEF BooksBalance
  <2>8. reserved'[k] = reserved[k] + HeldOf(c, k)' /\ HeldOf(c, k)' \in Nat
    <3>1. CASE pc'[c] = "skipped"
      <4>1. HeldOf(c, k)' = 0
        BY <3>1 DEF HeldOf, Held, Outstanding
      <4>2. reserved'[k] = reserved[k]
        BY <1>1, <1>3, <3>1 DEF TypeOK
      <4>3. QED
        BY <2>2, <2>7, <4>1, <4>2
    <3>2. CASE pc'[c] = "admitted"
      <4>1. /\ reserved' = [reserved EXCEPT ![KeyOf[c]] = @ + Projected(Op(c))]
            /\ res' = [res EXCEPT ![c] = Projected(Op(c))]
        BY <1>1, <1>3, <3>2 DEF TypeOK
      <4>2. HeldOf(c, k)' = IF KeyOf[c] = k THEN Projected(Op(c)) ELSE 0
        BY <1>1, <3>2, <4>1 DEF HeldOf, Held, Outstanding, TypeOK
      <4>3. reserved'[k] = IF KeyOf[c] = k THEN reserved[k] + Projected(Op(c)) ELSE reserved[k]
        BY <1>1, <4>1 DEF TypeOK
      <4>4. QED
        BY <1>2, <2>2, <2>7, <4>2, <4>3
    <3>3. QED
      BY <1>4, <3>1, <3>2
  <2>9. QED
    BY <2>1, <2>2, <2>3, <2>4, <2>5, <2>6, <2>7, <2>8
<1>6. \A d \in Calls : pc'[d] \in {"idle", "seeding"} => res'[d] = 0
  BY <1>4 DEF BooksBalance
<1>7. QED
  BY <1>5, <1>6

LEMMA CheckSeededBooks ==
    ASSUME CapInvariant, BooksBalance, TypeOK', NEW c \in Calls, CheckSeeded(c)
    PROVE  BooksBalance'
<1>1. /\ pc[c] = "idle" /\ Admit(c, spent[KeyOf[c]]) /\ spent[KeyOf[c]] \in Nat
      /\ UNCHANGED <<spent, seeded, eff, written, ledger, paid>>
  BY KeysAssumption DEF CheckSeeded, storeVars, CapInvariant, TypeOK
<1>2. /\ \A k \in Keys : /\ reserved'[k] = HeldSum(k)'
                         /\ UnheardSum(k)' = UnheardSum(k)
                         /\ BilledSum(k)' = BilledSum(k)
                         /\ RowlessSum(k)' = RowlessSum(k)
      /\ \A d \in Calls : pc'[d] \in {"idle", "seeding"} => res'[d] = 0
  BY <1>1, AdmitBooks
<1>3. seeded \subseteq Keys
  BY DEF CapInvariant, TypeOK
<1>4. QED
  BY <1>1, <1>2, <1>3 DEF BooksBalance

\* A key is seeded before any call is under way on it, so what storage held then
\* is neither waiting to be recorded nor going to be billed again.
LEMMA FinishSeedBooks ==
    ASSUME CapInvariant, BooksBalance, TypeOK', NEW c \in Calls, FinishSeed(c)
    PROVE  BooksBalance'
<1> DEFINE k == KeyOf[c]
<1>1. /\ TypeOK /\ k \in Keys /\ pc[c] = "seeding" /\ Admit(c, ledger[k]) /\ ledger[k] \in Nat
      /\ seeded' = seeded \cup {k} /\ spent' = [spent EXCEPT ![k] = ledger[k]]
      /\ UNCHANGED <<eff, written, ledger, paid>>
  BY KeysAssumption DEF FinishSeed, SeedWith, storeVars, CapInvariant, TypeOK
<1>2. /\ \A j \in Keys : /\ reserved'[j] = HeldSum(j)'
                         /\ UnheardSum(j)' = UnheardSum(j)
                         /\ BilledSum(j)' = BilledSum(j)
                         /\ RowlessSum(j)' = RowlessSum(j)
      /\ \A d \in Calls : pc'[d] \in {"idle", "seeding"} => res'[d] = 0
  BY <1>1, AdmitBooks
<1>3. \A d \in Calls : Outstanding(d) => KeyOf[d] # k
  BY <1>1 DEF CapInvariant, SeededFirst, Op
<1>4. Billed(k) = {} /\ Unheard(k) = {}
  BY <1>1, <1>3 DEF Billed, Unheard, Outstanding, TypeOK
<1>5. BilledSum(k) = 0 /\ UnheardSum(k) = 0
  BY <1>4, SumOfNone DEF BilledSum, UnheardSum
<1>6. ledger[k] + RowlessSum(k) <= paid[k] /\ RowlessSum(k) \in Nat /\ paid[k] \in Nat
  BY <1>1, SumsAreNat DEF BooksBalance, SumsTyped, TypeOK
<1>7. ASSUME NEW j \in seeded'
      PROVE  ledger'[j] <= spent'[j] + UnheardSum(j)' /\ spent'[j] + BilledSum(j)' <= paid'[j]
  <2>1. CASE j = k
    <3>1. spent'[k] = ledger[k]
      BY <1>1 DEF TypeOK
    <3> HIDE DEF k
    <3>2. QED
      BY <1>1, <1>2, <1>5, <1>6, <2>1, <3>1
  <2>2. CASE j # k
    <3>1. j \in seeded /\ j \in Keys
      BY <1>1, <2>2 DEF TypeOK
    <3>2. spent'[j] = spent[j]
      BY <1>1, <2>2, <3>1 DEF TypeOK
    <3>3. QED
      BY <1>1, <1>2, <3>1, <3>2 DEF BooksBalance
  <2>3. QED
    BY <2>1, <2>2
<1>8. QED
  BY <1>1, <1>2, <1>7 DEF BooksBalance

\* A bill arrives: it is owed to the gate and has no row yet.
LEMMA CallReturnsBooks ==
    ASSUME CapInvariant, BooksBalance, TypeOK', NEW c \in Calls, CallReturns(c)
    PROVE  BooksBalance'
<1>1. /\ TypeOK /\ KeyOf[c] \in Keys /\ pc[c] = "admitted" /\ c \notin written
      /\ pc' = [pc EXCEPT ![c] = "returned"]
      /\ UNCHANGED <<spent, reserved, seeded, res, written, ledger>>
      /\ \A d \in Calls \ {c} : eff'[d] = eff[d]
  BY KeysAssumption DEF CallReturns, gateVars, storeVars, CapInvariant, WrittenAfterReturn, TypeOK
<1>2. \A d \in Calls \ {c} : pc'[d] = pc[d] /\ res'[d] = res[d] /\ eff'[d] = eff[d]
  BY <1>1 DEF TypeOK
<1>3. PICK e \in Nat : eff' = [eff EXCEPT ![c] = e] /\ paid' = [paid EXCEPT ![KeyOf[c]] = @ + e]
  BY MoneyAssumption DEF CallReturns
<1>4. pc'[c] = "returned" /\ eff'[c] = e
  BY <1>1, <1>3 DEF TypeOK
<1>5. ASSUME NEW k \in Keys
      PROVE  /\ reserved'[k] = HeldSum(k)'
             /\ k \in seeded => ledger'[k] <= spent'[k] + UnheardSum(k)'
             /\ k \in seeded => spent'[k] + BilledSum(k)' <= paid'[k]
             /\ ledger'[k] + RowlessSum(k)' <= paid'[k]
  <2>1. /\ HeldSum(k)' + HeldOf(c, k) = HeldSum(k) + HeldOf(c, k)'
        /\ UnheardSum(k)' + UnheardOf(c, k) = UnheardSum(k) + UnheardOf(c, k)'
        /\ BilledSum(k)' + BilledOf(c, k) = BilledSum(k) + BilledOf(c, k)'
        /\ RowlessSum(k)' + RowlessOf(c, k) = RowlessSum(k) + RowlessOf(c, k)'
    BY <1>1, <1>2, OneCallMoves
  <2>2. /\ HeldSum(k) \in Nat /\ UnheardSum(k) \in Nat /\ BilledSum(k) \in Nat /\ RowlessSum(k) \in Nat
        /\ HeldSum(k)' \in Nat /\ UnheardSum(k)' \in Nat /\ BilledSum(k)' \in Nat /\ RowlessSum(k)' \in Nat
    BY <1>1, SumsAreNat, SumsStayNat DEF SumsTyped
  <2>3. HeldOf(c, k)' = HeldOf(c, k) /\ HeldOf(c, k) \in Nat
    BY <1>1, <1>4 DEF HeldOf, Held, Outstanding, TypeOK
  <2>4. UnheardOf(c, k) = 0 /\ UnheardOf(c, k)' = 0
    BY <1>1 DEF UnheardOf, Unheard
  <2>5. BilledOf(c, k) = 0 /\ BilledOf(c, k)' = IF KeyOf[c] = k THEN e ELSE 0
    BY <1>1, <1>4 DEF BilledOf, Billed
  <2>6. RowlessOf(c, k) = 0 /\ RowlessOf(c, k)' = IF KeyOf[c] = k THEN e ELSE 0
    BY <1>1, <1>4 DEF RowlessOf, Rowless
  <2>7. paid'[k] = IF KeyOf[c] = k THEN paid[k] + e ELSE paid[k]
    BY <1>1, <1>3 DEF TypeOK
  <2>8. paid[k] \in Nat /\ spent[k] \in Nat /\ ledger[k] \in Nat
    BY <1>1 DEF TypeOK
  <2>9. /\ reserved[k] = HeldSum(k)
        /\ k \in seeded => ledger[k] <= spent[k] + UnheardSum(k)
        /\ k \in seeded => spent[k] + BilledSum(k) <= paid[k]
        /\ ledger[k] + RowlessSum(k) <= paid[k]
    BY DEF BooksBalance
  <2>10. reserved' = reserved /\ spent' = spent /\ ledger' = ledger
    BY <1>1
  <2>11. QED
    BY <2>1, <2>2, <2>3, <2>4, <2>5, <2>6, <2>7, <2>8, <2>9, <2>10
<1>6. seeded' = seeded /\ seeded \subseteq Keys
  BY <1>1 DEF TypeOK
<1>7. \A d \in Calls : pc'[d] \in {"idle", "seeding"} => res'[d] = 0
  BY <1>1, <1>4, <1>2 DEF BooksBalance
<1>8. QED
  BY <1>5, <1>6, <1>7 DEF BooksBalance

\* The row of a call joins the ledger and the rows the gate has yet to hear of.
LEMMA RowWrittenBooks ==
    ASSUME CapInvariant, BooksBalance, TypeOK', NEW c \in Calls, RowWritten(c)
    PROVE  BooksBalance'
<1>1. /\ TypeOK /\ KeyOf[c] \in Keys /\ pc[c] = "returned" /\ c \notin written
      /\ written' = written \cup {c}
      /\ UNCHANGED <<spent, reserved, seeded, pc, res, eff, paid>>
  BY KeysAssumption DEF RowWritten, gateVars, callVars, CapInvariant
<1>2. \A d \in Calls \ {c} : /\ pc'[d] = pc[d] /\ res'[d] = res[d] /\ eff'[d] = eff[d]
                             /\ d \in written' <=> d \in written
  BY <1>1
<1>3. PICK old \in Nat : /\ old <= ledger[KeyOf[c]]
                         /\ ledger' = [ledger EXCEPT ![KeyOf[c]] = @ - old + eff[c]]
  BY MoneyAssumption DEF RowWritten
<1>5. ASSUME NEW k \in Keys
      PROVE  /\ reserved'[k] = HeldSum(k)'
             /\ k \in seeded => ledger'[k] <= spent'[k] + UnheardSum(k)'
             /\ k \in seeded => spent'[k] + BilledSum(k)' <= paid'[k]
             /\ ledger'[k] + RowlessSum(k)' <= paid'[k]
  <2>1. /\ HeldSum(k)' + HeldOf(c, k) = HeldSum(k) + HeldOf(c, k)'
        /\ UnheardSum(k)' + UnheardOf(c, k) = UnheardSum(k) + UnheardOf(c, k)'
        /\ BilledSum(k)' + BilledOf(c, k) = BilledSum(k) + BilledOf(c, k)'
        /\ RowlessSum(k)' + RowlessOf(c, k) = RowlessSum(k) + RowlessOf(c, k)'
    BY <1>1, <1>2, OneCallMoves
  <2>2. /\ HeldSum(k) \in Nat /\ UnheardSum(k) \in Nat /\ BilledSum(k) \in Nat /\ RowlessSum(k) \in Nat
        /\ HeldSum(k)' \in Nat /\ UnheardSum(k)' \in Nat /\ BilledSum(k)' \in Nat /\ RowlessSum(k)' \in Nat
    BY <1>1, SumsAreNat, SumsStayNat DEF SumsTyped
  <2>3. HeldOf(c, k)' = HeldOf(c, k) /\ HeldOf(c, k) \in Nat
    BY <1>1 DEF HeldOf, Held, Outstanding, TypeOK
  <2>4. UnheardOf(c, k) = 0 /\ UnheardOf(c, k)' = IF KeyOf[c] = k THEN eff[c] ELSE 0
    BY <1>1 DEF UnheardOf, Unheard, Outstanding
  <2>5. BilledOf(c, k)' = BilledOf(c, k) /\ BilledOf(c, k) \in Nat
    BY <1>1 DEF BilledOf, Billed, TypeOK
  <2>6. RowlessOf(c, k) = (IF KeyOf[c] = k THEN eff[c] ELSE 0) /\ RowlessOf(c, k)' = 0
    BY <1>1 DEF RowlessOf, Rowless
  <2>7. ledger'[k] = IF KeyOf[c] = k THEN ledger[k] - old + eff[c] ELSE ledger[k]
    BY <1>1, <1>3 DEF TypeOK
  <2>8. paid[k] \in Nat /\ spent[k] \in Nat /\ ledger[k] \in Nat /\ eff[c] \in Nat
    BY <1>1 DEF TypeOK
  <2>9. /\ reserved[k] = HeldSum(k)
        /\ k \in seeded => ledger[k] <= spent[k] + UnheardSum(k)
        /\ k \in seeded => spent[k] + BilledSum(k) <= paid[k]
        /\ ledger[k] + RowlessSum(k) <= paid[k]
    BY DEF BooksBalance
  <2>10. reserved' = reserved /\ spent' = spent /\ paid' = paid
    BY <1>1
  <2>11. QED
    BY <2>1, <2>2, <2>3, <2>4, <2>5, <2>6, <2>7, <2>8, <2>9, <2>10
<1>6. seeded' = seeded /\ seeded \subseteq Keys
  BY <1>1 DEF TypeOK
<1>7. \A d \in Calls : pc'[d] \in {"idle", "seeding"} => res'[d] = 0
  BY <1>1 DEF BooksBalance
<1>8. QED
  BY <1>5, <1>6, <1>7 DEF BooksBalance

\* The cost of a call takes the place of its reservation; the maximum of
\* record_cost hides nothing, for no less than the reservation is there.
LEMMA RecordCostBooks ==
    ASSUME CapInvariant, BooksBalance, TypeOK', NEW c \in Calls, RecordCost(c)
    PROVE  BooksBalance'
<1>1. /\ TypeOK /\ KeyOf[c] \in Keys /\ pc[c] = "returned" /\ c \in written
      /\ pc' = [pc EXCEPT ![c] = "recorded"]
      /\ spent' = [spent EXCEPT ![KeyOf[c]] = @ + eff[c]]
      /\ reserved' = [reserved EXCEPT ![KeyOf[c]] = MaxOf(0, @ - res[c])]
      /\ UNCHANGED <<seeded, res, eff, written, ledger, paid>>
  BY KeysAssumption DEF RecordCost, Reconcile, storeVars, CapInvariant
<1>2. \A d \in Calls \ {c} : /\ pc'[d] = pc[d] /\ res'[d] = res[d] /\ eff'[d] = eff[d]
                             /\ d \in written' <=> d \in written
  BY <1>1 DEF TypeOK
<1>3. pc'[c] = "recorded"
  BY <1>1 DEF TypeOK
<1>5. ASSUME NEW k \in Keys
      PROVE  /\ reserved'[k] = HeldSum(k)'
             /\ k \in seeded => ledger'[k] <= spent'[k] + UnheardSum(k)'
             /\ k \in seeded => spent'[k] + BilledSum(k)' <= paid'[k]
             /\ ledger'[k] + RowlessSum(k)' <= paid'[k]
  <2>1. /\ HeldSum(k)' + HeldOf(c, k) = HeldSum(k) + HeldOf(c, k)'
        /\ UnheardSum(k)' + UnheardOf(c, k) = UnheardSum(k) + UnheardOf(c, k)'
        /\ BilledSum(k)' + BilledOf(c, k) = BilledSum(k) + BilledOf(c, k)'
        /\ RowlessSum(k)' + RowlessOf(c, k) = RowlessSum(k) + RowlessOf(c, k)'
    BY <1>1, <1>2, OneCallMoves
  <2>2. /\ HeldSum(k) \in Nat /\ UnheardSum(k) \in Nat /\ BilledSum(k) \in Nat /\ RowlessSum(k) \in Nat
        /\ HeldSum(k)' \in Nat /\ UnheardSum(k)' \in Nat /\ BilledSum(k)' \in Nat /\ RowlessSum(k)' \in Nat
    BY <1>1, SumsAreNat, SumsStayNat DEF SumsTyped
  <2>3. HeldOf(c, k) = (IF KeyOf[c] = k THEN res[c] ELSE 0) /\ HeldOf(c, k)' = 0
    BY <1>1, <1>3 DEF HeldOf, Held, Outstanding
  <2>4. UnheardOf(c, k) = (IF KeyOf[c] = k THEN eff[c] ELSE 0) /\ UnheardOf(c, k)' = 0
    BY <1>1, <1>3 DEF UnheardOf, Unheard, Outstanding
  <2>5. BilledOf(c, k) = (IF KeyOf[c] = k THEN eff[c] ELSE 0) /\ BilledOf(c, k)' = 0
    BY <1>1, <1>3 DEF BilledOf, Billed
  <2>6. RowlessOf(c, k) = 0 /\ RowlessOf(c, k)' = 0
    BY <1>1 DEF RowlessOf, Rowless
  <2>7. spent'[k] = IF KeyOf[c] = k THEN spent[k] + eff[c] ELSE spent[k]
    BY <1>1 DEF TypeOK
  <2>8. /\ paid[k] \in Nat /\ spent[k] \in Nat /\ ledger[k] \in Nat
        /\ reserved[k] \in Nat /\ eff[c] \in Nat /\ res[c] \in Nat
    BY <1>1 DEF TypeOK
  <2>9. /\ reserved[k] = HeldSum(k)
        /\ k \in seeded => ledger[k] <= spent[k] + UnheardSum(k)
        /\ k \in seeded => spent[k] + BilledSum(k) <= paid[k]
        /\ ledger[k] + RowlessSum(k) <= paid[k]
    BY DEF BooksBalance
  <2>10. reserved'[k] = IF KeyOf[c] = k THEN MaxOf(0, reserved[k] - res[c]) ELSE reserved[k]
    BY <1>1 DEF TypeOK
  <2>11. ledger' = ledger /\ paid' = paid
    BY <1>1
  <2>12. reserved'[k] = HeldSum(k)'
    BY <2>1, <2>2, <2>3, <2>8, <2>9, <2>10 DEF MaxOf
  <2>13. QED
    BY <2>1, <2>2, <2>4, <2>5, <2>6, <2>7, <2>8, <2>9, <2>11, <2>12
<1>6. seeded' = seeded /\ seeded \subseteq Keys
  BY <1>1 DEF TypeOK
<1>7. \A d \in Calls : pc'[d] \in {"idle", "seeding"} => res'[d] = 0
  BY <1>1, <1>2, <1>3 DEF BooksBalance
<1>8. QED
  BY <1>5, <1>6, <1>7 DEF BooksBalance

LEMMA RestartBooks ==
    ASSUME CapInvariant, BooksBalance, TypeOK', Restart
    PROVE  BooksBalance'
<1>1. /\ TypeOK /\ seeded' = {} /\ reserved' = [k \in Keys |-> 0]
      /\ pc' = [c \in Calls |-> IF pc[c] = "idle" THEN "idle" ELSE "lost"]
      /\ UNCHANGED <<res, eff, written, ledger, paid>>
  BY DEF Restart, storeVars, CapInvariant
<1>2. \A c \in Calls : ~Outstanding(c)' /\ pc'[c] # "returned"
  BY <1>1 DEF Outstanding
<1>3. ASSUME NEW k \in Keys
      PROVE  HeldSum(k)' = 0 /\ RowlessSum(k)' = 0
  <2>1. Held(k)' = {} /\ Rowless(k)' = {}
    BY <1>2 DEF Held, Rowless
  <2>2. QED
    BY <2>1, SumOfNone DEF HeldSum, RowlessSum
<1>4. ASSUME NEW k \in Keys
      PROVE  ledger'[k] + RowlessSum(k)' <= paid'[k]
  <2>1. ledger[k] + RowlessSum(k) <= paid[k] /\ RowlessSum(k) \in Nat
    BY <1>1, SumsAreNat DEF BooksBalance, SumsTyped
  <2>2. ledger[k] \in Nat /\ paid[k] \in Nat
    BY <1>1 DEF TypeOK
  <2>3. QED
    BY <1>1, <1>3, <2>1, <2>2
<1>5. \A c \in Calls : pc'[c] \in {"idle", "seeding"} => res'[c] = 0
  BY <1>1 DEF BooksBalance
<1>6. QED
  BY <1>1, <1>3, <1>4, <1>5 DEF BooksBalance

LEMMA StepBooks ==
    ASSUME CapInvariant, BooksBalance, [Next]_vars
    PROVE  BooksBalance'
<1>1. TypeOK /\ TypeOK' /\ WrittenAfterReturn
  BY StepType DEF CapInvariant
<1>2. \A c \in Calls : ~Outstanding(c) /\ pc[c] \in {"idle", "seeding"} => c \notin written /\ res[c] = 0
  BY <1>1 DEF WrittenAfterReturn, BooksBalance
<1> USE DEF gateVars, callVars, storeVars
<1>3. ASSUME NEW c \in Calls, CheckUnbudgeted(c)
      PROVE  BooksBalance'
  <2>1. /\ pc[c] = "idle" /\ pc' = [pc EXCEPT ![c] = "admitted"]
        /\ UNCHANGED <<spent, reserved, seeded, res, eff, written, ledger, paid>>
    BY <1>3 DEF CheckUnbudgeted
  <2>2. QED
    BY <1>1, <1>2, <2>1, QuietCallBooks DEF TypeOK, Outstanding
<1>4. ASSUME NEW c \in Calls, BeginSeed(c)
      PROVE  BooksBalance'
  <2>1. /\ pc[c] = "idle" /\ pc' = [pc EXCEPT ![c] = "seeding"]
        /\ UNCHANGED <<spent, reserved, seeded, res, eff, written, ledger, paid>>
    BY <1>4 DEF BeginSeed
  <2>2. QED
    BY <1>1, <1>2, <2>1, QuietCallBooks DEF TypeOK, Outstanding
<1>5. ASSUME NEW c \in Calls, SeedRaises(c)
      PROVE  BooksBalance'
  <2>1. /\ pc[c] = "seeding" /\ pc' = [pc EXCEPT ![c] = "failed"]
        /\ UNCHANGED <<spent, reserved, seeded, res, eff, written, ledger, paid>>
    BY <1>5 DEF SeedRaises
  <2>2. QED
    BY <1>1, <1>2, <2>1, QuietCallBooks DEF TypeOK, Outstanding
<1>6. ASSUME NEW c \in Calls, AbortBeforeCall(c)
      PROVE  BooksBalance'
  <2>1. /\ pc[c] = "admitted" /\ pc' = [pc EXCEPT ![c] = "leaked"]
        /\ UNCHANGED <<spent, reserved, seeded, res, eff, written, ledger, paid>>
    BY <1>6 DEF AbortBeforeCall
  <2>2. QED
    BY <1>1, <2>1, QuietCallBooks DEF TypeOK, Outstanding
<1>7. ASSUME NEW c \in Calls, RecordCallRaises(c)
      PROVE  BooksBalance'
  <2>1. /\ pc[c] = "returned" /\ pc' = [pc EXCEPT ![c] = "leaked"]
        /\ UNCHANGED <<spent, reserved, seeded, res, eff, written, ledger, paid>>
    BY <1>7 DEF RecordCallRaises
  <2>2. QED
    BY <1>1, <2>1, QuietCallBooks DEF TypeOK, Outstanding
<1>8. CASE UNCHANGED vars
  <2>1. /\ UNCHANGED <<spent, reserved, seeded, pc, res, eff, written, ledger, paid>>
        /\ \A c \in Calls : Outstanding(c)' = Outstanding(c)
    BY <1>8 DEF vars, Outstanding
  <2>2. \A k : /\ Held(k)' = Held(k) /\ Unheard(k)' = Unheard(k)
               /\ Billed(k)' = Billed(k) /\ Rowless(k)' = Rowless(k)
    BY <1>1, <2>1 DEF Held, Unheard, Billed, Rowless, TypeOK
  <2>3. \A k : /\ HeldSum(k)' = HeldSum(k) /\ UnheardSum(k)' = UnheardSum(k)
               /\ BilledSum(k)' = BilledSum(k) /\ RowlessSum(k)' = RowlessSum(k)
    BY <2>1, <2>2 DEF HeldSum, UnheardSum, BilledSum, RowlessSum
  <2>4. QED
    BY <2>1, <2>3 DEF BooksBalance
<1>9. QED
  BY <1>1, <1>3, <1>4, <1>5, <1>6, <1>7, <1>8, CheckSeededBooks, FinishSeedBooks, CallReturnsBooks,
     RowWrittenBooks, RecordCostBooks, RestartBooks DEF Next, Step, Proceed, Raise

LEMMA BooksHold == Spec => []BooksBalance
<1>1. CapInvariant /\ BooksBalance /\ [Next]_vars => BooksBalance'
  BY StepBooks
<1>2. QED
  BY CapInvariantHolds, InitBooks, <1>1, PTL DEF Spec

\* The gate's reserved amount is the sum of the reservations handed out and not
\* yet returned, whatever ran at once: record_cost releases each of them once, and
\* its max(0, ...) never has a negative balance to hide (budget.py:112-146).
THEOREM ReservationsAddUp == Spec => []ReservationsConserved
<1>1. BooksBalance => ReservationsConserved
  BY DEF BooksBalance, ReservationsConserved, HeldSum, Held
<1>2. QED
  BY BooksHold, <1>1, PTL

\* From the seeding of a key on, the gate counts every cent storage has under it
\* but for the rows whose call is still on its way to record_cost: no row falls
\* between the query that seeds the key and the calls under way meanwhile.
THEOREM SeedMissesNothing == Spec => []GateSeesLedger
<1>1. BooksBalance => GateSeesLedger
  BY DEF BooksBalance, GateSeesLedger, UnheardSum, Unheard
<1>2. QED
  BY BooksHold, <1>1, PTL

\* And none is counted twice, once read from storage by the query and once when
\* its call reports: the gate never believes more was spent than was ever billed.
THEOREM SeedRepeatsNothing == Spec => []NoCentTwice
<1>1. TypeOK /\ BooksBalance => NoCentTwice
  <2> SUFFICES ASSUME TypeOK, BooksBalance, NEW k \in seeded
               PROVE  spent[k] <= paid[k]
    BY DEF NoCentTwice
  <2>1. k \in Keys /\ spent[k] \in Nat /\ paid[k] \in Nat
    BY DEF TypeOK
  <2>2. BilledSum(k) \in Nat /\ spent[k] + BilledSum(k) <= paid[k]
    BY <2>1, SumsAreNat DEF BooksBalance, SumsTyped
  <2>3. QED
    BY <2>1, <2>2
<1>2. QED
  BY BooksHold, TypeCorrect, <1>1, PTL

===============================================================================
