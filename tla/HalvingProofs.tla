---------------------------- MODULE HalvingProofs ----------------------------
(***************************************************************************)
(* What the cascade keeps to for any candidates, stages, schedule, scores, *)
(* thresholds and results of the pruner.                                   *)
(***************************************************************************)
EXTENDS Halving, SumLemmas

\* The sizes a round works with are natural numbers, and the coverage
\* denominator is not zero.
LEMMA Sizes ==
    ASSUME NEW r \in Rounds
    PROVE  /\ Cardinality(Stages) \in Nat \ {0}
           /\ AttemptsAtMost(r) \in Nat
           /\ TotalStages(r) \in Nat \ {0}
<1>1. Cardinality(Stages) \in Nat \ {0}
  BY HalvingAssumption, FS_CardinalityType, FS_EmptySet DEF HalvingAssumption
<1>2. UnitsPerArm[r] \in Nat \ {0} /\ PoolSize \in Nat
  BY HalvingAssumption DEF HalvingAssumption
<1>3. AssignedUnits(r) \in Nat
  BY <1>2 DEF AssignedUnits, LesserOf
<1>4. \A i, j \in Nat : i * j \in Nat
  OBVIOUS
<1>5. \A i, j \in Nat \ {0} : i * j \in Nat \ {0}
  OBVIOUS
<1>6. AttemptsAtMost(r) \in Nat
  BY <1>1, <1>3, <1>4 DEF AttemptsAtMost
<1>7. TotalStages(r) \in Nat \ {0}
  BY <1>1, <1>2, <1>5 DEF TotalStages
<1> QED
  BY <1>1, <1>6, <1>7

\* Whatever the rows say, what goes on was counted in this round.
LEMMA SurvivorsAreCovered ==
    ASSUME NEW o1
    PROVE  Survivors(o1) \subseteq {m \in Models : Covered(m) /\ Alive(m)}
BY DEF Survivors, Promoted, Cut, Specialists, Kept, Ranked

\* A covered model has attempts.
LEMMA CoveredIsCounted ==
    ASSUME TypeOK, NEW m \in Models, Covered(m)
    PROVE  attempted[m] > 0
<1>1. TotalStages(round) \in Nat \ {0} /\ AttemptsAtMost(round) \in Nat
  BY Sizes DEF TypeOK
<1>2. CoveragePct \in Nat \ {0}
  BY HalvingAssumption DEF HalvingAssumption
<1>3. \A i, j \in Nat \ {0} : i * j \in Nat \ {0}
  OBVIOUS
<1>4. CoveragePct * TotalStages(round) \in Nat \ {0}
  BY <1>1, <1>2, <1>3
<1>5. attempted[m] \in Nat
  BY <1>1 DEF TypeOK
<1>6. attempted[m] * 100 >= CoveragePct * TotalStages(round)
  BY DEF Covered
<1> QED
  BY <1>4, <1>5, <1>6

\* n_stages_attempted of round_runner.py counts the candidates of the round and
\* nobody else, and every variable keeps its shape.
THEOREM TypeCorrect == Spec => []TypeOK
<1>1. Init => TypeOK
  <2> SUFFICES ASSUME Init PROVE TypeOK
    OBVIOUS
  <2>1. 1 \in Rounds
    BY HalvingAssumption DEF HalvingAssumption, Rounds
  <2>2. AttemptsAtMost(1) \in Nat
    BY <2>1, Sizes
  <2>3. 0 \in 0 .. DeadAt /\ 0 \in 0 .. AttemptsAtMost(1)
    BY <2>2, HalvingAssumption DEF HalvingAssumption
  <2> QED
    BY <2>1, <2>3 DEF Init, TypeOK, Uncounted
<1>2. TypeOK /\ [Next]_vars => TypeOK'
  <2> SUFFICES ASSUME TypeOK, [Next]_vars PROVE TypeOK'
    OBVIOUS
  <2> USE DEF TypeOK
  <2>1. ASSUME NextRound PROVE round' \in Rounds /\ phase' \in {"run", "promote", "done"}
    BY <2>1, HalvingAssumption DEF NextRound, Rounds, HalvingAssumption
  <2>2. ASSUME NextRound, attempted' = Uncounted
        PROVE  /\ attempted' \in [Models -> 0 .. AttemptsAtMost(round')]
               /\ \A m \in Models : ~(attempted'[m] > 0)
    <3>1. 0 \in 0 .. AttemptsAtMost(round')
      BY <2>1, <2>2, Sizes
    <3> QED
      BY <2>2, <3>1 DEF Uncounted
  <2>3. CASE RunPipelines
    <3>1. PICK n \in [pool -> 0 .. AttemptsAtMost(round)] :
            /\ attempted' = [m \in Models |-> IF m \in pool THEN n[m] ELSE 0]
            /\ \E rows \in [pool -> [Stages -> Points \cup {NoRow}]] :
                 score' = [m \in Models |->
                     IF m \in pool THEN Overwritten(score[m], rows[m]) ELSE score[m]]
            /\ \E failed \in [pool -> 0 .. DeadAt] :
                 errors' = [m \in Models |->
                     IF m \in pool THEN LesserOf(errors[m] + failed[m], DeadAt) ELSE errors[m]]
      BY <2>3 DEF RunPipelines
    <3>2. UNCHANGED <<round, pool, bonus>> /\ phase' = "promote"
      BY <2>3 DEF RunPipelines
    <3>3. AttemptsAtMost(round) \in Nat /\ DeadAt \in Nat
      BY Sizes, HalvingAssumption DEF HalvingAssumption
    <3>4. /\ attempted' \in [Models -> 0 .. AttemptsAtMost(round)]
          /\ \A m \in Models : attempted'[m] > 0 => m \in pool
      BY <3>1, <3>3
    <3>5. score' \in [Models -> [Stages -> Points \cup {NoRow}]]
      BY <3>1 DEF Overwritten
    <3>6. errors' \in [Models -> 0 .. DeadAt]
      BY <3>1, <3>3 DEF LesserOf
    <3> QED
      BY <3>2, <3>4, <3>5, <3>6 DEF AttemptsAtMost, AssignedUnits
  <2>4. CASE PromoteNobody
    BY <2>4, <2>1, <2>2 DEF PromoteNobody
  <2>5. CASE Promote
    <3>1. pool' \subseteq Models
      BY <2>5, SurvivorsAreCovered DEF Promote
    <3>2. bonus' \subseteq Models
      BY <2>5 DEF Promote, MultiSpecialists, Kept, Ranked
    <3> QED
      BY <2>5, <2>1, <2>2, <3>1, <3>2 DEF Promote
  <2>6. CASE Halt
    BY <2>6 DEF Halt, AttemptsAtMost, AssignedUnits
  <2>7. CASE UNCHANGED vars
    BY <2>7 DEF vars, AttemptsAtMost, AssignedUnits
  <2> QED
    BY <2>3, <2>4, <2>5, <2>6, <2>7 DEF Next
<1> QED
  BY <1>1, <1>2, PTL DEF Spec

\* Who goes on was in the pool: nobody counts the attempts of the others.
LEMMA PoolShrinks ==
    ASSUME TypeOK, [Next]_vars
    PROVE  pool' \subseteq pool
<1>1. CASE Promote
  <2>1. SUFFICES ASSUME NEW m \in pool' PROVE m \in pool
    OBVIOUS
  <2>2. m \in Models /\ Covered(m)
    BY <1>1, SurvivorsAreCovered DEF Promote
  <2>3. attempted[m] > 0
    BY <2>2, CoveredIsCounted
  <2> QED
    BY <2>2, <2>3 DEF TypeOK
<1> QED
  BY <1>1 DEF Next, RunPipelines, PromoteNobody, Halt, vars

\* A candidate that is out stays out, although every round ranks the rows of
\* all rounds: nobody counts its attempts, so the coverage gate takes it away.
THEOREM OutForGood == Spec => EliminatedStayOut
<1>1. TypeOK /\ [Next]_vars => [pool' \subseteq pool]_vars
  BY PoolShrinks
<1>2. QED
  BY <1>1, TypeCorrect, PTL DEF Spec, EliminatedStayOut

\* No candidate goes on, or wins, with a dead error history.
THEOREM SurvivorsLive == Spec => []NoDeadSurvivor
<1>1. Init => NoDeadSurvivor
  BY HalvingAssumption DEF HalvingAssumption, Init, NoDeadSurvivor, Alive
<1>2. NoDeadSurvivor /\ [Next]_vars => NoDeadSurvivor'
  <2> SUFFICES ASSUME NoDeadSurvivor, [Next]_vars PROVE NoDeadSurvivor'
    OBVIOUS
  <2>1. CASE Promote
    BY <2>1, SurvivorsAreCovered DEF Promote, NoDeadSurvivor, Alive
  <2> QED
    BY <2>1 DEF Next, RunPipelines, PromoteNobody, Halt, vars, NoDeadSurvivor, Alive
<1> QED
  BY <1>1, <1>2, PTL DEF Spec
-----------------------------------------------------------------------------
(* The order of a ranking: what the cut and the stage winners rest on. *)

\* The points of a model's rows, nothing for a stage without one: Aggregate folds
\* them into their sum.
PointsOf(row) == [s \in Stages |-> IF row[s] = NoRow THEN 0 ELSE row[s]]

\* The recursion of that fold.
IsPointsFold(k, row) ==
    k = [t \in SUBSET Stages |->
           IF t = {} THEN 0
           ELSE LET s == CHOOSE s \in t : TRUE
                IN  IF row[s] = NoRow THEN k[t \ {s}] ELSE k[t \ {s}] + row[s]]

LEMMA PointsAddUp ==
    ASSUME NEW row \in [Stages -> Points \cup {NoRow}]
    PROVE  FoldFunction(LAMBDA p, acc : IF p = NoRow THEN acc ELSE acc + p, 0, row)
               = SumFunctionOnSet(PointsOf(row), Stages)
<1> DEFINE k == CHOOSE k : IsPointsFold(k, row)
           w == PointsOf(row)
<1>1. FoldFunction(LAMBDA p, acc : IF p = NoRow THEN acc ELSE acc + p, 0, row) = k[Stages]
  BY DEF FoldFunction, FoldFunctionOnSet, MapThenFoldSet, IsPointsFold
<1>2. IsFiniteSet(Stages) /\ Points \subseteq Nat
  BY HalvingAssumption
<1>3. \A s \in Stages : w[s] \in Nat
  BY <1>2 DEF PointsOf
<1>4. PICK g : SumsUp(g, w, Stages)
  <2> HIDE DEF w
  <2>1. QED
    BY <1>2, <1>3, SumsExist
<1>5. SumFunctionOnSet(w, Stages) = g[Stages]
  <2> HIDE DEF w
  <2>1. QED
    BY <1>2, <1>4, SumIs
<1>6. \A t \in SUBSET Stages : \A s \in t :
          g[t] = IF row[s] = NoRow THEN g[t \ {s}] ELSE g[t \ {s}] + row[s]
  <2> SUFFICES ASSUME NEW t \in SUBSET Stages, NEW s \in t
               PROVE  g[t] = IF row[s] = NoRow THEN g[t \ {s}] ELSE g[t \ {s}] + row[s]
    OBVIOUS
  <2>1. g[t] = w[s] + g[t \ {s}] /\ g[t \ {s}] \in Nat
    BY <1>4 DEF SumsUp
  <2>2. CASE row[s] = NoRow
    <3>1. w[s] = 0
      BY <2>2 DEF PointsOf
    <3> HIDE DEF w
    <3>2. QED
      BY <2>1, <2>2, <3>1
  <2>3. CASE row[s] # NoRow
    <3>1. w[s] = row[s] /\ row[s] \in Nat
      BY <1>2, <2>3 DEF PointsOf
    <3> HIDE DEF w
    <3>2. QED
      BY <2>1, <2>3, <3>1
  <2>4. QED
    BY <2>2, <2>3
<1>7. g \in [SUBSET Stages -> Nat] /\ g[{}] = 0
  BY <1>4 DEF SumsUp
<1>8. IsPointsFold(g, row)
  <2>1. ASSUME NEW t \in SUBSET Stages, t # {}
        PROVE  g[t] = LET s == CHOOSE s \in t : TRUE
                      IN  IF row[s] = NoRow THEN g[t \ {s}] ELSE g[t \ {s}] + row[s]
    <3>1. (CHOOSE s \in t : TRUE) \in t
      BY <2>1
    <3>2. QED
      BY <1>6, <3>1
  <2>2. g = [t \in SUBSET Stages |-> g[t]]
    BY <1>7
  <2>3. QED
    BY <1>7, <2>1, <2>2 DEF IsPointsFold
<1>9. IsPointsFold(k, row)
  BY <1>8
<1>10. SUBSET Stages \subseteq {t \in SUBSET Stages : k[t] = g[t]}
  <2> DEFINE F == {t \in SUBSET Stages : k[t] = g[t]}
  <2> HIDE DEF k, w
  <2>1. \A t \in SUBSET Stages :
            k[t] = IF t = {} THEN 0
                   ELSE LET s == CHOOSE s \in t : TRUE
                        IN  IF row[s] = NoRow THEN k[t \ {s}] ELSE k[t \ {s}] + row[s]
    BY <1>9 DEF IsPointsFold
  <2>2. {} \in F
    BY <1>7, <2>1
  <2>3. ASSUME NEW t \in SUBSET Stages, t # {}, \A s \in t : t \ {s} \in F
        PROVE  t \in F
    <3> DEFINE s == CHOOSE s \in t : TRUE
    <3>1. s \in t
      BY <2>3
    <3>2. k[t \ {s}] = g[t \ {s}]
      BY <2>3, <3>1
    <3>3. k[t] = IF row[s] = NoRow THEN k[t \ {s}] ELSE k[t \ {s}] + row[s]
      BY <2>1, <2>3
    <3> HIDE DEF s
    <3>4. k[t] = g[t]
      BY <1>6, <3>1, <3>2, <3>3
    <3>5. QED
      BY <3>4
  <2>4. QED
    <3> HIDE DEF F
    <3>1. SUBSET Stages \subseteq F
      BY <1>2, <2>2, <2>3, SubsetInduction
    <3>2. QED
      BY <3>1 DEF F
<1>11. QED
  BY <1>1, <1>5, <1>10

LEMMA AggregateIsInt ==
    ASSUME TypeOK
    PROVE  \A m \in Models : Aggregate[m] \in Int
<1> SUFFICES ASSUME NEW m \in Models PROVE Aggregate[m] \in Int
  OBVIOUS
<1> DEFINE sum == [x \in Models |->
                     FoldFunction(LAMBDA p, acc : IF p = NoRow THEN acc ELSE acc + p, 0, score[x])]
<1>1. sum[m] \in Nat
  <2>1. score[m] \in [Stages -> Points \cup {NoRow}]
    BY DEF TypeOK
  <2>2. \A s \in Stages : PointsOf(score[m])[s] \in Nat
    <3>1. Points \subseteq Nat
      BY HalvingAssumption
    <3>2. QED
      BY <2>1, <3>1 DEF PointsOf
  <2>3. SumFunctionOnSet(PointsOf(score[m]), Stages) \in Nat
    BY <2>2, HalvingAssumption, SumIsNat
  <2>4. QED
    BY <2>1, <2>3, PointsAddUp
<1>2. Cardinality(Reported) \in Nat
  BY HalvingAssumption, FS_Subset, FS_CardinalityType DEF Reported
<1>3. /\ FullPoints * Cardinality(Reported) \in Int
      /\ Bonus * Cardinality(Reported) \in Int
  BY <1>2, HalvingAssumption
<1>4. Aggregate[m] = IF m \in bonus
                     THEN LesserOf(FullPoints * Cardinality(Reported),
                                   sum[m] + Bonus * Cardinality(Reported))
                     ELSE sum[m]
  BY DEF Aggregate
<1> HIDE DEF sum
<1>5. QED
  BY <1>1, <1>3, <1>4 DEF LesserOf

\* With numbers for points, Before is a strict total order of the models.
LEMMA BeforeIsOrder ==
    ASSUME NEW p, \A m \in Models : p[m] \in Int
    PROVE  /\ \A m, n \in Models : m # n => Before(m, n, p) \/ Before(n, m, p)
           /\ \A m, n \in Models : ~(Before(m, n, p) /\ Before(n, m, p))
           /\ \A l, m, n \in Models : Before(l, m, p) /\ Before(m, n, p) => Before(l, n, p)
<1>1. /\ \A m \in Models : CostRank[m] \in Nat
      /\ \A m, n \in Models : CostRank[m] = CostRank[n] => m = n
  BY HalvingAssumption
<1>2. QED
  BY <1>1 DEF Before

\* A field has a first and a last.
LEMMA FieldHasEnds ==
    ASSUME NEW p, \A m \in Models : p[m] \in Int, NEW S \in SUBSET Models, S # {}
    PROVE  /\ \E m \in S : \A n \in S \ {m} : Before(m, n, p)
           /\ \E m \in S : \A n \in S \ {m} : Before(n, m, p)
<1> DEFINE R == {q \in Models \X Models : Before(q[1], q[2], p)}
<1>1. /\ \A m, n \in Models : <<m, n>> \in R <=> Before(m, n, p)
      /\ \A m, n \in S : m # n => Before(m, n, p) \/ Before(n, m, p)
  BY BeforeIsOrder
<1> HIDE DEF R
<1>2. IsOrder(R, S) /\ IsFiniteSet(S)
  <2>1. IsOrder(R, S)
    BY <1>1, BeforeIsOrder DEF IsOrder
  <2>2. IsFiniteSet(S)
    BY HalvingAssumption, FS_Subset
  <2>3. QED
    BY <2>1, <2>2
<1>3. PICK least \in S : \A n \in S : <<n, least>> \notin R
  BY <1>2, OrderHasFirst
<1>4. PICK most \in S : \A n \in S : <<most, n>> \notin R
  BY <1>2, OrderHasLast
<1>5. \E m \in S : \A n \in S \ {m} : Before(m, n, p)
  BY <1>1, <1>3
<1>6. \E m \in S : \A n \in S \ {m} : Before(n, m, p)
  BY <1>1, <1>4
<1>7. QED
  BY <1>5, <1>6

\* The winner of a stage is one of the models it ranks.
LEMMA WinnerIsRanked ==
    ASSUME TypeOK, NEW s \in Reported
    PROVE  StageWinner(s) \in RankedIn(s)
<1> DEFINE p == [x \in Models |-> score[x][s]]
<1>1. s \in Stages /\ RankedIn(s) # {} /\ RankedIn(s) \in SUBSET Models
  BY DEF Reported, RankedIn
<1>2. \A m \in Models : p[m] \in Int
  <2>1. Points \cup {NoRow} \subseteq Int
    BY HalvingAssumption DEF NoRow
  <2>2. QED
    BY <1>1, <2>1 DEF TypeOK
<1>3. \E m \in RankedIn(s) : \A n \in RankedIn(s) \ {m} : Before(m, n, p)
  <2> HIDE DEF p
  <2>1. QED
    BY <1>1, <1>2, FieldHasEnds
<1>4. QED
  BY <1>3 DEF StageWinner

\* The cut leaves as many as it is told to, or fewer.
LEMMA CutIsSmall ==
    ASSUME TypeOK, NEW size \in Nat
    PROVE  IsFiniteSet(Cut(size)) /\ Cardinality(Cut(size)) <= size
<1>1. IsFiniteSet(Kept) /\ Kept \in SUBSET Models
  BY HalvingAssumption, FS_Subset DEF Kept, Ranked
<1>2. Cut(size) \subseteq Kept /\ IsFiniteSet(Cut(size)) /\ Cardinality(Cut(size)) \in Nat
  BY <1>1, FS_Subset, FS_CardinalityType DEF Cut
<1>3. CASE Cut(size) = {}
  BY <1>2, <1>3, FS_EmptySet
<1>4. CASE Cut(size) # {}
  <2>1. PICK m \in Cut(size) : \A n \in Cut(size) \ {m} : Before(n, m, Aggregate)
    BY <1>1, <1>2, <1>4, AggregateIsInt, FieldHasEnds
  <2> DEFINE Ahead == {n \in Kept : Before(n, m, Aggregate)}
  <2>2. Cardinality(Ahead) < size
    BY <2>1 DEF Cut
  <2>3. Cut(size) \ {m} \subseteq Ahead /\ Ahead \subseteq Kept
    BY <1>2, <2>1
  <2> HIDE DEF Ahead
  <2>4. IsFiniteSet(Ahead) /\ Cardinality(Ahead) \in Nat
    BY <1>1, <2>3, FS_Subset, FS_CardinalityType
  <2>5. Cardinality(Cut(size) \ {m}) <= Cardinality(Ahead)
    BY <2>3, <2>4, FS_Subset
  <2>6. Cardinality(Cut(size) \ {m}) = Cardinality(Cut(size)) - 1
    BY <1>2, <2>1, FS_RemoveElement
  <2>7. QED
    BY <1>2, <2>2, <2>4, <2>5, <2>6
<1>5. QED
  BY <1>2, <1>3, <1>4

\* What goes on, the winners of stages aside, passed the cut.
LEMMA SurvivorsPassedCut ==
    ASSUME NEW o1
    PROVE  /\ Survivors(o1) \ {StageWinner(s) : s \in Reported} \subseteq Cut(NextRoundSize(round))
           /\ round = NRounds => Survivors(o1) \subseteq Cut(NextRoundSize(round))
BY DEF Survivors, Promoted, Specialists

\* However rounds rank, prune and tie, the field a round is given is no larger
\* than its scheduled size, the specialists aside, and the last round ends with
\* one candidate or none (driver.py's cut, schedule.next_round_size).
THEOREM FieldShrinks == Spec => []FieldNarrows
<1>1. Init => FieldNarrows
  BY DEF Init, FieldNarrows, CutHolds, OneWinner
<1>2. TypeOK /\ FieldNarrows /\ [Next]_vars => FieldNarrows'
  <2> SUFFICES ASSUME TypeOK, FieldNarrows, [Next]_vars PROVE FieldNarrows'
    OBVIOUS
  <2>1. /\ round \in Rounds /\ NRounds \in Nat \ {0} /\ RoundSizes \in [Rounds -> Nat \ {0}]
        /\ IsFiniteSet(Models) /\ pool \subseteq Models
    BY HalvingAssumption DEF TypeOK
  <2>2. CASE RunPipelines
    BY <2>2 DEF RunPipelines, FieldNarrows, CutHolds, OneWinner
  <2>3. CASE PromoteNobody
    <3>1. pool' = {} /\ \A W : Cardinality(pool' \ W) = 0
      BY <2>3, FS_EmptySet DEF PromoteNobody
    <3>2. Cardinality(pool') <= 1
      BY <3>1, FS_EmptySet
    <3>3. phase' = "run" => round' = round + 1 /\ round # NRounds
      BY <2>3 DEF PromoteNobody, NextRound
    <3>4. phase' = "run" => RoundSizes[round'] \in Nat
      BY <2>1, <3>3 DEF Rounds
    <3>5. phase' = "run" => Cardinality((pool \ {StageWinner(s) : s \in Reported})') <= RoundSizes[round']
      BY <3>1, <3>4
    <3>6. QED
      BY <3>2, <3>5 DEF FieldNarrows, CutHolds, OneWinner
  <2>4. CASE Promote
    <3>1. PICK o1 \in PruneSurvivors : pool' = Survivors(o1)
      BY <2>4 DEF Promote
    <3>2. NextRound /\ UNCHANGED score
      BY <2>4 DEF Promote
    <3>3. {StageWinner(s) : s \in Reported}' = {StageWinner(s) : s \in Reported}
      BY <3>2 DEF StageWinner, Reported, RankedIn
    <3> DEFINE size == NextRoundSize(round)
    <3>4. size \in Nat /\ (round = NRounds => size = 1)
      BY <2>1 DEF NextRoundSize, Rounds
    <3>5. IsFiniteSet(Cut(size)) /\ Cardinality(Cut(size)) <= size /\ Cardinality(Cut(size)) \in Nat
      BY <3>4, CutIsSmall, FS_CardinalityType
    <3>6. CASE round = NRounds
      <4>1. phase' = "done" /\ pool' \subseteq Cut(size)
        BY <3>1, <3>2, <3>6, SurvivorsPassedCut DEF NextRound
      <4>2. Cardinality(pool') <= Cardinality(Cut(size)) /\ Cardinality(pool') \in Nat
        BY <3>5, <4>1, FS_Subset, FS_CardinalityType
      <4>3. Cardinality(pool') <= 1
        BY <3>4, <3>5, <3>6, <4>2
      <4>4. QED
        BY <4>1, <4>3 DEF FieldNarrows, CutHolds, OneWinner
    <3>7. CASE round # NRounds
      <4>1. /\ phase' = "run" /\ round' = round + 1 /\ size = RoundSizes[round']
        BY <3>2, <3>7 DEF NextRound, NextRoundSize
      <4> DEFINE rest == pool' \ {StageWinner(s) : s \in Reported}
      <4>2. rest \subseteq Cut(size)
        BY <3>1, SurvivorsPassedCut
      <4> HIDE DEF rest, size
      <4>3. Cardinality(rest) <= Cardinality(Cut(size)) /\ Cardinality(rest) \in Nat
        BY <3>5, <4>2, FS_Subset, FS_CardinalityType
      <4>4. Cardinality(rest) <= RoundSizes[round']
        BY <3>4, <3>5, <4>1, <4>3
      <4>5. rest = (pool \ {StageWinner(s) : s \in Reported})'
        BY <3>3 DEF rest
      <4>6. QED
        BY <4>1, <4>4, <4>5 DEF FieldNarrows, CutHolds, OneWinner
    <3>8. QED
      BY <3>6, <3>7
  <2>5. CASE Halt
    BY <2>5, FS_EmptySet DEF Halt, FieldNarrows, CutHolds, OneWinner
  <2>6. CASE UNCHANGED vars
    BY <2>6 DEF vars, FieldNarrows, CutHolds, OneWinner, StageWinner, Reported, RankedIn
  <2>7. QED
    BY <2>2, <2>3, <2>4, <2>5, <2>6 DEF Next
<1>3. QED
  BY <1>1, <1>2, TypeCorrect, PTL DEF Spec

\* Before the last round a live and covered candidate that won a stage goes on,
\* whatever the pruner draws and however far down the aggregate it is.
THEOREM SpecialistsGoOn == Spec => SpecialistSurvives
<1>1. ASSUME TypeOK, [Next]_vars, phase = "promote", round < NRounds, NEW s \in Reported,
             Covered(StageWinner(s)), Alive(StageWinner(s))
      PROVE  StageWinner(s) \in pool' \/ UNCHANGED vars
  <2>1. StageWinner(s) \in RankedIn(s)
    BY <1>1, WinnerIsRanked
  <2>2. StageWinner(s) \in Kept
    BY <1>1, <2>1 DEF Kept, Ranked, RankedIn, Reported
  <2>3. StageWinner(s) \in Specialists /\ round # NRounds /\ StageWinner(s) \in Models
    BY <1>1, <2>1, <2>2, HalvingAssumption DEF Specialists, RankedIn, TypeOK, Rounds
  <2>4. \A o1 : StageWinner(s) \in Survivors(o1)
    BY <1>1, <2>3 DEF Survivors, Promoted
  <2>5. CASE Promote
    BY <2>4, <2>5 DEF Promote
  <2>6. QED
    BY <1>1, <2>2, <2>5 DEF Next, RunPipelines, PromoteNobody, Halt
<1>2. TypeOK /\ [Next]_vars =>
        [phase = "promote" /\ round < NRounds =>
           \A s \in Reported : Covered(StageWinner(s)) /\ Alive(StageWinner(s))
                                 => StageWinner(s) \in pool']_vars
  BY <1>1
<1>3. QED
  BY <1>2, TypeCorrect, PTL DEF Spec, SpecialistSurvives

-----------------------------------------------------------------------------
(* What Cascade takes a promotion to be. *)

\* Some of the pool that have rows, and one at most after the last round (Elect).
IsElection == pool' \in SUBSET (pool \cap Ranked) /\ (round = NRounds => Cardinality(pool') <= 1)

\* However promote ranks, prunes, cuts and preserves, whom it returns is an outcome
\* Cascade allows: the phases are checked with no other (driver.py, promote).
THEOREM PromotionElects == Spec => [][Promote \/ PromoteNobody => IsElection]_vars
<1>1. ASSUME TypeOK, FieldNarrows', [Next]_vars, Promote \/ PromoteNobody
      PROVE  IsElection
  <2>1. pool' \subseteq Ranked
    BY <1>1 DEF Promote, PromoteNobody, Survivors, Promoted, Cut, Specialists, Kept
  <2>2. pool' \subseteq pool
    BY <1>1, PoolShrinks
  <2>3. round = NRounds => phase' = "done"
    BY <1>1 DEF Promote, PromoteNobody, NextRound
  <2>4. QED
    BY <1>1, <2>1, <2>2, <2>3 DEF IsElection, FieldNarrows, OneWinner
<1>2. TypeOK /\ FieldNarrows' /\ [Next]_vars => [Promote \/ PromoteNobody => IsElection]_vars
  BY <1>1
<1>3. QED
  BY <1>2, TypeCorrect, FieldShrinks, PTL DEF Spec
===============================================================================
