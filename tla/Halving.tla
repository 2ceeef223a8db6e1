------------------------------- MODULE Halving -------------------------------
(***************************************************************************)
(* The cascade of rounds of runner/benchmark.py: run_phase hands the pool  *)
(* of candidates to run_round, which runs the pipelines, ranks every row   *)
(* of the experiment tag and asks halving/driver.py who goes on.           *)
(*                                                                         *)
(* The pipelines themselves are RoundPipeline's subject.  Here a round     *)
(* gives each candidate any number of attempts, and rows for at most as    *)
(* many stages (fewer, if the resume cache answers from another tag, if a  *)
(* validator stage is skipped or if the row could not be stored).  Scores  *)
(* are whole numbers, ties break in a fixed order, and the bootstrap of    *)
(* the pruner ends in any result: it can drop one, some or all of a field  *)
(* that is large enough.                                                   *)
(***************************************************************************)
EXTENDS Integers, FiniteSets, Functions

CONSTANTS
    Models,        \* the candidates of run_phase
    Stages,        \* the stage ids of the graph
    NRounds,       \* len(schedule.round_sizes)
    RoundSizes,    \* schedule.round_sizes
    UnitsPerArm,   \* schedule.units_per_arm
    PoolSize,      \* how many task units there are
    CoveragePct,   \* coverage_min of promote, 70 in the code
    NoPruneUpTo,   \* the pruner returns everyone up to this many, 3 in the code
    Points,        \* what a model can score in a stage
    FullPoints,    \* the 1.0 of a stage
    Bonus,         \* the multi-specialty bonus, 0.05 of FullPoints
    CostRank,      \* the order in which cost, latency and name break ties
    DeadAt         \* errors that kill a candidate, 3 permanent or 6 transient

Rounds == 1 .. NRounds
NoRow == -1

ASSUME HalvingAssumption ==
    /\ NRounds \in Nat \ {0}
    /\ RoundSizes \in [Rounds -> Nat \ {0}]
    /\ UnitsPerArm \in [Rounds -> Nat \ {0}]
    /\ IsFiniteSet(Models) /\ IsFiniteSet(Stages) /\ Stages # {}
    /\ PoolSize \in Nat /\ CoveragePct \in 1 .. 100 /\ NoPruneUpTo \in Nat
    /\ FullPoints \in Nat /\ Points \subseteq 0 .. FullPoints /\ Bonus \in Nat
    /\ CostRank \in [Models -> Nat]
    /\ \A m, n \in Models : CostRank[m] = CostRank[n] => m = n
    /\ DeadAt \in Nat \ {0}

VARIABLES
    phase,       \* where run_phase is
    round,       \* round_idx
    pool,        \* current_candidates
    attempted,   \* n_stages_attempted, a dict of one run_round
    score,       \* storage: what the rows of the tag make of a model in a stage
    errors,      \* Halving.error_history, counted up to DeadAt
    bonus        \* Halving.last_score_bonus: who has it

vars == <<phase, round, pool, attempted, score, errors, bonus>>

LesserOf(a, b) == IF a <= b THEN a ELSE b

-----------------------------------------------------------------------------
(* What a round works with *)

\* assign_task_units_for_round clamps to the task units there are.
AssignedUnits(r) == LesserOf(UnitsPerArm[r], PoolSize)
AttemptsAtMost(r) == Cardinality(Stages) * AssignedUnits(r)

\* total_stages, as run_round passes it.
TotalStages(r) == Cardinality(Stages) * UnitsPerArm[r]

\* Slip: the size of the round just finished.
NextRoundSizeLate(r) == IF r = NRounds THEN 1 ELSE RoundSizes[r]

\* schedule.next_round_size.
NextRoundSize(r) == IF r = NRounds THEN 1 ELSE RoundSizes[r + 1]

\* The keys of report.stages and of its aggregate: whoever has rows.
RankedIn(s) == {m \in Models : score[m][s] # NoRow}
Reported == {s \in Stages : RankedIn(s) # {}}
Ranked == {m \in Models : \E s \in Stages : score[m][s] # NoRow}

\* cost_tiebreak_key: m sorts before n.
Before(m, n, points) ==
    \/ points[m] > points[n]
    \/ points[m] = points[n] /\ CostRank[m] < CostRank[n]

\* StageRanking.winner, among all models with rows, the eliminated included.
StageWinner(s) ==
    CHOOSE m \in RankedIn(s) :
        \A n \in RankedIn(s) \ {m} : Before(m, n, [x \in Models |-> score[x][s]])

\* The mean over the reported stages, as a sum, with the bonus of last round.
Aggregate ==
    LET sum == [m \in Models |->
                  FoldFunction(LAMBDA p, acc : IF p = NoRow THEN acc ELSE acc + p, 0, score[m])]
    IN [m \in Models |->
          IF m \in bonus THEN LesserOf(FullPoints * Cardinality(Reported),
                                      sum[m] + Bonus * Cardinality(Reported))
          ELSE sum[m]]

-----------------------------------------------------------------------------
(* The parts of promote *)

\* Slip: a model nobody counted is taken to be covered.
CoveredIfCounted(m) ==
    attempted[m] > 0 => attempted[m] * 100 >= CoveragePct * TotalStages(round)

\* The coverage gate.
Covered(m) == attempted[m] * 100 >= CoveragePct * TotalStages(round)

\* The scores promote goes on with.
Kept == {m \in Ranked : Covered(m)}

\* mad_bootstrap_prune.
PruneSurvivors == IF Cardinality(Kept) <= NoPruneUpTo THEN {Kept} ELSE SUBSET Kept

\* The halving cut.
Cut(size) ==
    {m \in Kept : Cardinality({n \in Kept : Before(n, m, Aggregate)}) < size}

Specialists == {StageWinner(s) : s \in Reported} \cap Kept

\* Slips: the last round preserves too; a pruned specialist stays out.
PromotedAlways(o1) == (Cut(NextRoundSize(round)) \cap o1) \cup Specialists
PromotedUnpruned(o1) ==
    (Cut(NextRoundSize(round)) \cup (IF round = NRounds THEN {} ELSE Specialists)) \cap o1

\* Prune and cut, and before the last round the specialists on top.
Promoted(o1) ==
    (Cut(NextRoundSize(round)) \cap o1)
        \cup (IF round = NRounds THEN {} ELSE Specialists)

\* is_alive_candidate.
Alive(m) == errors[m] < DeadAt

\* Slip: the filter runs before the specialists are preserved.
SurvivorsFilteredFirst(o1) ==
    {m \in Cut(NextRoundSize(round)) \cap o1 : Alive(m)}
        \cup (IF round = NRounds THEN {} ELSE Specialists)

\* candidates_out.
Survivors(o1) == {m \in Promoted(o1) : Alive(m)}

\* The covered models that won two stages or more.
MultiSpecialists ==
    {m \in Kept : Cardinality({s \in Reported : StageWinner(s) = m}) >= 2}

-----------------------------------------------------------------------------
Uncounted == [m \in Models |-> 0]

Init ==
    /\ phase = "run"
    /\ round = 1
    /\ pool = Models
    /\ attempted = Uncounted
    /\ score = [m \in Models |-> [s \in Stages |-> NoRow]]
    /\ errors = [m \in Models |-> 0]
    /\ bonus = {}

Overwritten(old, new) == [s \in Stages |-> IF new[s] = NoRow THEN old[s] ELSE new[s]]

\* The pipelines of the round: attempts, rows and errors of each candidate.
RunPipelines ==
    /\ phase = "run"
    /\ pool # {}
    /\ \E n \in [pool -> 0 .. AttemptsAtMost(round)] :
         /\ attempted' = [m \in Models |-> IF m \in pool THEN n[m] ELSE 0]
         /\ \E rows \in [pool -> [Stages -> Points \cup {NoRow}]] :
              /\ \A m \in pool : Cardinality({s \in Stages : rows[m][s] # NoRow}) <= n[m]
              /\ score' = [m \in Models |->
                             IF m \in pool THEN Overwritten(score[m], rows[m]) ELSE score[m]]
         /\ \E failed \in [pool -> 0 .. DeadAt] :
              /\ \A m \in pool : failed[m] <= n[m]
              /\ errors' = [m \in Models |->
                              IF m \in pool THEN LesserOf(errors[m] + failed[m], DeadAt) ELSE errors[m]]
    /\ phase' = "promote"
    /\ UNCHANGED <<round, pool, bonus>>

\* run_phase goes on to the next round, or the cascade is over.
NextRound ==
    IF round = NRounds
      THEN phase' = "done" /\ round' = round
      ELSE phase' = "run" /\ round' = round + 1

\* promote, with no scores at all or none that are covered: nobody goes on.
PromoteNobody ==
    /\ phase = "promote"
    /\ Kept = {}
    /\ pool' = {}
    /\ attempted' = Uncounted
    /\ NextRound
    /\ UNCHANGED <<score, errors, bonus>>

\* Slip: the attempts are kept from round to round, as the errors are.
PromoteKeepingCount ==
    /\ phase = "promote"
    /\ Kept # {}
    /\ \E o1 \in PruneSurvivors : pool' = Survivors(o1)
    /\ bonus' = MultiSpecialists
    /\ NextRound
    /\ UNCHANGED <<attempted, score, errors>>

\* promote, otherwise.  The counter goes when run_round returns.
Promote ==
    /\ phase = "promote"
    /\ Kept # {}
    /\ \E o1 \in PruneSurvivors : pool' = Survivors(o1)
    /\ bonus' = MultiSpecialists
    /\ attempted' = Uncounted
    /\ NextRound
    /\ UNCHANGED <<score, errors>>

\* No candidates left: run_phase leaves its loop.
Halt ==
    /\ phase = "run"
    /\ pool = {}
    /\ phase' = "done"
    /\ UNCHANGED <<round, pool, attempted, score, errors, bonus>>

Next == RunPipelines \/ PromoteNobody \/ Promote \/ Halt

Spec == Init /\ [][Next]_vars

-----------------------------------------------------------------------------
(* What the cascade promises *)

\* The shape of the state; and only the candidates of the round under way are
\* counted (n_stages_attempted lives as long as one run_round).
TypeOK ==
    /\ phase \in {"run", "promote", "done"}
    /\ round \in Rounds
    /\ pool \subseteq Models /\ bonus \subseteq Models
    /\ attempted \in [Models -> 0 .. AttemptsAtMost(round)]
    /\ \A m \in Models : attempted[m] > 0 => phase = "promote" /\ m \in pool
    /\ score \in [Models -> [Stages -> Points \cup {NoRow}]]
    /\ errors \in [Models -> 0 .. DeadAt]

\* A round ranks every row of the tag, of the models that went out earlier too;
\* none of them comes back (benchmark.py run_phase, driver.py's coverage gate).
EliminatedStayOut == [][pool' \subseteq pool]_vars

\* The last round ends with one winner or none, whoever won its stages
\* (schedule.next_round_size, and the specialists driver.py skips there).
OneWinner == phase = "done" => Cardinality(pool) <= 1

\* No candidate with a dead error history goes on, a specialist included
\* (driver.py: the filter comes after the preservation).
NoDeadSurvivor == phase # "promote" => \A m \in pool : Alive(m)

\* Before the last round, neither the prune nor the cut takes a covered and
\* live candidate that won a stage (driver.py, specialist preservation).
SpecialistSurvives ==
    [][phase = "promote" /\ round < NRounds =>
         \A s \in Reported : Covered(StageWinner(s)) /\ Alive(StageWinner(s))
                               => StageWinner(s) \in pool']_vars

\* A round after the first has no more candidates than the schedule gives it,
\* the specialists aside (the sizes n_calls_for_stage counts calls with).
CutHolds ==
    phase = "run" /\ round > 1 =>
        Cardinality(pool \ {StageWinner(s) : s \in Reported}) <= RoundSizes[round]

\* The field narrows as scheduled, from round to round and to one.
FieldNarrows == CutHolds /\ OneWinner

\* Not so: a candidate that attempted every stage of every task unit it was
\* given is never dropped for coverage (driver.py:5, below 70% of the stages).
FullAttemptKept ==
    phase = "promote" =>
        \A m \in pool : attempted[m] = AttemptsAtMost(round) /\ attempted[m] > 0 => Covered(m)
===============================================================================
