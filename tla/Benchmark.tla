------------------------------- MODULE Benchmark -------------------------------
(***************************************************************************)
(* run_phase and the machines around it that share nothing with each       *)
(* other, side by side: a behaviour is of the `job` it starts with, and of *)
(* the lists that are only computed with there is one per state.           *)
(***************************************************************************)
EXTENDS Integers, Sequences, Cascade, SharedCache, FileConnection, PostgresPool, Pairing, StageGraph,
        Preflight, Shortlist, StageNames

CONSTANTS
    Jobs,
    Requests,        \* calls of estimate_top_n_by_cost: [rows, denied, n, seats]
    EndpointLists,   \* arguments of _pick_best_upstream
    StageOps         \* ops and languages: [op, lang]

ASSUME BenchmarkAssumption ==
    /\ \A q \in Requests : IsCatalogue(q.rows) /\ q.n \in Int /\ q.seats \in Nat
    /\ \A endpoints \in EndpointLists : AreEndpoints(endpoints)
    /\ \A s \in StageOps : IsStageOp(s)

VARIABLES
    job, list,
    gateLock, spent, reserved, seeded, last, gatePc, res, raw, eff, written, ledger, restarts, overrun, paid

\* Two calls that race for one key of an op of which one call fits the cap.
B == INSTANCE BudgetGate WITH
        lock <- gateLock, pc <- gatePc, NCalls <- 2, Keys <- {"A/enrich"}, Ops <- {"enrich"},
        OpOf <- [k \in {"A/enrich"} |-> "enrich"], KeyOf <- [c \in 1 .. 2 |-> "A/enrich"],
        Budgeted <- {"enrich"}, Cap <- [o \in {"enrich"} |-> 4], HeadroomNum <- 3, HeadroomDen <- 2,
        Floor <- [o \in {"enrich"} |-> 2], Costs <- {0, 3}, Replaced <- {0, 1},
        PriorSpend <- [k \in {"A/enrich"} |-> 1], MaxRestarts <- 1

gateVars == <<gateLock, spent, reserved, seeded, last, gatePc, res, raw, eff, written, ledger, restarts, overrun, paid>>
vars == <<job, list, cascadeVars, cacheVars, connectionVars, poolVars, preflightVars, pairingVars, graphVars, gateVars>>

Lists ==
    CASE job = "shortlist" -> Requests
      [] job = "upstream" -> EndpointLists
      [] job = "op" -> StageOps
      [] OTHER -> {<<>>}

-----------------------------------------------------------------------------
\* What a job does not use is in one initial state for all.
Init ==
    /\ job \in Jobs
    /\ CascadeInit /\ (job = "cascade" \/ tag = CHOOSE t \in Tags : TRUE)
    /\ CacheInit /\ (job = "cache" \/ stored = {})
    /\ PoolInit /\ (job = "postgres" \/ stamps = {})
    /\ PairingInit
    /\ job = "pairing" \/ (n = 1 /\ \A i, j \in DOMAIN family : family[i] = family[j] /\ family[i] = CHOOSE f \in Families : TRUE)
    /\ GraphInit /\ (job = "graph" \/ graph = <<>>)
    /\ ConnectionInit /\ PreflightInit /\ B!Init
    /\ list \in Lists

Cascading(A) == job = "cascade" /\ A /\ UNCHANGED <<job, list, cacheVars, connectionVars, poolVars, preflightVars, pairingVars, graphVars, gateVars>>
Caching(A) == job = "cache" /\ A /\ UNCHANGED <<job, list, cascadeVars, connectionVars, poolVars, preflightVars, pairingVars, graphVars, gateVars>>
Filing(A) == job = "file" /\ A /\ UNCHANGED <<job, list, cascadeVars, cacheVars, poolVars, preflightVars, pairingVars, graphVars, gateVars>>
Pooling(A) == job = "postgres" /\ A /\ UNCHANGED <<job, list, cascadeVars, cacheVars, connectionVars, preflightVars, pairingVars, graphVars, gateVars>>
Pinging(A) == job = "preflight" /\ A /\ UNCHANGED <<job, list, cascadeVars, cacheVars, connectionVars, poolVars, pairingVars, graphVars, gateVars>>
Pairing(A) == job = "pairing" /\ A /\ UNCHANGED <<job, list, cascadeVars, cacheVars, connectionVars, poolVars, preflightVars, graphVars, gateVars>>
Ordering(A) == job = "graph" /\ A /\ UNCHANGED <<job, list, cascadeVars, cacheVars, connectionVars, poolVars, preflightVars, pairingVars, gateVars>>
Gating(A) == job = "gate" /\ A /\ UNCHANGED <<job, list, cascadeVars, cacheVars, connectionVars, poolVars, preflightVars, pairingVars, graphVars>>

Next ==
    \/ Cascading(CascadeNext) \/ Caching(CacheNext) \/ Filing(ConnectionNext) \/ Pooling(PoolNext)
    \/ Pinging(PreflightNext) \/ Pairing(PairingNext) \/ Ordering(GraphNext) \/ Gating(B!Next)

Spec == Init /\ [][Next]_vars

\* The fairness of Preflight and of BudgetGate.
FairSpec ==
    /\ Spec
    /\ WF_vars(Pinging(Collect))
    /\ \A i \in 1 .. NEntries : WF_vars(Pinging(Begin(i))) /\ WF_vars(Pinging(Expire(i)))
    /\ \A c \in 1 .. 2 : WF_vars(Gating(B!Proceed(c)))

-----------------------------------------------------------------------------
(* Properties; those of the machines this module extends are theirs.  What    *)
(* those below say is with the definitions they name.                         *)

\* The state of every machine has its type.
TypeOK == CascadeTypeOK /\ CacheTypeOK /\ ConnectionTypeOK /\ PoolTypeOK /\ GraphTypeOK /\ PreflightTypeOK

\* Preflight ends whoever stays silent, and who answered goes on (benchmark.py,
\* preflight).
EveryoneJudged == job = "preflight" => EveryoneIsJudged

\* Every call at the gate is answered and ends (budget.py, check).
EveryCallEnds == job = "gate" => B!EveryCallEnds

\* The gate and the ledger mean one op (memory.py, _stage_to_op).
OpsAgree == job = "op" => OpIsFound(list.op, list.lang)

\* The shortlist is as long as it can be, with the vendors' seats, nobody cheaper
\* is left out and the free come first (estimator.py); no upstream is picked that
\* another one dominates (openrouter.py).
CostsAreSound ==
    /\ job = "shortlist" =>
         LET est == Estimates(list.rows, list.denied) IN
         /\ ShortlistIsFull(est, list.n, list.seats)
         /\ CheapestGoOn(est, list.n, list.seats)
         /\ FreeComesFirst(list.rows, list.denied, list.n, list.seats)
    /\ job = "upstream" => UpstreamIsUndominated(list)
===============================================================================
