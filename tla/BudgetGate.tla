------------------------------ MODULE BudgetGate ------------------------------
(***************************************************************************)
(* The per-op spend cap of runner/budget.py, with the pipelines that call  *)
(* it (the part of _run_pipeline between check() and record_cost()) and    *)
(* the storage ledger it is seeded from.  A call is one iteration of a     *)
(* pipeline's stage loop that missed the resume cache.  Several calls run  *)
(* at once; the gate's asyncio.Lock is held across the one await inside    *)
(* check(), the storage query that seeds a key.  A restart loses the gate  *)
(* and every call under way, and keeps the ledger.                         *)
(*                                                                         *)
(* Money is counted in cents, the unit of the gate's smallest projection.  *)
(***************************************************************************)
EXTENDS Integers, Functions

CONSTANTS
    NCalls,          \* how many calls will ask the gate
    Keys,            \* the (experiment_tag, op) pairs
    Ops,             \* the canonical op names
    OpOf,            \* the op of a key
    KeyOf,           \* the key a call is made under
    Budgeted,        \* the ops that have an entry in budgets_by_op
    Cap,             \* StageBudget.cap_usd of an op
    HeadroomNum,     \* StageBudget.headroom_factor is HeadroomNum / HeadroomDen
    HeadroomDen,
    Floor,           \* Stage.budget_per_call of the stages of an op
    Costs,           \* what a call can turn out to cost
    Replaced,        \* costs of failed rows a retry may overwrite in storage
    PriorSpend,      \* what storage already holds under a key at the start
    MaxRestarts      \* bound on the restarts explored

Calls == 1 .. NCalls
NoCall == 0

ASSUME CallsAssumption == NCalls \in Nat \ {0}
ASSUME KeysAssumption ==
    /\ OpOf \in [Keys -> Ops]
    /\ KeyOf \in [Calls -> Keys]
    /\ Budgeted \subseteq Ops
ASSUME MoneyAssumption ==
    /\ Cap \in [Ops -> Nat]
    /\ Floor \in [Ops -> Nat]
    /\ Costs \subseteq Nat
    /\ Replaced \subseteq Nat
    /\ PriorSpend \in [Keys -> Nat]
    /\ HeadroomNum \in Nat
    /\ HeadroomDen \in Nat \ {0}
    /\ MaxRestarts \in Nat

VARIABLES
    lock,        \* _lock: the call that holds it across an await, or NoCall
    spent,       \* _spent_by_key
    reserved,    \* _reserved_by_key
    seeded,      \* _seeded_keys
    last,        \* last_call_cost_by_op
    pc,          \* where each call is
    res,         \* the reservation check() handed to a call
    raw, eff,    \* cost_usd and effective_cost_usd of a call's row
    written,     \* the calls whose row storage holds
    ledger,      \* what query_spend_by_op answers, per key
    restarts,
    \* History, read by no action:
    overrun,     \* per key, by how much the rows written exceeded their reservations
    paid         \* per key, every cent ever billed

gateVars == <<lock, spent, reserved, seeded, last>>
callVars == <<pc, res, raw, eff>>
storeVars == <<written, ledger, overrun>>
vars == <<gateVars, callVars, storeVars, restarts, paid>>

Op(c) == OpOf[KeyOf[c]]

MaxOf(a, b) == IF a >= b THEN a ELSE b

\* The outcome of a call is still owed to the gate: it was admitted and its
\* reservation has not been handed back (and, if leaked, never will be).
Outstanding(c) == pc[c] \in {"admitted", "returned", "leaked"}

-----------------------------------------------------------------------------
MinProjection == 1

\* The projected cost of the next call of an op.
Projected(o) ==
    LET afterLast == (last[o] * HeadroomNum) \div HeadroomDen
        floor     == IF last[o] = 0 THEN Floor[o] ELSE 0
    IN  MaxOf(MaxOf(afterLast, floor), MinProjection)

\* Skip, or admit and reserve, given what is committed under the key already.
Decide(c, committed) ==
    LET k == KeyOf[c]
        p == Projected(Op(c))
    IN  IF committed + p > Cap[Op(c)]
        THEN /\ pc' = [pc EXCEPT ![c] = "skipped"]
             /\ UNCHANGED <<reserved, res>>
        ELSE /\ pc' = [pc EXCEPT ![c] = "admitted"]
             /\ reserved' = [reserved EXCEPT ![k] = @ + p]
             /\ res' = [res EXCEPT ![c] = p]

\* Slip: what other calls in flight have reserved is not counted.
AdmitUnreserved(c, spentNow) == Decide(c, spentNow)

\* The decision at the end of check(), on the spend read under the lock.
Admit(c, spentNow) == Decide(c, spentNow + reserved[KeyOf[c]])

-----------------------------------------------------------------------------
Init ==
    /\ lock = NoCall
    /\ spent = [k \in Keys |-> 0]
    /\ reserved = [k \in Keys |-> 0]
    /\ seeded = {}
    /\ last = [o \in Ops |-> 0]
    /\ pc = [c \in Calls |-> "idle"]
    /\ res = [c \in Calls |-> 0]
    /\ raw = [c \in Calls |-> 0]
    /\ eff = [c \in Calls |-> 0]
    /\ written = {}
    /\ ledger = PriorSpend
    /\ restarts = 0
    /\ overrun = [k \in Keys |-> 0]
    /\ paid = PriorSpend

\* check() for an op without a budget: admitted, nothing reserved, no lock.
CheckUnbudgeted(c) ==
    /\ pc[c] = "idle"
    /\ Op(c) \notin Budgeted
    /\ pc' = [pc EXCEPT ![c] = "admitted"]
    /\ UNCHANGED <<gateVars, res, raw, eff, storeVars, restarts, paid>>

\* check() on a key already seeded: lock, decide and unlock without an await.
CheckSeeded(c) ==
    /\ pc[c] = "idle"
    /\ Op(c) \in Budgeted
    /\ lock = NoCall
    /\ KeyOf[c] \in seeded
    /\ Admit(c, spent[KeyOf[c]])
    /\ UNCHANGED <<lock, spent, seeded, last, raw, eff, storeVars, restarts, paid>>

\* check() on a key not seeded yet: take the lock and await the storage query.
BeginSeed(c) ==
    /\ pc[c] = "idle"
    /\ Op(c) \in Budgeted
    /\ lock = NoCall
    /\ KeyOf[c] \notin seeded
    /\ lock' = c
    /\ pc' = [pc EXCEPT ![c] = "seeding"]
    /\ UNCHANGED <<spent, reserved, seeded, last, res, raw, eff, storeVars, restarts, paid>>

SeedWith(c, found) ==
    /\ pc[c] = "seeding"
    /\ spent' = [spent EXCEPT ![KeyOf[c]] = found]
    /\ seeded' = seeded \cup {KeyOf[c]}
    /\ Admit(c, found)
    /\ lock' = NoCall
    /\ UNCHANGED <<last, raw, eff, storeVars, restarts, paid>>

\* Slip: a new process starts counting from nothing.
FinishSeedEmpty(c) == SeedWith(c, 0)

\* The query answered: seed the key, decide, release the lock.
FinishSeed(c) == SeedWith(c, ledger[KeyOf[c]])

\* Slip: the lock is not released on the way out.
SeedRaisesLocked(c) ==
    /\ pc[c] = "seeding"
    /\ pc' = [pc EXCEPT ![c] = "failed"]
    /\ UNCHANGED <<gateVars, res, raw, eff, storeVars, restarts, paid>>

\* The query raised: the lock is released, the exception ends the pipeline.
SeedRaises(c) ==
    /\ pc[c] = "seeding"
    /\ pc' = [pc EXCEPT ![c] = "failed"]
    /\ lock' = NoCall
    /\ UNCHANGED <<spent, reserved, seeded, last, res, raw, eff, storeVars, restarts, paid>>

\* upsert_prompts or the stage's generate_kwargs callable raises between the
\* check and the LLM call: the exception leaves _run_pipeline.
AbortBeforeCall(c) ==
    /\ pc[c] = "admitted"
    /\ pc' = [pc EXCEPT ![c] = "leaked"]
    /\ UNCHANGED <<gateVars, res, raw, eff, storeVars, restarts, paid>>

\* The LLM call ends, in success or failure, and its cost is known.
CallReturns(c) ==
    /\ pc[c] = "admitted"
    /\ \E r, e \in Costs :
          /\ e <= r
          /\ raw' = [raw EXCEPT ![c] = r]
          /\ eff' = [eff EXCEPT ![c] = e]
          /\ paid' = [paid EXCEPT ![KeyOf[c]] = @ + e]
    /\ pc' = [pc EXCEPT ![c] = "returned"]
    /\ UNCHANGED <<gateVars, res, storeVars, restarts>>

\* storage.record_call: the row joins the ledger, in the place of a failed row
\* of the same primary key if there was one.
RowWritten(c) ==
    LET k == KeyOf[c] IN
    /\ pc[c] = "returned"
    /\ c \notin written
    /\ written' = written \cup {c}
    /\ \E old \in Replaced :
          /\ old <= ledger[k]
          /\ ledger' = [ledger EXCEPT ![k] = @ - old + eff[c]]
    /\ overrun' = [overrun EXCEPT ![k] = @ + MaxOf(0, eff[c] - res[c])]
    /\ UNCHANGED <<gateVars, callVars, restarts, paid>>

\* A cost replaces what is released of the reservations.
Reconcile(c, cost, released) ==
    LET k == KeyOf[c] IN
    /\ pc[c] = "returned"
    /\ c \in written
    /\ lock = NoCall
    /\ last' = [last EXCEPT ![Op(c)] = raw[c]]
    /\ spent' = [spent EXCEPT ![k] = @ + cost]
    /\ reserved' = [reserved EXCEPT ![k] = MaxOf(0, @ - released)]
    /\ pc' = [pc EXCEPT ![c] = "recorded"]
    /\ UNCHANGED <<lock, seeded, res, raw, eff, storeVars, restarts, paid>>

\* Slips: the list price is charged; the projection of now is released.
RecordCostRaw(c) == Reconcile(c, raw[c], res[c])
RecordCostReprojected(c) == Reconcile(c, eff[c], Projected(Op(c)))

\* record_cost: the effective cost takes the place of the reservation.
RecordCost(c) == Reconcile(c, eff[c], res[c])

\* record_call raises, before or after the row became durable: the handler in
\* _run_pipeline notes an infrastructure error and record_cost is not reached.
RecordCallRaises(c) ==
    /\ pc[c] = "returned"
    /\ pc' = [pc EXCEPT ![c] = "leaked"]
    /\ UNCHANGED <<gateVars, res, raw, eff, storeVars, restarts, paid>>

\* The process dies and a new one, with a new gate, continues with the calls
\* that had not begun.
Restart ==
    /\ restarts < MaxRestarts
    /\ restarts' = restarts + 1
    /\ lock' = NoCall
    /\ spent' = [k \in Keys |-> 0]
    /\ reserved' = [k \in Keys |-> 0]
    /\ seeded' = {}
    /\ last' = [o \in Ops |-> 0]
    /\ pc' = [c \in Calls |-> IF pc[c] = "idle" THEN "idle" ELSE "lost"]
    /\ UNCHANGED <<res, raw, eff, storeVars, paid>>

Proceed(c) ==
    \/ CheckUnbudgeted(c) \/ CheckSeeded(c) \/ BeginSeed(c) \/ FinishSeed(c)
    \/ CallReturns(c) \/ RowWritten(c) \/ RecordCost(c)

Raise(c) == SeedRaises(c) \/ AbortBeforeCall(c) \/ RecordCallRaises(c)

Step(c) == Proceed(c) \/ Raise(c)

Next == Restart \/ \E c \in Calls : Step(c)

Spec == Init /\ [][Next]_vars

\* The event loop resumes every task it can, and every storage query and LLM
\* call ends.  An exception may end them but need not: a call that waits for the
\* lock cannot count on one.
Fairness == \A c \in Calls : WF_vars(Proceed(c))
FairSpec == Spec /\ Fairness

-----------------------------------------------------------------------------
(* Properties *)

\* The shape of every variable: amounts never go negative, and a call that
\* holds the lock is the one awaiting the storage query.
TypeOK ==
    /\ lock \in Calls \cup {NoCall}
    /\ spent \in [Keys -> Nat]
    /\ reserved \in [Keys -> Nat]
    /\ seeded \subseteq Keys
    /\ last \in [Ops -> Nat]
    /\ pc \in [Calls -> {"idle", "seeding", "admitted", "skipped", "failed",
                         "returned", "recorded", "leaked", "lost"}]
    /\ res \in [Calls -> Nat]
    /\ raw \in [Calls -> Nat]
    /\ eff \in [Calls -> Nat]
    /\ written \subseteq Calls
    /\ ledger \in [Keys -> Nat]
    /\ restarts \in 0 .. MaxRestarts
    /\ overrun \in [Keys -> Nat]
    /\ paid \in [Keys -> Nat]
    /\ \A c \in Calls : pc[c] = "seeding" <=> lock = c

\* However many calls are admitted at once, and whatever restarts lie between,
\* the spend that storage records under a budgeted key exceeds the cap only by
\* what single calls cost above their own projection (or by spend that was
\* there before the first run): check() reserves under the lock what it admits.
LedgerWithinCap ==
    \A k \in Keys :
        OpOf[k] \in Budgeted => ledger[k] <= MaxOf(Cap[OpOf[k]], PriorSpend[k]) + overrun[k]

\* What is reserved under a key is exactly the reservations of the calls that
\* still owe an outcome: none is dropped, none is released twice, and the
\* max(0, ...) of record_cost never hides a negative balance.
ReservationsConserved ==
    \A k \in Keys :
        reserved[k] = SumFunctionOnSet(res, {c \in Calls : KeyOf[c] = k /\ Outstanding(c)})

\* From the moment a key is seeded the gate knows of every cent storage holds
\* under it, but for the rows whose call has not reached record_cost.
GateSeesLedger ==
    \A k \in seeded :
        ledger[k] <= spent[k] + SumFunctionOnSet(eff, {c \in written : KeyOf[c] = k /\ Outstanding(c)})

\* The gate counts no cent twice: not one read from storage when the key was
\* seeded and then again when its call records it.
NoCentTwice ==
    \A k \in seeded : spent[k] <= paid[k]

\* Every call gets an answer from the gate and, once admitted, comes to an end,
\* even when the seeding query raises with callers waiting for the lock.
EveryCallEnds ==
    \A c \in Calls : <>(pc[c] \in {"skipped", "failed", "recorded", "leaked", "lost"})

\* budget.py:71-75 asks the caller to hand a reservation back exactly once,
\* whatever the outcome: when no call is under way nothing stays reserved.
NothingStaysReserved ==
    (\A c \in Calls : pc[c] \notin {"seeding", "admitted", "returned"})
        => \A k \in Keys : reserved[k] = 0
-----------------------------------------------------------------------------
(* The inductive invariant behind LedgerWithinCap. *)

\* The values of f on the calls add up to at most b: ps are their partial sums,
\* rounded up.  The sum is stated by its witness because a proof can build one.
SumAtMost(f, b) ==
    \E ps \in [0 .. NCalls -> 0 .. b] :
        /\ \A i \in Calls : ps[i - 1] + f[i] <= ps[i]
        /\ \A i, j \in 0 .. NCalls : i <= j => ps[i] <= ps[j]

\* What each outstanding call may still add to the ledger of k without overrun:
\* its reservation, or what is left of it once its row is written.
Due(k) ==
    [c \in Calls |->
        IF KeyOf[c] = k /\ Outstanding(c)
        THEN IF c \in written THEN MaxOf(0, res[c] - eff[c]) ELSE res[c]
        ELSE 0]

\* Only keys of budgeted ops are seeded, a call awaits the seeding query only
\* for a key still unseeded, and a budgeted call is admitted on a seeded key.
SeededFirst ==
    /\ \A k \in seeded : OpOf[k] \in Budgeted
    /\ \A c \in Calls : pc[c] = "seeding" => Op(c) \in Budgeted /\ KeyOf[c] \notin seeded
    /\ \A c \in Calls : Outstanding(c) /\ Op(c) \in Budgeted => KeyOf[c] \in seeded

\* A row is written only after its call returned.
WrittenAfterReturn ==
    \A c \in written : pc[c] \in {"returned", "recorded", "leaked", "lost"}

\* What the gate counts under a key covers the ledger and all that is due.
GateCoversLedger ==
    \A k \in seeded : SumAtMost(Due(k), overrun[k] + spent[k] + reserved[k] - ledger[k])

\* The cap covers the ledger and all that is due.
CapCoversLedger ==
    \A k \in Keys : OpOf[k] \in Budgeted =>
        SumAtMost(Due(k), MaxOf(Cap[OpOf[k]], PriorSpend[k]) + overrun[k] - ledger[k])

\* Inductive: a check() that admits uses GateCoversLedger to keep CapCoversLedger.
CapInvariant ==
    /\ TypeOK
    /\ SeededFirst
    /\ WrittenAfterReturn
    /\ GateCoversLedger
    /\ CapCoversLedger
===============================================================================
