----------------------------- MODULE RoundPipeline -----------------------------
(***************************************************************************)
(* One round of runner/round_runner.py: run_round starts a pipeline per    *)
(* (model, task unit) pair, all at once, and each walks the stages in      *)
(* topological order.  The pipelines share the resume cache, the set of    *)
(* prompt hashes already upserted, two layers of semaphores, the budget    *)
(* gate, the attempt counters of the coverage gate, and storage.  A crash  *)
(* loses everything but storage; the next process loads the resume cache   *)
(* from storage and runs the round again.                                  *)
(*                                                                         *)
(* An action is the code between two awaits that really suspend.  The      *)
(* amounts of the budget gate are BudgetGate's subject: here it admits or  *)
(* skips, and what matters is that its reservation is handed back.         *)
(***************************************************************************)
EXTENDS Integers, FiniteSets, Functions

CONSTANTS
    Models,          \* RoundConfig.candidates
    Units,           \* the task units assigned to each candidate this round
    NStages,         \* stages, numbered in topological order
    ParentOf,        \* Stage.parent_stage: an earlier stage, or 0
    Validators,      \* the stages with is_validator
    OpOf,            \* Stage.op
    GlobalLimit,     \* RoundConfig.global_concurrency
    OpLimit,         \* RoundConfig.per_op_concurrency
    Substrate,       \* the previous round's winner row of (parent stage, unit), or NoText
    StrikesToAbort,  \* DEAD errors that abort a pipeline: 3 in the code
    Outcomes,        \* what a call can come back with
    MaxCrashes       \* bound on the crashes explored

Stages == 1 .. NStages
Pairs == Models \X Units
NoText == "none"

\* "good" and "short" parse, and "short" is under MIN_USABLE_RESPONSE_LEN;
\* "junk" is rejected by the parser; "empty" is a call that succeeded without
\* text; the last two are exceptions, as classify_provider_error names them.
AllOutcomes == {"good", "short", "junk", "empty", "dead", "transient"}
Errors == {"dead", "transient"}

\* predicates.is_row_usable on a row with this outcome.
Usable(o) == o = "good"

\* money_was_spent and cacheable, from _classify_call_outcome.
Cacheable(o) == o \in {"good", "short"}

\* The response text a child stage is built on: nothing after an error.
TextOf(o) == IF o \in {"good", "short", "junk"} THEN o ELSE ""
Texts == {NoText, "", "good", "short", "junk"}

ASSUME RoundAssumption ==
    /\ IsFiniteSet(Models) /\ IsFiniteSet(Units)
    /\ NStages \in Nat \ {0}
    /\ ParentOf \in [Stages -> 0 .. NStages]
    /\ \A s \in Stages : ParentOf[s] < s
    /\ Validators \subseteq Stages
    /\ GlobalLimit \in Nat \ {0}
    /\ OpLimit \in [{OpOf[s] : s \in Stages} -> Nat \ {0}]
    /\ StrikesToAbort \in Nat \ {0}
    /\ Substrate \in [Stages \X Units -> Texts]
    /\ Outcomes \subseteq AllOutcomes

VARIABLES
    pc,          \* where each pipeline is
    at,          \* the stage it is on; NStages + 1 after the last
    text,        \* ctx.response_texts
    got,         \* the outcome of the call in hand
    quarantined, \* ctx.quarantined
    strikes,     \* error_count
    cache,       \* ResumeCache._entries: key -> outcome
    seen,        \* seen_prompt_hashes
    attempted,   \* n_stages_attempted
    history,     \* Halving.error_history, as its length per model
    infra,       \* the number of infra_errors
    owed,        \* the (pair, stage)s whose reservation the gate still holds
    prompts,     \* storage: prompts upserted
    store,       \* storage: the rows, key -> outcome
    crashes,
    \* History of this process, read by no action:
    called,      \* (pair, stage)s whose LLM call was made
    skipped      \* (pair, stage)s the budget gate skipped

pipeVars == <<pc, at, text, got, quarantined, strikes>>
sharedVars == <<cache, seen, attempted, history, infra, owed>>
storeVars == <<prompts, store>>
histVars == <<called, skipped>>
vars == <<pipeVars, sharedVars, storeVars, histVars, crashes>>

\* Slip: a pipeline that aborts keeps its slot of the global semaphore.
WaitingLeaky == {"opwait", "calling", "aborted"}

Waiting == {"opwait", "calling"}       \* inside `async with global_sem`

\* The prompt of a stage: its composite hash stands for stage, unit and the
\* parent's text, the previous winner's when there is one, the pair's own else.
ParentText(p, s) ==
    LET par == ParentOf[s] IN
    IF par = 0 THEN NoText
    ELSE IF Substrate[par, p[2]] # NoText THEN Substrate[par, p[2]]
    ELSE text[p][par]

Prompt(p) == <<at[p], p[2], ParentText(p, at[p])>>
Key(p) == <<Prompt(p), p[1]>>
FailureKey(p) == <<<<at[p], p[2], "build failure">>, p[1]>>

-----------------------------------------------------------------------------
\* Slip: the cache starts empty.
PrefetchNothing(rows) == <<>>

\* prefetch_resume_cache with only_successful: the usable rows.
Prefetch(rows) == [k \in {x \in DOMAIN rows : Usable(rows[x])} |-> rows[k]]

Init ==
    /\ pc = [p \in Pairs |-> "top"]
    /\ at = [p \in Pairs |-> 1]
    /\ text = [p \in Pairs |-> [s \in Stages |-> NoText]]
    /\ got = [p \in Pairs |-> NoText]
    /\ quarantined = {}
    /\ strikes = [p \in Pairs |-> 0]
    /\ seen = {}
    /\ attempted = [m \in Models |-> 0]
    /\ history = [m \in Models |-> 0]
    /\ infra = 0
    /\ owed = {}
    /\ called = {}
    /\ skipped = {}
    /\ cache = <<>>
    /\ prompts = {}
    /\ store = <<>>
    /\ crashes = 0

\* A key bound to a value, over a function that may not have it yet.
Put(f, k, v) == [x \in DOMAIN f \cup {k} |-> IF x = k THEN v ELSE f[x]]

\* storage.record_call: a usable row stays, any other is replaced.
Recorded(rows, k, o) ==
    IF k \in DOMAIN rows /\ Usable(rows[k]) THEN rows ELSE Put(rows, k, o)

Goto(p, label) == pc' = [pc EXCEPT ![p] = label]

\* On to the next stage of the loop.
NextStage(p) ==
    /\ at' = [at EXCEPT ![p] = @ + 1]
    /\ Goto(p, IF at[p] = NStages THEN "done" ELSE "top")

CountAttempt(p) == attempted' = [attempted EXCEPT ![p[1]] = @ + 1]

SetText(p, t) == text' = [text EXCEPT ![p][at[p]] = t]

-----------------------------------------------------------------------------
\* The top of the loop finds the pair quarantined.
StopQuarantined(p) ==
    /\ pc[p] = "top"
    /\ p \in quarantined
    /\ Goto(p, "done")
    /\ UNCHANGED <<at, text, got, quarantined, strikes, sharedVars, storeVars, histVars, crashes>>

\* The consumer's prompt builder raises.
BuildFails(p) ==
    /\ pc[p] = "top"
    /\ p \notin quarantined
    /\ Goto(p, "failrow")
    /\ UNCHANGED <<at, text, got, quarantined, strikes, sharedVars, storeVars, histVars, crashes>>

BuildFailureRow(p) ==
    /\ pc[p] = "failrow"
    /\ \/ store' = Recorded(store, FailureKey(p), "transient") /\ UNCHANGED infra
       \/ infra' = infra + 1 /\ UNCHANGED store
    /\ NextStage(p)
    /\ UNCHANGED <<text, got, quarantined, strikes, cache, seen, history, owed, prompts, histVars, crashes>>

\* Slip: a builder's failure costs the model coverage.
RecordBuildFailureUncounted(p) == BuildFailureRow(p) /\ UNCHANGED attempted

\* _record_prompt_build_failure, its record_call done or raising.
RecordBuildFailure(p) == BuildFailureRow(p) /\ CountAttempt(p)

\* _resolve_validator_call_model: no independent validator below 3 candidates.
SkipValidator(p) ==
    /\ pc[p] = "top"
    /\ p \notin quarantined
    /\ at[p] \in Validators
    /\ Cardinality(Models) < 3
    /\ CountAttempt(p)
    /\ NextStage(p)
    /\ UNCHANGED <<text, got, quarantined, strikes, cache, seen, history, infra, owed, storeVars, histVars, crashes>>

MustCall(p) ==
    /\ pc[p] = "top"
    /\ p \notin quarantined
    /\ at[p] \in Validators => Cardinality(Models) >= 3

Reuse(p) ==
    /\ MustCall(p)
    /\ Key(p) \in DOMAIN cache
    /\ SetText(p, TextOf(cache[Key(p)]))
    /\ NextStage(p)
    /\ UNCHANGED <<got, quarantined, strikes, cache, seen, history, infra, owed, storeVars, histVars, crashes>>

\* Slip: a resumed stage is not an attempt.
CacheHitUncounted(p) == Reuse(p) /\ UNCHANGED attempted

\* The resume cache answers, and the stage counts as attempted.
CacheHit(p) == Reuse(p) /\ CountAttempt(p)

CacheMiss(p) ==
    /\ MustCall(p)
    /\ Key(p) \notin DOMAIN cache
    /\ Goto(p, "budget")
    /\ UNCHANGED <<at, text, got, quarantined, strikes, sharedVars, storeVars, histVars, crashes>>

\* check() answers no: on to the next stage, and the attempt is not counted.
BudgetSkips(p) ==
    /\ pc[p] = "budget"
    /\ skipped' = skipped \cup {<<p, at[p]>>}
    /\ NextStage(p)
    /\ UNCHANGED <<text, got, quarantined, strikes, sharedVars, storeVars, called, crashes>>

\* Slip: a prompt is told by its stage and unit alone.
BudgetAdmitsByStage(p) ==
    /\ pc[p] = "budget"
    /\ owed' = owed \cup {<<p, at[p]>>}
    /\ seen' = seen \cup {Prompt(p)}
    /\ Goto(p, IF \E x \in seen : x[1] = at[p] /\ x[2] = p[2] THEN "wait" ELSE "upsert")
    /\ UNCHANGED <<at, text, got, quarantined, strikes, cache, attempted, history, infra, storeVars, histVars, crashes>>

\* check() answers yes: the prompt goes to storage unless its hash was seen.
BudgetAdmits(p) ==
    /\ pc[p] = "budget"
    /\ owed' = owed \cup {<<p, at[p]>>}
    /\ seen' = seen \cup {Prompt(p)}
    /\ Goto(p, IF Prompt(p) \in seen THEN "wait" ELSE "upsert")
    /\ UNCHANGED <<at, text, got, quarantined, strikes, cache, attempted, history, infra, storeVars, histVars, crashes>>

UpsertPrompt(p) ==
    /\ pc[p] = "upsert"
    /\ prompts' = prompts \cup {Prompt(p)}
    /\ Goto(p, "wait")
    /\ UNCHANGED <<at, text, got, quarantined, strikes, sharedVars, store, histVars, crashes>>

\* The budget's storage query, upsert_prompts or the stage's kwargs callable
\* raises: no handler in _run_pipeline, _one_pair logs it and the pair is over.
Escapes(p) ==
    /\ pc[p] \in {"budget", "upsert", "wait"}
    /\ Goto(p, "escaped")
    /\ UNCHANGED <<at, text, got, quarantined, strikes, sharedVars, storeVars, histVars, crashes>>

\* _call_llm_guarded: the global semaphore first, then the op's.
TakeGlobalSlot(p) ==
    /\ pc[p] = "wait"
    /\ Cardinality({q \in Pairs : pc[q] \in Waiting}) < GlobalLimit
    /\ Goto(p, "opwait")
    /\ UNCHANGED <<at, text, got, quarantined, strikes, sharedVars, storeVars, histVars, crashes>>

TakeOpSlot(p) ==
    /\ pc[p] = "opwait"
    /\ Cardinality({q \in Pairs : pc[q] = "calling" /\ OpOf[at[q]] = OpOf[at[p]]})
          < OpLimit[OpOf[at[p]]]
    /\ called' = called \cup {<<p, at[p]>>}
    /\ Goto(p, "calling")
    /\ UNCHANGED <<at, text, got, quarantined, strikes, sharedVars, storeVars, skipped, crashes>>

\* The call ends and both slots are released, whatever it came back with; a
\* slow or expensive call quarantines the rest of this pipeline.
CallEnds(p) ==
    /\ pc[p] = "calling"
    /\ \E o \in Outcomes :
          /\ got' = [got EXCEPT ![p] = o]
          /\ SetText(p, TextOf(o))
    /\ \E storm \in BOOLEAN :
          quarantined' = IF storm THEN quarantined \cup {p} ELSE quarantined
    /\ Goto(p, "returned")
    /\ UNCHANGED <<at, strikes, sharedVars, storeVars, histVars, crashes>>

RecordCall(p) ==
    /\ pc[p] = "returned"
    /\ store' = Recorded(store, Key(p), got[p])
    /\ Goto(p, "recorded")
    /\ UNCHANGED <<at, text, got, quarantined, strikes, sharedVars, prompts, histVars, crashes>>

\* The provider's error goes to the model's history; n DEAD errors abort the
\* pipeline when they are enough.
Conclude(p, n) ==
    LET dead == got[p] = "dead" IN
    /\ history' = [history EXCEPT ![p[1]] = @ + (IF got[p] \in Errors THEN 1 ELSE 0)]
    /\ strikes' = [strikes EXCEPT ![p] = @ + (IF dead THEN 1 ELSE 0)]
    /\ got' = [got EXCEPT ![p] = NoText]
    /\ IF dead /\ n >= StrikesToAbort
       THEN Goto(p, "aborted") /\ UNCHANGED at
       ELSE NextStage(p)

\* Slip: the strike of this call is compared one call late.
CloseAttemptLate(p) == CountAttempt(p) /\ Conclude(p, strikes[p])

\* What follows the persistence block, whether or not it raised.
CloseAttempt(p) == CountAttempt(p) /\ Conclude(p, strikes[p] + 1)

SettleAs(p, handedBack) ==
    /\ pc[p] = "recorded"
    /\ owed' = owed \ handedBack
    /\ cache' = IF Cacheable(got[p]) THEN Put(cache, Key(p), got[p]) ELSE cache
    /\ CloseAttempt(p)
    /\ UNCHANGED <<text, quarantined, seen, infra, storeVars, histVars, crashes>>

\* Slip: only a call that spent money hands its reservation back.
SettlePaidOnly(p) == SettleAs(p, IF got[p] \in Errors THEN {} ELSE {<<p, at[p]>>})

\* record_cost and resume_cache.put, then the end of the iteration.
Settle(p) == SettleAs(p, {<<p, at[p]>>})

PersistRaises(p) ==
    /\ pc[p] = "returned"
    /\ infra' = infra + 1
    /\ UNCHANGED <<text, quarantined, seen, owed, storeVars, histVars, crashes>>

\* Slips: the attempt is lost with the row; the response is cached anyway.
RecordRaisesUncounted(p) ==
    PersistRaises(p) /\ Conclude(p, strikes[p] + 1) /\ UNCHANGED <<attempted, cache>>
RecordRaisesCached(p) ==
    /\ PersistRaises(p)
    /\ CloseAttempt(p)
    /\ cache' = IF Cacheable(got[p]) THEN Put(cache, Key(p), got[p]) ELSE cache

\* record_call raises: noted as an infrastructure error, record_cost skipped.
RecordRaises(p) == PersistRaises(p) /\ CloseAttempt(p) /\ UNCHANGED cache

\* The process dies; a new one loads the cache from storage and starts over.
Crash ==
    /\ crashes < MaxCrashes
    /\ crashes' = crashes + 1
    /\ pc' = [p \in Pairs |-> "top"]
    /\ at' = [p \in Pairs |-> 1]
    /\ text' = [p \in Pairs |-> [s \in Stages |-> NoText]]
    /\ got' = [p \in Pairs |-> NoText]
    /\ quarantined' = {}
    /\ strikes' = [p \in Pairs |-> 0]
    /\ seen' = {}
    /\ attempted' = [m \in Models |-> 0]
    /\ history' = [m \in Models |-> 0]
    /\ infra' = 0
    /\ owed' = {}
    /\ called' = {}
    /\ skipped' = {}
    /\ cache' = Prefetch(store)
    /\ UNCHANGED storeVars

Proceed(p) ==
    \/ StopQuarantined(p) \/ BuildFails(p) \/ RecordBuildFailure(p)
    \/ SkipValidator(p) \/ CacheHit(p) \/ CacheMiss(p)
    \/ BudgetSkips(p) \/ BudgetAdmits(p) \/ UpsertPrompt(p)
    \/ TakeGlobalSlot(p) \/ TakeOpSlot(p) \/ CallEnds(p)
    \/ RecordCall(p) \/ Settle(p) \/ RecordRaises(p)

Step(p) == Proceed(p) \/ Escapes(p)

Next == Crash \/ \E p \in Pairs : Step(p)

Spec == Init /\ [][Next]_vars

\* asyncio resumes every task that can go on and wakes the waiters of a
\* semaphore in arrival order; every awaited call ends.  A pipeline that waits for
\* a slot is not rescued by an exception.
Fairness == \A p \in Pairs : SF_vars(Proceed(p))
FairSpec == Spec /\ Fairness

-----------------------------------------------------------------------------
(* Properties *)

Ended == {"done", "aborted", "escaped"}
RoundOver == \A p \in Pairs : pc[p] \in Ended
NotClosed == {"calling", "returned", "recorded"}

StageCount == NStages * Cardinality(Units)
CallsOf(m) == {c \in called : c[1][1] = m}

TypeOK ==
    /\ pc \in [Pairs -> {"top", "failrow", "budget", "upsert", "wait"} \cup Waiting
                         \cup NotClosed \cup Ended]
    /\ at \in [Pairs -> 1 .. NStages + 1]
    /\ text \in [Pairs -> [Stages -> Texts]]
    /\ got \in [Pairs -> AllOutcomes \cup {NoText}]
    /\ quarantined \subseteq Pairs
    /\ strikes \in [Pairs -> 0 .. StrikesToAbort]
    /\ attempted \in [Models -> 0 .. StageCount]
    /\ history \in [Models -> 0 .. StageCount]
    /\ infra \in Nat
    /\ called \cup skipped \cup owed \subseteq Pairs \X Stages
    /\ \A k \in DOMAIN store : store[k] \in AllOutcomes

\* A call that ended counts toward its model's coverage even when persisting
\* its row failed: an infrastructure error never costs a candidate its place.
CallsAreCounted ==
    \A m \in Models :
        attempted[m] + Cardinality({u \in Units : pc[<<m, u>>] \in NotClosed})
            >= Cardinality(CallsOf(m))

\* After a round a model lacks full coverage only if the budget skipped one of
\* its stages or one of its pipelines was quarantined, aborted or escaped.  In
\* particular stages answered from the resume cache after a restart count.
FullCoverage ==
    RoundOver => \A m \in Models :
        \/ attempted[m] = StageCount
        \/ \E u \in Units : \/ <<m, u>> \in quarantined
                            \/ pc[<<m, u>>] \in {"aborted", "escaped"}
                            \/ \E s \in Stages : <<<<m, u>>, s>> \in skipped

\* The count promote's coverage gate goes by is right, while a round is under way
\* and once it is over.
AttemptsAreCounted == CallsAreCounted /\ FullCoverage

\* A reservation outlives its iteration only when an infrastructure error of
\* the round says so, or its pipeline escaped: a failed call hands it back too.
LeaksAreNoted ==
    Cardinality({o \in owed : at[o[1]] # o[2] \/ pc[o[1]] = "aborted"}) <= infra

\* Whatever the resume cache answers is a row storage holds, with that outcome.
CacheIsBacked ==
    \A k \in DOMAIN cache : k \in DOMAIN store /\ store[k] = cache[k]

\* No call is made, before or after a restart, for a key storage already has a
\* usable row for: finished work is never paid twice.
NeverRepaid ==
    [][\A p \in Pairs : pc[p] # "calling" /\ pc'[p] = "calling"
            => ~(Key(p) \in DOMAIN store /\ Usable(store[Key(p)]))]_vars

\* Every row's prompt is in storage, written once by the first that had it,
\* unless that one is still at it or its upsert raised (round_runner.py:641-649;
\* a crash in between can leave the row of another without its prompt for good).
PromptsAreKept ==
    crashes = 0 =>
        \A k \in DOMAIN store :
            \/ k[1] \in prompts
            \/ k[1][3] = "build failure"
            \/ \E q \in Pairs : pc[q] \in {"upsert", "escaped"} /\ Prompt(q) = k[1]

\* The round ends: no pipeline waits forever for a slot, whatever the others
\* run into.
RoundEnds == <>[]RoundOver
===============================================================================
