------------------------------- MODULE Cascade -------------------------------
(***************************************************************************)
(* runner/benchmark.py: the phases one storage sees.  A phase runs rounds  *)
(* under an experiment tag; its calls are answered by the resume cache,    *)
(* which knows the usable rows of every tag, while the ranking reads the   *)
(* rows of its own tag alone, and a round builds its child stage on the    *)
(* output of the previous round's winner, as persisted under the tag.  The *)
(* process may die anywhere; another phase, under the same tag or another, *)
(* in the same process or a new one, then starts from what storage holds.  *)
(*                                                                         *)
(* Within a round, RoundPipeline and Halving have the detail.  Here a      *)
(* candidate's pipeline is one step through a root stage and a child stage *)
(* built on it, on one task unit; ties and the promotion come out in any   *)
(* way their own modules allow.                                            *)
(***************************************************************************)
EXTENDS Integers, FiniteSets, Functions

CONSTANTS
    Models,        \* the candidates of run_phase
    Tags,          \* the experiment tags phases run under
    NRounds,       \* len(schedule.round_sizes)
    ChildJudges,   \* the child stage has is_validator
    JudgeFrom,     \* a validator stage takes this many candidates: 3 in the code
    MaxPhases      \* bound on the phases started

Rounds == 1 .. NRounds
Nobody == "nobody"

ASSUME CascadeAssumption ==
    /\ NRounds \in Nat \ {0}
    /\ MaxPhases \in Nat
    /\ Nobody \notin Models
    /\ IsFiniteSet(Models)
    /\ ChildJudges \in BOOLEAN
    /\ JudgeFrom \in Nat \ {0, 1}

VARIABLES
    store,     \* storage: key -> its row, [tag, ok]
    winners,   \* storage: tag -> round -> the winner of the root stage, or Nobody
    up,        \* Benchmark._initialized, of a process that is alive
    cache,     \* the keys of ResumeCache._entries
    at,        \* where run_phase is
    tag, round,
    pool,      \* current_candidates
    upstream,  \* the substrate's model, or Nobody
    ran,       \* the candidates whose pipeline has ended this round
    phases,
    \* History, read by no action:
    calls,     \* the LLM calls of the last pipeline: [key, by, author]
    answered,  \* the candidates with nothing but usable answers this round
    elected    \* the root winner this phase's last round ranked, or "none yet"

storeVars == <<store, winners>>
phaseVars == <<at, tag, round, pool, upstream, ran>>
histVars == <<calls, answered, elected>>
cascadeVars == <<storeVars, up, cache, phaseVars, phases, histVars>>

\* RunRow.cache_key.  The prompt of the child stage holds the text of its
\* parent, which is told apart by the model that wrote it.
RootKey(m) == <<"root", Nobody, m>>
ChildKey(m, author) == <<"child", author, m>>

-----------------------------------------------------------------------------
(* What storage answers *)

Usable(k) == k \in DOMAIN store /\ store[k].ok

\* Slip: the resume cache is loaded with the rows of one tag.
PrefetchOwnTag(t) == {k \in DOMAIN store : store[k].ok /\ store[k].tag = t}

\* prefetch_resume_cache: the usable rows, whatever tag wrote them.
Prefetch(t) == {k \in DOMAIN store : store[k].ok}

\* query_rows.
RowsOf(t) == {k \in DOMAIN store : store[k].tag = t}

\* Who has a row under the tag, and so a place in the ranking.
Ranked(t) == {k[3] : k \in RowsOf(t)}

\* The models select_per_stage_winners can name for the root stage: a best
\* score under the tag, the cheapest of them; nobody when all scores are 0.
RootWinners(t) ==
    LET best == {m \in Models : RootKey(m) \in RowsOf(t) /\ Usable(RootKey(m))} IN
    IF best = {} THEN {Nobody} ELSE best

\* Slip: a failure is not stored.
RecordedSuccess(rows, k, row) ==
    IF row.ok THEN [x \in DOMAIN rows \cup {k} |-> IF x = k THEN row ELSE rows[x]] ELSE rows

\* record_call: a usable row stays, any other is replaced.
Recorded(rows, k, row) ==
    IF k \in DOMAIN rows /\ rows[k].ok THEN rows
    ELSE [x \in DOMAIN rows \cup {k} |-> IF x = k THEN row ELSE rows[x]]

-----------------------------------------------------------------------------
CascadeInit ==
    /\ store = <<>>
    /\ winners = [t \in Tags |-> [r \in Rounds |-> Nobody]]
    /\ up = FALSE
    /\ cache = {}
    /\ at = "idle"
    /\ tag \in Tags
    /\ round = 1
    /\ pool = {}
    /\ upstream = Nobody
    /\ ran = {}
    /\ phases = 0
    /\ calls = {}
    /\ answered = {}
    /\ elected = "none yet"

\* run_phase: initialize if this process has not, then the first round it was
\* asked for, with the candidates preflight left.
StartPhase(t, first) ==
    /\ at \in {"idle", "done"}
    /\ phases < MaxPhases
    /\ phases' = phases + 1
    /\ up' = TRUE
    /\ cache' = IF up THEN cache ELSE Prefetch(t)
    /\ tag' = t
    /\ round' = first
    /\ \E alive \in SUBSET Models :
         /\ pool' = alive
         /\ at' = IF alive = {} THEN "done" ELSE "load"
    /\ elected' = "none yet"
    /\ upstream' = Nobody /\ ran' = {} /\ calls' = {} /\ answered' = {}
    /\ UNCHANGED storeVars

\* _preload_winner_substrates: the previous round's winner, if it has a row.
LoadSubstrates ==
    /\ at = "load"
    /\ upstream' = IF round = 1 THEN Nobody
                   ELSE LET w == winners[tag][round - 1] IN
                        IF w # Nobody /\ RootKey(w) \in RowsOf(tag) THEN w ELSE Nobody
    /\ at' = "run"
    /\ UNCHANGED <<storeVars, up, cache, tag, round, pool, ran, phases, histVars>>

\* Slip: whoever is in the pool may judge.
JudgesAnyone(m) == pool

\* select_validator_for_producer.
Judges(m) == pool \ {m}

\* Who answers the child stage: nobody if it is a validator's and they are few.
ChildAnswerers(m) ==
    IF ~ChildJudges THEN {m} ELSE IF Cardinality(pool) < JudgeFrom THEN {} ELSE Judges(m)

\* The author of the text the child stage of m sees, after its root stage came
\* out well or not: _apply_winner_substrate, else its own.
Author(m, rootOk) ==
    IF upstream # Nobody THEN (IF Usable(RootKey(upstream)) THEN upstream ELSE Nobody)
    ELSE IF rootOk THEN m ELSE Nobody

\* The pipeline of candidate m: its root stage comes out as rootOk and its
\* child stage as childOk, unless the cache answers them.
RunPipeline(m) ==
    /\ at = "run"
    /\ m \in pool \ ran
    /\ ran' = ran \cup {m}
    /\ \E rootOk, childOk \in BOOLEAN :
        LET rk == RootKey(m)
            rootHit == rk \in cache
            rows1 == IF rootHit THEN store ELSE Recorded(store, rk, [tag |-> tag, ok |-> rootOk])
            ck == ChildKey(m, Author(m, rootHit \/ rootOk))
            skip == ChildAnswerers(m) = {}
            childHit == skip \/ ck \in cache
        IN /\ rootHit => rootOk
           /\ childHit => childOk
           /\ store' = IF childHit THEN rows1
                       ELSE Recorded(rows1, ck, [tag |-> tag, ok |-> childOk])
           /\ cache' = cache \cup (IF rootOk THEN {rk} ELSE {})
                             \cup (IF childOk /\ ~skip THEN {ck} ELSE {})
           /\ \E j \in IF childHit THEN {m} ELSE ChildAnswerers(m) :
                calls' = (IF rootHit THEN {} ELSE {[key |-> rk, by |-> m, author |-> Nobody]})
                         \cup (IF childHit THEN {} ELSE {[key |-> ck, by |-> j, author |-> ck[2]]})
           /\ answered' = IF rootOk /\ childOk THEN answered \cup {m} ELSE answered
    /\ UNCHANGED <<winners, up, at, tag, round, pool, upstream, phases, elected>>

Elect(outs) ==
    /\ at = "run"
    /\ pool \ ran = {}
    /\ \E out \in outs :
         /\ round = NRounds => Cardinality(out) <= 1
         /\ pool' = out
    /\ elected' \in RootWinners(tag)
    /\ at' = "persist"
    /\ calls' = {}
    /\ UNCHANGED <<storeVars, up, cache, tag, round, upstream, ran, phases, answered>>

\* Slip: a candidate goes on without a score.
PromoteUnranked == Elect(SUBSET pool)

\* compute_ranking and promote, once every pipeline has ended.
Promote == Elect(SUBSET (pool \cap Ranked(tag)))

\* Slip: one round more than the schedule has.
NextRoundPastEnd ==
    /\ IF round > NRounds \/ pool = {} THEN at' = "done" /\ UNCHANGED round
       ELSE at' = "load" /\ round' = round + 1
    /\ upstream' = Nobody /\ ran' = {} /\ answered' = {}

NextRound ==
    /\ IF round = NRounds \/ pool = {} THEN at' = "done" /\ UNCHANGED round
       ELSE at' = "load" /\ round' = round + 1
    /\ upstream' = Nobody /\ ran' = {} /\ answered' = {}

\* Slip: winners that are there already are left alone.
PersistWinnersOnce ==
    /\ at = "persist"
    /\ winners' = IF winners[tag][round] # Nobody THEN winners
                  ELSE [winners EXCEPT ![tag][round] = elected]
    /\ NextRound
    /\ UNCHANGED <<store, up, cache, tag, pool, phases, calls, elected>>

\* persist_winners, and the next round of run_phase if there is anyone left.
PersistWinners ==
    /\ at = "persist"
    /\ winners' = [winners EXCEPT ![tag][round] = elected]
    /\ NextRound
    /\ UNCHANGED <<store, up, cache, tag, pool, phases, calls, elected>>

\* The process dies, or storage raises out of run_phase and the consumer
\* starts another: what is in memory is gone.
Die ==
    /\ at \notin {"idle", "done"}
    /\ at' = "idle"
    /\ up' = FALSE
    /\ cache' = {}
    /\ pool' = {} /\ upstream' = Nobody /\ ran' = {} /\ calls' = {} /\ answered' = {}
    /\ round' = 1
    /\ elected' = "none yet"
    /\ UNCHANGED <<storeVars, tag, phases>>

Proceed == LoadSubstrates \/ (\E m \in Models : RunPipeline(m)) \/ Promote \/ PersistWinners

CascadeNext ==
    \/ \E t \in Tags, first \in Rounds : StartPhase(t, first)
    \/ Proceed
    \/ Die

CascadeSpec == CascadeInit /\ [][CascadeNext]_cascadeVars

-----------------------------------------------------------------------------
(* Properties *)

CallKeys == {RootKey(m) : m \in Models} \cup {ChildKey(m, a) : m \in Models, a \in Models \cup {Nobody}}

CascadeTypeOK ==
    /\ DOMAIN store \subseteq CallKeys
    /\ \A k \in DOMAIN store : store[k] \in [tag : Tags, ok : BOOLEAN]
    /\ winners \in [Tags -> [Rounds -> Models \cup {Nobody}]]
    /\ up \in BOOLEAN
    /\ cache \subseteq CallKeys
    /\ at \in {"idle", "load", "run", "persist", "done"}
    /\ tag \in Tags /\ round \in Rounds
    /\ pool \subseteq Models /\ ran \subseteq Models /\ answered \subseteq ran
    /\ upstream \in Models \cup {Nobody}
    /\ phases \in 0 .. MaxPhases
    /\ elected \in Models \cup {Nobody, "none yet"}
    /\ at = "persist" => elected \in Models \cup {Nobody}

\* The cache answers with nothing but usable rows storage holds, a retry's among
\* them (resume.py, put mirrors what record_call stored).
CacheHasRows == \A k \in cache : Usable(k)

\* No call is made for a key with a usable row, whatever tag, phase or process
\* recorded it (resume.py, base.py's fourth invariant).
PaysForNews == \A c \in calls' \ calls : ~Usable(c.key)
NothingRepaid == [][PaysForNews]_cascadeVars

\* A round is built on the winner its predecessor ranked, through persist and
\* load, also when an earlier phase left winners under the tag (round_runner.py,
\* _preload_winner_substrates).
SubstrateIsFresh == at = "run" /\ elected # "none yet" => upstream = elected

\* A validator stage is never answered by its producer, and by the author of the
\* text under judgement only if that is the previous winner's (types.py,
\* Stage.is_validator; the winner may be any candidate's judge).
JudgeIsIndependent ==
    \A c \in calls : ChildJudges /\ c.key[1] = "child" =>
        /\ c.by # c.key[3]
        /\ c.by = c.author => upstream = c.author

\* While no other tag has rows, whoever ran is ranked, failed or resumed.
RunIsRanked ==
    (\A k \in DOMAIN store : store[k].tag = tag) => ran \subseteq Ranked(tag)

\* Nobody is reported as a finalist without a place in the final ranking.
FinalistsAreRanked == at = "done" => pool \subseteq Ranked(tag)

\* The ranking of a phase's tag has all who ran and all who are reported.
RankingIsWhole == RunIsRanked /\ FinalistsAreRanked

\* Not so: a candidate all of whose stages were answered is ranked, under any
\* tag (resume.py:3-7: resuming works "even across runs with different tags").
ResumedIsRanked == at = "persist" => answered \subseteq Ranked(tag)
===============================================================================
