----------------------------- MODULE CascadeProofs -----------------------------
(* The cascade of rounds and phases, for any candidates, tags and rounds; the *)
(* pairs of producer and validator, for any number of candidates; and the     *)
(* order of the stages, for any list of them.                                 *)
EXTENDS Cascade, Pairing, StageGraph, SumLemmas, TLAPS

UsableIn(rows) == {x \in DOMAIN rows : rows[x].ok}

\* What record_call leaves in storage: of the usable rows those there were, and
\* the new one if it is usable (storage/base.py, record_call).
LEMMA RecordedUsable ==
    ASSUME NEW rows, NEW k, NEW row
    PROVE  /\ row.ok => UsableIn(Recorded(rows, k, row)) = UsableIn(rows) \cup {k}
           /\ ~row.ok => UsableIn(Recorded(rows, k, row)) = UsableIn(rows)
<1>1. CASE k \in DOMAIN rows /\ rows[k].ok
  BY <1>1 DEF Recorded, UsableIn
<1>2. CASE ~(k \in DOMAIN rows /\ rows[k].ok)
  <2> DEFINE new == [x \in DOMAIN rows \cup {k} |-> IF x = k THEN row ELSE rows[x]]
  <2>1. Recorded(rows, k, row) = new
    BY <1>2 DEF Recorded
  <2>2. k \notin UsableIn(rows)
    BY <1>2 DEF UsableIn
  <2>3. k \in UsableIn(new) <=> row.ok
    BY DEF UsableIn
  <2>4. ASSUME NEW x, x # k PROVE x \in UsableIn(new) <=> x \in UsableIn(rows)
    BY <2>4 DEF UsableIn
  <2> HIDE DEF new
  <2>5. row.ok => UsableIn(new) = UsableIn(rows) \cup {k}
    BY <2>3, <2>4
  <2>6. ~row.ok => UsableIn(new) = UsableIn(rows)
    BY <2>2, <2>3, <2>4
  <2>7. QED
    BY <2>1, <2>5, <2>6
<1>3. QED
  BY <1>1, <1>2

-----------------------------------------------------------------------------
\* A process that is up has the usable rows of storage in its cache, all of them
\* and nothing else, and one that is not has none.
CacheIsStorage ==
    /\ at \in {"idle", "done"} \/ up
    /\ cache = IF up THEN UsableIn(store) ELSE {}

\* A pipeline keeps the cache equal to storage, makes its calls for keys the cache
\* does not have and hands the child stage to who may answer it (round_runner.py,
\* _run_pipeline).
LEMMA PipelineStep ==
    ASSUME NEW m \in Models, RunPipeline(m), cache = UsableIn(store)
    PROVE  /\ cache' = UsableIn(store')
           /\ UsableIn(store) \subseteq UsableIn(store')
           /\ \A c \in calls' : c.key \notin cache
<1>1. PICK rootOk \in BOOLEAN, childOk \in BOOLEAN :
        LET rk == RootKey(m)
            rootHit == rk \in cache
            rows1 == IF rootHit THEN store ELSE Recorded(store, rk, [tag |-> tag, ok |-> rootOk])
            ck == ChildKey(m, Author(m, rootHit \/ rootOk))
            skip == ChildAnswerers(m) = {}
            childHit == skip \/ ck \in cache
        IN /\ rootHit => rootOk
           /\ childHit => childOk
           /\ store' = IF childHit THEN rows1
                       ELSE Recorded(rows1, ck, [tag |-> tag, ok |-> childOk])
           /\ cache' = cache \cup (IF rootOk THEN {rk} ELSE {})
                             \cup (IF childOk /\ ~skip THEN {ck} ELSE {})
           /\ \E j \in IF childHit THEN {m} ELSE ChildAnswerers(m) :
                calls' = (IF rootHit THEN {} ELSE {[key |-> rk, by |-> m, author |-> Nobody]})
                         \cup (IF childHit THEN {} ELSE {[key |-> ck, by |-> j, author |-> ck[2]]})
  BY DEF RunPipeline
<1> DEFINE rk == RootKey(m)
           rootHit == rk \in cache
           rows1 == IF rootHit THEN store ELSE Recorded(store, rk, [tag |-> tag, ok |-> rootOk])
           ck == ChildKey(m, Author(m, rootHit \/ rootOk))
           skip == ChildAnswerers(m) = {}
           childHit == skip \/ ck \in cache
<1>2. UsableIn(rows1) = UsableIn(store) \cup (IF rootOk THEN {rk} ELSE {})
  <2>1. CASE rootHit
    BY <1>1, <2>1
  <2>2. CASE ~rootHit
    <3> DEFINE row == [tag |-> tag, ok |-> rootOk]
    <3>1. row.ok = rootOk
      OBVIOUS
    <3>2. rows1 = Recorded(store, rk, row)
      BY <2>2
    <3> HIDE DEF row, rows1, rk
    <3>3. QED
      BY <3>1, <3>2, RecordedUsable
  <2>3. QED
    BY <2>1, <2>2
<1>3. /\ rootHit => rootOk
      /\ childHit => childOk
      /\ store' = IF childHit THEN rows1 ELSE Recorded(rows1, ck, [tag |-> tag, ok |-> childOk])
      /\ cache' = cache \cup (IF rootOk THEN {rk} ELSE {}) \cup (IF childOk /\ ~skip THEN {ck} ELSE {})
      /\ \E j : calls' = (IF rootHit THEN {} ELSE {[key |-> rk, by |-> m, author |-> Nobody]})
                         \cup (IF childHit THEN {} ELSE {[key |-> ck, by |-> j, author |-> ck[2]]})
  BY <1>1
<1> HIDE DEF rk, rows1, ck, skip
<1>4. UsableIn(store') = UsableIn(rows1) \cup (IF childOk /\ ~childHit THEN {ck} ELSE {})
  <2>1. CASE childHit
    BY <1>3, <2>1
  <2>2. CASE ~childHit
    <3> DEFINE row == [tag |-> tag, ok |-> childOk]
    <3>1. row.ok = childOk
      OBVIOUS
    <3>2. store' = Recorded(rows1, ck, row)
      BY <1>3, <2>2
    <3> HIDE DEF row, childHit
    <3>3. QED
      BY <2>2, <3>1, <3>2, RecordedUsable
  <2>3. QED
    BY <2>1, <2>2
<1>5. cache' = UsableIn(store')
  BY <1>2, <1>3, <1>4
<1>6. UsableIn(store) \subseteq UsableIn(store')
  BY <1>2, <1>4
<1>7. \A c \in calls' : c.key \notin cache
  BY <1>3
<1>8. QED
  BY <1>5, <1>6, <1>7

-----------------------------------------------------------------------------
\* A row recorded under one of the keys leaves rows of the right kind.
LEMMA RecordedTypes ==
    ASSUME NEW rows, NEW k \in CallKeys, NEW t \in Tags, NEW ok \in BOOLEAN,
           DOMAIN rows \subseteq CallKeys,
           \A x \in DOMAIN rows : rows[x] \in [tag : Tags, ok : BOOLEAN]
    PROVE  LET new == Recorded(rows, k, [tag |-> t, ok |-> ok]) IN
           /\ DOMAIN new \subseteq CallKeys
           /\ \A x \in DOMAIN new : new[x] \in [tag : Tags, ok : BOOLEAN]
<1>1. CASE k \in DOMAIN rows /\ rows[k].ok
  BY <1>1 DEF Recorded
<1>2. CASE ~(k \in DOMAIN rows /\ rows[k].ok)
  BY <1>2 DEF Recorded
<1>3. QED
  BY <1>1, <1>2

\* A pipeline stores rows of its candidate under the tag of the phase.
LEMMA PipelineTypes ==
    ASSUME CascadeTypeOK, NEW m \in Models, RunPipeline(m)
    PROVE  /\ DOMAIN store' \subseteq CallKeys
           /\ \A k \in DOMAIN store' : store'[k] \in [tag : Tags, ok : BOOLEAN]
           /\ cache' \subseteq CallKeys
           /\ answered' \subseteq ran'
<1>1. PICK rootOk \in BOOLEAN, childOk \in BOOLEAN :
        LET rk == RootKey(m)
            rootHit == rk \in cache
            rows1 == IF rootHit THEN store ELSE Recorded(store, rk, [tag |-> tag, ok |-> rootOk])
            ck == ChildKey(m, Author(m, rootHit \/ rootOk))
            skip == ChildAnswerers(m) = {}
            childHit == skip \/ ck \in cache
        IN /\ store' = IF childHit THEN rows1
                       ELSE Recorded(rows1, ck, [tag |-> tag, ok |-> childOk])
           /\ cache' = cache \cup (IF rootOk THEN {rk} ELSE {})
                             \cup (IF childOk /\ ~skip THEN {ck} ELSE {})
           /\ answered' = IF rootOk /\ childOk THEN answered \cup {m} ELSE answered
           /\ ran' = ran \cup {m}
  BY DEF RunPipeline
<1> DEFINE rk == RootKey(m)
           rootHit == rk \in cache
           rows1 == IF rootHit THEN store ELSE Recorded(store, rk, [tag |-> tag, ok |-> rootOk])
           author == Author(m, rootHit \/ rootOk)
           ck == ChildKey(m, author)
           childHit == ChildAnswerers(m) = {} \/ ck \in cache
<1>2. rk \in CallKeys
  BY DEF CallKeys
<1>3. author \in Models \cup {Nobody}
  BY DEF Author, CascadeTypeOK
<1> HIDE DEF author
<1>4. ck \in CallKeys
  BY <1>3 DEF CallKeys
<1>5. tag \in Tags
  BY DEF CascadeTypeOK
<1> HIDE DEF rk, ck
<1>6. DOMAIN rows1 \subseteq CallKeys /\ \A k \in DOMAIN rows1 : rows1[k] \in [tag : Tags, ok : BOOLEAN]
  BY <1>2, <1>5, RecordedTypes DEF CascadeTypeOK
<1>7. store' = IF childHit THEN rows1 ELSE Recorded(rows1, ck, [tag |-> tag, ok |-> childOk])
  BY <1>1 DEF author, ck, rk
<1> HIDE DEF rows1, childHit
<1>8. DOMAIN store' \subseteq CallKeys /\ \A k \in DOMAIN store' : store'[k] \in [tag : Tags, ok : BOOLEAN]
  BY <1>4, <1>5, <1>6, <1>7, RecordedTypes
<1>9. cache' \subseteq CallKeys
  BY <1>1, <1>2, <1>4 DEF CascadeTypeOK, author, ck, rk
<1>10. answered' \subseteq ran'
  BY <1>1 DEF CascadeTypeOK
<1>11. QED
  BY <1>8, <1>9, <1>10

\* The numbers among the constants.
LEMMA Bounds == NRounds \in Nat /\ NRounds # 0 /\ MaxPhases \in Nat
  BY CascadeAssumption

\* What is written for a tag and a round is a model or nobody.
LEMMA WinnersTyped ==
    ASSUME CascadeTypeOK
    PROVE  \A r \in Rounds : winners[tag][r] \in Models \cup {Nobody}
<1>1. winners \in [Tags -> [Rounds -> Models \cup {Nobody}]]
  BY DEF CascadeTypeOK
<1>2. tag \in Tags
  BY DEF CascadeTypeOK
<1>3. winners[tag] \in [Rounds -> Models \cup {Nobody}]
  BY ONLY <1>1, <1>2
<1>4. QED
  BY ONLY <1>3

\* Rows, winners, cache and the place of a phase are what they should be, and the
\* bound on phases is kept (benchmark.py, run_phase).
THEOREM TypeCorrect == CascadeSpec => []CascadeTypeOK
<1> USE Bounds
<1>1. CascadeInit => CascadeTypeOK
  <2> SUFFICES ASSUME CascadeInit PROVE CascadeTypeOK
    OBVIOUS
  <2>1. DOMAIN store = {}
    <3>1. DOMAIN <<>> = {}
      OBVIOUS
    <3>2. QED
      BY <3>1 DEF CascadeInit
  <2>2. winners \in [Tags -> [Rounds -> Models \cup {Nobody}]]
    BY DEF CascadeInit
  <2>3. round \in Rounds /\ phases \in 0 .. MaxPhases
    <3>1. round = 1 /\ phases = 0
      BY DEF CascadeInit
    <3>2. QED
      BY <3>1 DEF Rounds
  <2>4. QED
    BY <2>1, <2>2, <2>3 DEF CascadeInit, CascadeTypeOK
<1>2. CascadeTypeOK /\ [CascadeNext]_cascadeVars => CascadeTypeOK'
  <2> SUFFICES ASSUME CascadeTypeOK, [CascadeNext]_cascadeVars PROVE CascadeTypeOK'
    OBVIOUS
  <2>1. ASSUME NEW t \in Tags, NEW first \in Rounds, StartPhase(t, first) PROVE CascadeTypeOK'
    <3>1. cache' \subseteq CallKeys
      BY <2>1 DEF StartPhase, Prefetch, CascadeTypeOK
    <3>2. phases' \in 0 .. MaxPhases
      <4>1. phases \in 0 .. MaxPhases /\ phases < MaxPhases /\ phases' = phases + 1
        BY <2>1 DEF StartPhase, CascadeTypeOK
      <4>2. QED
        BY <4>1
    <3>3. QED
      BY <2>1, <3>1, <3>2 DEF StartPhase, CascadeTypeOK, storeVars
  <2>2. CASE LoadSubstrates
    <3>1. upstream' \in Models \cup {Nobody}
      <4>1. CASE round = 1
        BY <2>2, <4>1 DEF LoadSubstrates
      <4>2. CASE round # 1
        <5>1. round \in Rounds
          BY DEF CascadeTypeOK
        <5>2. round - 1 \in Rounds
          BY <4>2, <5>1 DEF Rounds
        <5>3. \A r \in Rounds : winners[tag][r] \in Models \cup {Nobody}
          BY WinnersTyped
        <5>4. QED
          BY <2>2, <4>2, <5>2, <5>3 DEF LoadSubstrates
      <4>3. QED
        BY <4>1, <4>2
    <3>2. QED
      BY <2>2, <3>1 DEF LoadSubstrates, CascadeTypeOK, storeVars, histVars
  <2>3. ASSUME NEW m \in Models, RunPipeline(m) PROVE CascadeTypeOK'
    <3>1. ran' \subseteq Models /\ UNCHANGED <<winners, up, at, tag, round, pool, upstream, phases, elected>>
      BY <2>3 DEF RunPipeline, CascadeTypeOK
    <3>2. QED
      BY <2>3, <3>1, PipelineTypes DEF CascadeTypeOK
  <2>4. CASE Promote
    <3>1. elected' \in Models \cup {Nobody}
      BY <2>4 DEF Promote, Elect, RootWinners
    <3>2. QED
      BY <2>4, <3>1 DEF Promote, Elect, CascadeTypeOK, storeVars
  <2>5. CASE PersistWinners
    <3>1. winners' \in [Tags -> [Rounds -> Models \cup {Nobody}]]
      BY <2>5 DEF PersistWinners, CascadeTypeOK
    <3>2. at' \in {"load", "done"} /\ round' \in Rounds /\ upstream' = Nobody /\ ran' = {} /\ answered' = {}
      <4>1. round \in Rounds
        BY DEF CascadeTypeOK
      <4>2. \/ at' = "done" /\ round' = round
            \/ round # NRounds /\ at' = "load" /\ round' = round + 1
        BY <2>5 DEF PersistWinners, NextRound
      <4>3. at' \in {"load", "done"} /\ round' \in Rounds
        BY <4>1, <4>2 DEF Rounds
      <4>4. QED
        BY <2>5, <4>3 DEF PersistWinners, NextRound
    <3>3. QED
      BY <2>5, <3>1, <3>2 DEF PersistWinners, CascadeTypeOK
  <2>6. CASE Die
    <3>1. 1 \in Rounds
      BY DEF Rounds
    <3>2. QED
      BY <2>6, <3>1 DEF Die, CascadeTypeOK, storeVars
  <2>7. CASE UNCHANGED cascadeVars
    BY <2>7 DEF cascadeVars, storeVars, phaseVars, histVars, CascadeTypeOK
  <2>8. QED
    BY <2>1, <2>2, <2>3, <2>4, <2>5, <2>6, <2>7 DEF CascadeNext, Proceed
<1>3. QED
  BY <1>1, <1>2, PTL DEF CascadeSpec

-----------------------------------------------------------------------------
\* Every step keeps the cache and storage equal (runner/resume.py).
LEMMA CacheIsStorageHolds == CascadeSpec => []CacheIsStorage
<1>1. CascadeInit => CacheIsStorage
  BY DEF CascadeInit, CacheIsStorage
<1>2. CacheIsStorage /\ [CascadeNext]_cascadeVars => CacheIsStorage'
  <2> SUFFICES ASSUME CacheIsStorage, [CascadeNext]_cascadeVars PROVE CacheIsStorage'
    OBVIOUS
  <2> USE DEF CacheIsStorage
  <2>1. ASSUME NEW t \in Tags, NEW first \in Rounds, StartPhase(t, first) PROVE CacheIsStorage'
    BY <2>1 DEF StartPhase, storeVars, Prefetch, UsableIn
  <2>2. CASE LoadSubstrates
    BY <2>2 DEF LoadSubstrates, storeVars
  <2>3. ASSUME NEW m \in Models, RunPipeline(m) PROVE CacheIsStorage'
    <3>1. up /\ UNCHANGED <<up, at>>
      BY <2>3 DEF RunPipeline
    <3>2. QED
      BY <2>3, <3>1, PipelineStep
  <2>4. CASE Promote
    BY <2>4 DEF Promote, Elect, storeVars
  <2>5. CASE PersistWinners
    BY <2>5 DEF PersistWinners
  <2>6. CASE Die
    BY <2>6 DEF Die, storeVars
  <2>7. CASE UNCHANGED cascadeVars
    BY <2>7 DEF cascadeVars, storeVars, phaseVars
  <2>8. QED
    BY <2>1, <2>2, <2>3, <2>4, <2>5, <2>6, <2>7 DEF CascadeNext, Proceed
<1>3. QED
  BY <1>1, <1>2, PTL DEF CascadeSpec

\* The resume cache answers with usable rows of storage only (runner/resume.py).
THEOREM CacheIsBacked == CascadeSpec => []CacheHasRows
<1>1. CacheIsStorage => CacheHasRows
  BY DEF CacheIsStorage, CacheHasRows, Usable, UsableIn
<1>2. QED
  BY <1>1, CacheIsStorageHolds, PTL

\* Whatever crashes, phases and tags come between, no call is made for a key whose
\* usable row storage has (storage/base.py, prefetch_resume_cache).
THEOREM NothingPaidTwice == CascadeSpec => NothingRepaid
<1>1. CacheIsStorage /\ [CascadeNext]_cascadeVars => [PaysForNews]_cascadeVars
  <2> SUFFICES ASSUME CacheIsStorage, CascadeNext PROVE PaysForNews
    BY DEF cascadeVars
  <2>1. ASSUME NEW m \in Models, RunPipeline(m) PROVE PaysForNews
    <3>1. cache = UsableIn(store)
      BY <2>1 DEF RunPipeline, CacheIsStorage
    <3>2. \A c \in calls' : c.key \notin UsableIn(store)
      BY <2>1, <3>1, PipelineStep
    <3>3. QED
      BY <3>2 DEF PaysForNews, Usable, UsableIn
  <2>2. ASSUME calls' \subseteq calls PROVE PaysForNews
    BY <2>2 DEF PaysForNews
  <2>3. QED
    BY <2>1, <2>2
       DEF CascadeNext, Proceed, StartPhase, LoadSubstrates, Promote, Elect, PersistWinners, Die, histVars
<1>2. QED
  BY <1>1, CacheIsStorageHolds, PTL DEF CascadeSpec, NothingRepaid

-----------------------------------------------------------------------------
\* Calls are those of the round under way, and those of a validator stage are
\* answered as JudgeIsIndependent says.
JudgesHold ==
    /\ CascadeTypeOK
    /\ at # "run" => calls = {}
    /\ JudgeIsIndependent

\* A validator stage is answered neither by its producer nor by the author of the
\* text, but for the previous winner (round_runner.py,
\* _resolve_validator_call_model).
LEMMA PipelineIsJudged ==
    ASSUME CascadeTypeOK, NEW m \in Models, RunPipeline(m)
    PROVE  JudgeIsIndependent'
<1> SUFFICES ASSUME ChildJudges, NEW c \in calls', c.key[1] = "child"
             PROVE  c.by # c.key[3] /\ (c.by = c.author => upstream' = c.author)
  BY DEF JudgeIsIndependent
<1>1. PICK author \in {upstream, m, Nobody}, j \in ChildAnswerers(m) :
        c = [key |-> ChildKey(m, author), by |-> j, author |-> ChildKey(m, author)[2]]
  <2>1. PICK rootOk \in BOOLEAN, childOk \in BOOLEAN :
          LET ck == ChildKey(m, Author(m, RootKey(m) \in cache \/ rootOk))
              childHit == ChildAnswerers(m) = {} \/ ck \in cache
          IN \E j \in IF childHit THEN {m} ELSE ChildAnswerers(m) :
               calls' = (IF RootKey(m) \in cache THEN {} ELSE {[key |-> RootKey(m), by |-> m, author |-> Nobody]})
                        \cup (IF childHit THEN {} ELSE {[key |-> ck, by |-> j, author |-> ck[2]]})
    BY DEF RunPipeline
  <2> DEFINE a == Author(m, RootKey(m) \in cache \/ rootOk)
             ck == ChildKey(m, a)
  <2>2. a \in {upstream, m, Nobody}
    BY DEF Author
  <2> HIDE DEF a
  <2>3. c.key # RootKey(m)
    BY DEF RootKey
  <2>4. \E j \in ChildAnswerers(m) : c = [key |-> ck, by |-> j, author |-> ck[2]]
    <3>1. CASE ChildAnswerers(m) = {} \/ ck \in cache
      BY <2>1, <2>3, <3>1 DEF a
    <3>2. CASE ~(ChildAnswerers(m) = {} \/ ck \in cache)
      <4>1. PICK j \in ChildAnswerers(m) :
              calls' = (IF RootKey(m) \in cache THEN {} ELSE {[key |-> RootKey(m), by |-> m, author |-> Nobody]})
                       \cup {[key |-> ck, by |-> j, author |-> ck[2]]}
        BY <2>1, <3>2 DEF a
      <4> HIDE DEF ck
      <4>2. QED
        BY <2>3, <4>1
    <3>3. QED
      BY <3>1, <3>2
  <2>5. QED
    BY <2>2, <2>4
<1>2. j \in Models /\ j # m /\ j # Nobody
  BY <1>1, CascadeAssumption DEF ChildAnswerers, Judges, CascadeTypeOK
<1>3. c.by = j /\ c.author = author /\ c.key[3] = m
  BY <1>1 DEF ChildKey
<1>4. upstream' = upstream
  BY DEF RunPipeline
<1>5. QED
  BY <1>1, <1>2, <1>3, <1>4

\* The same of every state (core/types.py, Stage.is_validator).
THEOREM JudgesAreIndependent == CascadeSpec => []JudgeIsIndependent
<1>1. CascadeInit /\ CascadeTypeOK => JudgesHold
  BY DEF CascadeInit, JudgesHold, JudgeIsIndependent
<1>2. JudgesHold /\ CascadeTypeOK' /\ [CascadeNext]_cascadeVars => JudgesHold'
  <2> SUFFICES ASSUME JudgesHold, CascadeTypeOK', [CascadeNext]_cascadeVars PROVE JudgesHold'
    OBVIOUS
  <2>1. ASSUME calls' = {} PROVE JudgesHold'
    BY <2>1 DEF JudgesHold, JudgeIsIndependent
  <2>2. CASE LoadSubstrates
    BY <2>1, <2>2 DEF LoadSubstrates, JudgesHold, histVars
  <2>3. ASSUME NEW m \in Models, RunPipeline(m) PROVE JudgesHold'
    <3>1. at' = "run"
      BY <2>3 DEF RunPipeline
    <3>2. QED
      BY <2>3, <3>1, PipelineIsJudged DEF JudgesHold
  <2>4. CASE PersistWinners
    BY <2>1, <2>4 DEF PersistWinners, JudgesHold
  <2>5. CASE UNCHANGED cascadeVars
    BY <2>5 DEF cascadeVars, storeVars, phaseVars, histVars, JudgesHold, JudgeIsIndependent
  <2>6. QED
    BY <2>1, <2>2, <2>3, <2>4, <2>5 DEF CascadeNext, Proceed, StartPhase, Promote, Elect, Die
<1>3. JudgesHold => JudgeIsIndependent
  BY DEF JudgesHold
<1>4. QED
  BY <1>1, <1>2, <1>3, TypeCorrect, PTL DEF CascadeSpec

-----------------------------------------------------------------------------
\* The winner elected last is the one persisted last, and its rows are under the
\* tag: what is loaded then is what was elected.
WinnerIsHanded ==
    /\ CascadeTypeOK
    /\ at \in {"persist", "load"} /\ elected \notin {"none yet", Nobody} => RootKey(elected) \in RowsOf(tag)
    /\ at = "load" /\ elected # "none yet" => round # 1 /\ winners[tag][round - 1] = elected
    /\ SubstrateIsFresh

\* What persist_winners files under its round, the next round finds
\* (round_runner.py, run_round).
LEMMA PersistedIsFound ==
    ASSUME CascadeTypeOK, PersistWinners, at' = "load"
    PROVE  round' # 1 /\ winners'[tag'][round' - 1] = elected'
<1> DEFINE w == winners'[tag]
<1>1. round \in Rounds /\ tag \in Tags /\ winners \in [Tags -> [Rounds -> Models \cup {Nobody}]]
  BY DEF CascadeTypeOK
<1>2. w[round] = elected
  BY <1>1 DEF PersistWinners
<1>3. round' = round + 1 /\ tag' = tag /\ elected' = elected
  BY DEF PersistWinners, NextRound
<1> HIDE DEF w
<1>4. round \in Int
  BY <1>1, Bounds DEF Rounds
<1>5. round' - 1 = round /\ round' # 1
  BY <1>1, <1>3, <1>4, Bounds DEF Rounds
<1>6. QED
  BY <1>2, <1>3, <1>5 DEF w

\* Each round of a phase builds its child stages on the winner the round before it
\* elected, whatever winners an earlier phase left under the tag
\* (round_runner.py, _preload_winner_substrates).
THEOREM SubstratesAreFresh == CascadeSpec => []SubstrateIsFresh
<1>1. CascadeInit /\ CascadeTypeOK => WinnerIsHanded
  BY DEF CascadeInit, WinnerIsHanded, SubstrateIsFresh
<1>2. WinnerIsHanded /\ CascadeTypeOK' /\ [CascadeNext]_cascadeVars => WinnerIsHanded'
  <2> SUFFICES ASSUME WinnerIsHanded, CascadeTypeOK', [CascadeNext]_cascadeVars PROVE WinnerIsHanded'
    OBVIOUS
  <2>1. ASSUME elected' = "none yet" PROVE WinnerIsHanded'
    BY <2>1 DEF WinnerIsHanded, SubstrateIsFresh
  <2>2. CASE LoadSubstrates
    <3>1. at' = "run" /\ elected' = elected
      BY <2>2 DEF LoadSubstrates, histVars
    <3>2. elected # "none yet" => upstream' = elected
      BY <2>2 DEF LoadSubstrates, WinnerIsHanded
    <3>3. QED
      BY <3>1, <3>2 DEF WinnerIsHanded, SubstrateIsFresh
  <2>3. ASSUME NEW m \in Models, RunPipeline(m) PROVE WinnerIsHanded'
    BY <2>3 DEF RunPipeline, WinnerIsHanded, SubstrateIsFresh
  <2>4. CASE Promote
    <3>1. elected' # Nobody => RootKey(elected') \in RowsOf(tag)
      BY <2>4 DEF Promote, Elect, RootWinners
    <3>2. at' = "persist" /\ UNCHANGED <<store, tag>>
      BY <2>4 DEF Promote, Elect, storeVars
    <3>3. QED
      BY <3>1, <3>2 DEF WinnerIsHanded, SubstrateIsFresh, RowsOf
  <2>5. CASE PersistWinners
    <3>1. at = "persist" /\ at' \in {"load", "done"} /\ UNCHANGED <<store, tag, elected>>
      BY <2>5 DEF PersistWinners, NextRound
    <3>2. at' = "load" => round' # 1 /\ winners'[tag'][round' - 1] = elected'
      BY <2>5, PersistedIsFound DEF WinnerIsHanded
    <3>3. elected' \notin {"none yet", Nobody} => RootKey(elected') \in RowsOf(tag)'
      BY <3>1 DEF WinnerIsHanded, RowsOf
    <3>4. QED
      BY <3>1, <3>2, <3>3 DEF WinnerIsHanded, SubstrateIsFresh
  <2>6. CASE UNCHANGED cascadeVars
    BY <2>6 DEF cascadeVars, storeVars, phaseVars, histVars, WinnerIsHanded, SubstrateIsFresh, RowsOf
  <2>7. QED
    BY <2>1, <2>2, <2>3, <2>4, <2>5, <2>6 DEF CascadeNext, Proceed, StartPhase, Die
<1>3. WinnerIsHanded => SubstrateIsFresh
  BY DEF WinnerIsHanded
<1>4. QED
  BY <1>1, <1>2, <1>3, TypeCorrect, PTL DEF CascadeSpec

-----------------------------------------------------------------------------
\* Who is promoted has a row, which nothing takes away before the next round runs.
PromotedAreRanked == at \in {"persist", "done"} => pool \subseteq Ranked(tag)

\* No finalist is without a place in the ranking of its tag, and so without the
\* rows its score is read from (halving/driver.py, promote).
THEOREM FinalistsHaveRows == CascadeSpec => []FinalistsAreRanked
<1>1. CascadeInit => PromotedAreRanked
  BY DEF CascadeInit, PromotedAreRanked
<1>2. PromotedAreRanked /\ [CascadeNext]_cascadeVars => PromotedAreRanked'
  <2> SUFFICES ASSUME PromotedAreRanked, [CascadeNext]_cascadeVars PROVE PromotedAreRanked'
    OBVIOUS
  <2> USE DEF PromotedAreRanked
  <2>1. ASSUME NEW t \in Tags, NEW first \in Rounds, StartPhase(t, first) PROVE PromotedAreRanked'
    BY <2>1 DEF StartPhase
  <2>2. CASE LoadSubstrates
    BY <2>2 DEF LoadSubstrates
  <2>3. ASSUME NEW m \in Models, RunPipeline(m) PROVE PromotedAreRanked'
    BY <2>3 DEF RunPipeline
  <2>4. CASE Promote
    BY <2>4 DEF Promote, Elect, storeVars, Ranked, RowsOf
  <2>5. CASE PersistWinners
    BY <2>5 DEF PersistWinners, Ranked, RowsOf
  <2>6. CASE Die
    BY <2>6 DEF Die
  <2>7. CASE UNCHANGED cascadeVars
    BY <2>7 DEF cascadeVars, storeVars, phaseVars, Ranked, RowsOf
  <2>8. QED
    BY <2>1, <2>2, <2>3, <2>4, <2>5, <2>6, <2>7 DEF CascadeNext, Proceed
<1>3. PromotedAreRanked => FinalistsAreRanked
  BY DEF PromotedAreRanked, FinalistsAreRanked
<1>4. QED
  BY <1>1, <1>2, <1>3, PTL DEF CascadeSpec

\* Whoever ran this round has a row of the root stage: an old one that answered
\* its call, or the one that was recorded, a failure's too.
RanHaveRows == \A m \in ran : RootKey(m) \in DOMAIN store

\* A row recorded is in storage, and no other goes.
LEMMA RecordedKeeps ==
    ASSUME NEW rows, NEW k, NEW row
    PROVE  DOMAIN Recorded(rows, k, row) = DOMAIN rows \cup {k}
BY DEF Recorded

LEMMA PipelineHasRow ==
    ASSUME NEW m \in Models, RunPipeline(m), cache = UsableIn(store)
    PROVE  DOMAIN store \cup {RootKey(m)} \subseteq DOMAIN store'
<1>1. PICK rootOk \in BOOLEAN, childOk \in BOOLEAN :
        LET rk == RootKey(m)
            rootHit == rk \in cache
            rows1 == IF rootHit THEN store ELSE Recorded(store, rk, [tag |-> tag, ok |-> rootOk])
            ck == ChildKey(m, Author(m, rootHit \/ rootOk))
            childHit == ChildAnswerers(m) = {} \/ ck \in cache
        IN store' = IF childHit THEN rows1
                    ELSE Recorded(rows1, ck, [tag |-> tag, ok |-> childOk])
  BY DEF RunPipeline
<1> DEFINE rk == RootKey(m)
           row == [tag |-> tag, ok |-> rootOk]
           rows1 == IF rk \in cache THEN store ELSE Recorded(store, rk, row)
           ck == ChildKey(m, Author(m, rk \in cache \/ rootOk))
           next == Recorded(rows1, ck, [tag |-> tag, ok |-> childOk])
<1>2. DOMAIN rows1 = DOMAIN store \cup {rk}
  <2>1. CASE rk \in cache
    BY <2>1 DEF UsableIn
  <2>2. CASE rk \notin cache
    <3>1. rows1 = Recorded(store, rk, row)
      BY <2>2
    <3> HIDE DEF rows1, rk, row
    <3>2. QED
      BY <3>1, RecordedKeeps
  <2>3. QED
    BY <2>1, <2>2
<1>3. store' \in {rows1, next}
  BY <1>1
<1>4. DOMAIN rows1 \subseteq DOMAIN next
  <2> HIDE DEF rows1, ck
  <2>1. DOMAIN next = DOMAIN rows1 \cup {ck}
    BY RecordedKeeps
  <2>2. QED
    BY <2>1
<1> HIDE DEF rows1, next, rk
<1>5. QED
  BY <1>2, <1>3, <1>4 DEF rk

\* The ranking of a phase is whole: who ran is in it, failed or resumed, while no
\* other tag has rows, and every finalist is (runner/benchmark.py, run_round ranks
\* query_rows of the tag; a row another tag wrote is the exception it shows).
THEOREM RankingHasAll == CascadeSpec => []RankingIsWhole
<1>1. CascadeInit => RanHaveRows
  BY DEF CascadeInit, RanHaveRows
<1>2. CacheIsStorage /\ RanHaveRows /\ [CascadeNext]_cascadeVars => RanHaveRows'
  <2> SUFFICES ASSUME CacheIsStorage, RanHaveRows, [CascadeNext]_cascadeVars PROVE RanHaveRows'
    OBVIOUS
  <2>1. ASSUME ran' = {} PROVE RanHaveRows'
    BY <2>1 DEF RanHaveRows
  <2>2. ASSUME ran' = ran, store' = store PROVE RanHaveRows'
    BY <2>2 DEF RanHaveRows, RootKey
  <2>3. ASSUME NEW m \in Models, RunPipeline(m) PROVE RanHaveRows'
    <3>1. up /\ ran' = ran \cup {m}
      BY <2>3 DEF RunPipeline, CacheIsStorage
    <3>2. DOMAIN store \cup {RootKey(m)} \subseteq DOMAIN store'
      BY <2>3, <3>1, PipelineHasRow DEF CacheIsStorage
    <3>3. QED
      BY <3>1, <3>2 DEF RanHaveRows, RootKey
  <2>4. CASE UNCHANGED cascadeVars
    BY <2>2, <2>4 DEF cascadeVars, storeVars, phaseVars
  <2>5. QED
    BY <2>1, <2>2, <2>3, <2>4
       DEF CascadeNext, Proceed, StartPhase, LoadSubstrates, Promote, Elect, PersistWinners,
           NextRound, Die, storeVars
<1>3. RanHaveRows => RunIsRanked
  <2> SUFFICES ASSUME RanHaveRows, \A k \in DOMAIN store : store[k].tag = tag, NEW m \in ran
               PROVE  m \in Ranked(tag)
    BY DEF RunIsRanked
  <2>1. RootKey(m) \in RowsOf(tag) /\ RootKey(m)[3] = m
    BY DEF RanHaveRows, RowsOf, RootKey
  <2>2. QED
    BY <2>1 DEF Ranked
<1>4. RunIsRanked /\ FinalistsAreRanked => RankingIsWhole
  BY DEF RankingIsWhole
<1>5. QED
  BY <1>1, <1>2, <1>3, <1>4, CacheIsStorageHolds, FinalistsHaveRows, PTL DEF CascadeSpec

-----------------------------------------------------------------------------
(* Who judges whom (Pairing). *)

\* One, two or three candidates are paired in one step or not at all.
PairsSoFar ==
    /\ n \in Nat
    /\ validatorOf \in Seq(Candidates)
    /\ Len(validatorOf) <= n
    /\ n = 3 => validatorOf \in {<<>>, <<2, 3, 1>>}
    /\ n < 3 => validatorOf = <<>>

\* Every pair so far uses one validator once.
EveryUseCounts ==
    n >= 4 => SumFunctionOnSet([v \in Candidates |-> Used(v)], Candidates) = Len(validatorOf)

PairingInv == PairsSoFar /\ NobodyJudgesBack /\ WorkIsShared /\ EveryUseCounts

\* The candidates are finitely many, and nobody is used more often than there
\* are pairs.
LEMMA CandidatesAreFinite ==
    ASSUME PairsSoFar
    PROVE  /\ IsFiniteSet(Candidates) /\ Cardinality(Candidates) = n
           /\ IsFiniteSet(DOMAIN validatorOf)
           /\ DOMAIN validatorOf = 1 .. Len(validatorOf) /\ Len(validatorOf) \in Nat
           /\ \A v : Used(v) \in Nat
<1>1. n \in Nat /\ validatorOf \in Seq(Candidates)
  BY DEF PairsSoFar
<1>2. DOMAIN validatorOf = 1 .. Len(validatorOf) /\ Len(validatorOf) \in Nat
  BY <1>1
<1>3. IsFiniteSet(1 .. Len(validatorOf))
  BY <1>2, FS_Interval
<1>4. IsFiniteSet(1 .. n) /\ Cardinality(1 .. n) = n
  <2>1. IsFiniteSet(1 .. n) /\ Cardinality(1 .. n) = IF 1 > n THEN 0 ELSE n - 1 + 1
    BY <1>1, FS_Interval
  <2>2. QED
    BY <1>1, <2>1
<1>5. ASSUME NEW v PROVE Used(v) \in Nat
  <2>1. {p \in DOMAIN validatorOf : validatorOf[p] = v} \in SUBSET (1 .. Len(validatorOf))
    BY <1>2
  <2>2. QED
    BY <1>3, <2>1, FS_Subset, FS_CardinalityType DEF Used
<1>6. QED
  BY <1>2, <1>3, <1>4, <1>5 DEF Candidates

\* A new pair is one more use of its validator, and of nobody else.
LEMMA UsedOnceMore ==
    ASSUME PairsSoFar, NEW v \in Candidates, validatorOf' = Append(validatorOf, v), n' = n
    PROVE  \A w : Used(w)' = IF w = v THEN Used(w) + 1 ELSE Used(w)
<1> DEFINE p == Len(validatorOf) + 1
           by(w) == {q \in DOMAIN validatorOf : validatorOf[q] = w}
           byNow(w) == {q \in DOMAIN validatorOf' : validatorOf'[q] = w}
<1>1. validatorOf \in Seq(Candidates) /\ Len(validatorOf) \in Nat /\ DOMAIN validatorOf = 1 .. Len(validatorOf)
  BY CandidatesAreFinite DEF PairsSoFar
<1>2. /\ DOMAIN validatorOf' = DOMAIN validatorOf \cup {p} /\ p \notin DOMAIN validatorOf
      /\ validatorOf'[p] = v
      /\ \A q \in DOMAIN validatorOf : validatorOf'[q] = validatorOf[q]
  BY <1>1
<1>3. ASSUME NEW w
      PROVE  /\ w = v => byNow(w) = by(w) \cup {p}
             /\ w # v => byNow(w) = by(w)
             /\ p \notin by(w) /\ IsFiniteSet(by(w))
  <2>1. IsFiniteSet(by(w))
    BY CandidatesAreFinite, FS_Subset
  <2>2. QED
    BY <1>2, <2>1
<1>4. \A w : Used(w) = Cardinality(by(w)) /\ Used(w)' = Cardinality(byNow(w))
  BY DEF Used
<1> HIDE DEF by, byNow, p
<1>5. QED
  BY <1>3, <1>4, FS_AddElement

\* The set of validators that do not judge the producer is not empty as long as
\* nobody is used more than twice, and has all but the producer and its judges.
LEMMA SomeoneIsFresh ==
    ASSUME PairsSoFar, NobodyJudgesBack, WorkIsShared, n >= 4, Len(validatorOf) < n,
           NEW p, p = Len(validatorOf) + 1
    PROVE  LET back == {u \in DOMAIN validatorOf : validatorOf[u] = p} IN
           /\ Eligible(p) = (Candidates \ {p}) \ back
           /\ p \in Candidates
           /\ Cardinality(Eligible(p)) = n - 1 - Used(p)
           /\ Used(p) <= 2 /\ Used(p) \in Nat
<1> DEFINE back == {u \in DOMAIN validatorOf : validatorOf[u] = p}
           fresh == {v \in Candidates \ {p} : v \notin DOMAIN validatorOf \/ validatorOf[v] # p}
<1>1. n \in Nat /\ Len(validatorOf) \in Nat /\ DOMAIN validatorOf = 1 .. Len(validatorOf)
  BY CandidatesAreFinite DEF PairsSoFar
<1>2. p \in Candidates /\ p \notin DOMAIN validatorOf /\ DOMAIN validatorOf \subseteq Candidates
  BY <1>1 DEF Candidates
<1>3. fresh = (Candidates \ {p}) \ back
  OBVIOUS
<1>4. Used(p) = Cardinality(back) /\ Used(p) <= 2 /\ Used(p) \in Nat
  BY <1>2, CandidatesAreFinite DEF Used, WorkIsShared
<1>5. back \subseteq Candidates \ {p}
  BY <1>2
<1>6. IsFiniteSet(Candidates \ {p}) /\ Cardinality(Candidates \ {p}) = n - 1
  BY <1>2, CandidatesAreFinite, FS_RemoveElement
<1> HIDE DEF fresh, back
<1>7. Cardinality((Candidates \ {p}) \ back) = n - 1 - Used(p)
  <2> DEFINE others == Candidates \ {p}
  <2>1. IsFiniteSet(others) /\ Cardinality(others) = n - 1 /\ others \cap back = back
    BY <1>5, <1>6
  <2> HIDE DEF others
  <2>2. Cardinality(others \ back) = Cardinality(others) - Cardinality(others \cap back)
    BY <2>1, FS_Difference
  <2>3. Cardinality(others \ back) = n - 1 - Used(p)
    BY <1>4, <2>1, <2>2
  <2>4. QED
    BY <2>3 DEF others
<1>8. fresh # {}
  <2>1. Cardinality(fresh) # 0
    BY <1>1, <1>3, <1>4, <1>7
  <2>2. QED
    BY <2>1, FS_EmptySet
<1>9. Eligible(p) = fresh
  BY <1>8 DEF Eligible, fresh
<1>10. QED
  BY <1>2, <1>3, <1>4, <1>7, <1>9 DEF back

\* Who is chosen was used once at most: were all that may be chosen used twice,
\* there would be more pairs than producers before this one.
LEMMA ChosenHasTime ==
    ASSUME PairingInv, n >= 4, Len(validatorOf) < n,
           NEW p, p = Len(validatorOf) + 1, NEW v \in Eligible(p),
           \A w \in Eligible(p) : Rank(p, v) <= Rank(p, w)
    PROVE  Used(v) <= 1
<1> SUFFICES ASSUME Used(v) >= 2
             PROVE  FALSE
  BY CandidatesAreFinite DEF PairingInv
<1> DEFINE uses == [w \in Candidates |-> Used(w)]
           may == Eligible(p)
           others == Candidates \ {p}
<1>1. /\ n \in Nat /\ Len(validatorOf) \in Nat
      /\ IsFiniteSet(Candidates) /\ \A w : Used(w) \in Nat
  BY CandidatesAreFinite DEF PairingInv, PairsSoFar
<1>2. /\ p \in Candidates /\ may \subseteq others
      /\ Cardinality(may) = n - 1 - Used(p) /\ Used(p) <= 2
  BY SomeoneIsFresh DEF PairingInv
<1>3. ASSUME NEW w \in may PROVE Used(w) >= 2
  <2>1. 2 * Used(v) <= 2 * Used(w) + 1
    <3>1. Rank(p, v) <= Rank(p, w)
      OBVIOUS
    <3>2. Rank(p, v) >= 2 * Used(v) /\ Rank(p, w) <= 2 * Used(w) + 1 /\ Rank(p, v) \in Int /\ Rank(p, w) \in Int
      BY <1>1 DEF Rank
    <3>3. QED
      BY <1>1, <3>1, <3>2
  <2>2. QED
    BY <1>1, <2>1
<1>4. IsFiniteSet(others) /\ \A w \in others : uses[w] \in Nat
  BY <1>1, FS_RemoveElement
<1>5. SumFunctionOnSet(uses, others) >= 2 * Cardinality(may)
  <2>1. \A w \in may : uses[w] >= 2
    BY <1>2, <1>3
  <2> HIDE DEF uses, may, others
  <2>2. QED
    BY <1>2, <1>4, <2>1, SumAtLeast
<1>6. SumFunctionOnSet(uses, Candidates) = Used(p) + SumFunctionOnSet(uses, others)
  <2>1. \A w \in Candidates : uses[w] \in Nat
    BY <1>1
  <2>2. uses[p] = Used(p)
    BY <1>2
  <2> HIDE DEF uses
  <2>3. IsFiniteSet(Candidates) /\ p \in Candidates
    BY <1>1, <1>2
  <2>4. SumFunctionOnSet(uses, Candidates) = uses[p] + SumFunctionOnSet(uses, others)
    BY <2>1, <2>3, SumTakesOut
  <2>5. QED
    BY <2>2, <2>4
<1>7. SumFunctionOnSet(uses, Candidates) = Len(validatorOf)
  BY DEF PairingInv, EveryUseCounts
<1>8. SumFunctionOnSet(uses, others) \in Nat
  BY <1>4, SumIsNat
<1> HIDE DEF uses, may, others
<1>9. QED
  BY <1>1, <1>2, <1>5, <1>6, <1>7, <1>8

\* Three in a circle.
LEMMA CircleIsFair ==
    ASSUME PairingInv, PairThree
    PROVE  PairingInv'
<1>1. n = 3 /\ n' = 3 /\ validatorOf' = <<2, 3, 1>>
  BY DEF PairThree
<1>2. PairsSoFar'
  BY <1>1 DEF PairsSoFar, Candidates
<1>3. NobodyJudgesBack'
  BY <1>1 DEF NobodyJudgesBack
<1>4. ASSUME NEW v \in Candidates' PROVE (Used(v) <= 2)'
  <2> DEFINE by == {p \in DOMAIN validatorOf' : validatorOf'[p] = v}
  <2>1. v \in 1 .. 3
    BY <1>1 DEF Candidates
  <2>2. \E q \in 1 .. 3 : by = {q}
    <3>1. v = 1 => by = {3}
      BY <1>1
    <3>2. v = 2 => by = {1}
      BY <1>1
    <3>3. v = 3 => by = {2}
      BY <1>1
    <3>4. QED
      BY <2>1, <3>1, <3>2, <3>3
  <2>3. Cardinality(by) = 1
    BY <2>2, FS_Singleton
  <2>4. QED
    BY <2>3 DEF Used
<1>5. WorkIsShared'
  BY <1>4 DEF WorkIsShared
<1>6. EveryUseCounts'
  BY <1>1 DEF EveryUseCounts
<1>7. QED
  BY <1>2, <1>3, <1>5, <1>6 DEF PairingInv

\* One producer more.
LEMMA NextPairIsFair ==
    ASSUME PairingInv, PairNext
    PROVE  PairingInv'
<1> DEFINE p == Len(validatorOf) + 1
<1>1. /\ n >= 4 /\ Len(validatorOf) < n /\ n' = n
      /\ \E v \in Eligible(p) :
            /\ \A w \in Eligible(p) : Rank(p, v) <= Rank(p, w)
            /\ validatorOf' = Append(validatorOf, v)
  BY DEF PairNext
<1>2. PICK v \in Eligible(p) :
            /\ \A w \in Eligible(p) : Rank(p, v) <= Rank(p, w)
            /\ validatorOf' = Append(validatorOf, v)
  BY <1>1
<1>3. /\ n \in Nat /\ validatorOf \in Seq(Candidates) /\ Len(validatorOf) \in Nat
      /\ DOMAIN validatorOf = 1 .. Len(validatorOf)
      /\ IsFiniteSet(Candidates) /\ \A w : Used(w) \in Nat
  BY CandidatesAreFinite DEF PairingInv, PairsSoFar
<1>4. v \in Candidates /\ v # p /\ (v \in DOMAIN validatorOf => validatorOf[v] # p)
  BY <1>1, SomeoneIsFresh DEF PairingInv
<1>5. Used(v) <= 1
  BY <1>1, <1>2, ChosenHasTime
<1>6. \A w : Used(w)' = IF w = v THEN Used(w) + 1 ELSE Used(w)
  BY <1>1, <1>2, <1>4, UsedOnceMore DEF PairingInv
<1>7. Candidates' = Candidates
  BY <1>1 DEF Candidates
<1>8. /\ DOMAIN validatorOf' = 1 .. p /\ Len(validatorOf') = p
      /\ validatorOf'[p] = v
      /\ \A q \in DOMAIN validatorOf : validatorOf'[q] = validatorOf[q]
      /\ validatorOf' \in Seq(Candidates)
  BY <1>2, <1>3, <1>4
<1>9. PairsSoFar'
  BY <1>1, <1>3, <1>7, <1>8 DEF PairsSoFar
<1>10. NobodyJudgesBack'
  <2> SUFFICES ASSUME NEW q \in DOMAIN validatorOf'
               PROVE  /\ validatorOf'[q] # q
                      /\ validatorOf'[q] \in DOMAIN validatorOf' => validatorOf'[validatorOf'[q]] # q
    BY DEF NobodyJudgesBack
  <2>1. CASE q = p
    BY <1>3, <1>4, <1>8, <2>1
  <2>2. CASE q # p
    <3>1. q \in DOMAIN validatorOf /\ validatorOf'[q] = validatorOf[q]
      BY <1>3, <1>8, <2>2
    <3>2. validatorOf[q] # q /\ (validatorOf[q] \in DOMAIN validatorOf => validatorOf[validatorOf[q]] # q)
      BY <3>1 DEF PairingInv, NobodyJudgesBack
    <3>3. validatorOf[q] = p => v # q
      BY <1>4, <3>1
    <3>4. validatorOf[q] \in DOMAIN validatorOf' => validatorOf[q] = p \/ validatorOf[q] \in DOMAIN validatorOf
      BY <1>3, <1>8
    <3>5. QED
      BY <1>8, <3>1, <3>2, <3>3, <3>4
  <2>3. QED
    BY <2>1, <2>2
<1>11. WorkIsShared'
  <2>1. ASSUME NEW w \in Candidates PROVE Used(w)' <= 2
    <3>1. Used(w) <= 2
      BY DEF PairingInv, WorkIsShared
    <3>2. QED
      BY <1>3, <1>5, <1>6, <3>1
  <2>2. QED
    BY <1>7, <2>1 DEF WorkIsShared
<1>12. EveryUseCounts'
  <2> DEFINE uses == [w \in Candidates |-> Used(w)]
             usesNow == [w \in Candidates |-> Used(w)']
  <2>1. /\ \A w \in Candidates : uses[w] \in Nat /\ usesNow[w] \in Nat
        /\ \A w \in Candidates \ {v} : usesNow[w] = uses[w]
        /\ usesNow[v] = uses[v] + 1
    BY <1>3, <1>4, <1>6
  <2>2. SumFunctionOnSet(uses, Candidates) = Len(validatorOf)
    BY <1>1 DEF PairingInv, EveryUseCounts
  <2> HIDE DEF uses, usesNow
  <2>3. SumFunctionOnSet(usesNow, Candidates) + uses[v] = SumFunctionOnSet(uses, Candidates) + usesNow[v]
    <3>1. SumFunctionOnSet(usesNow, Candidates) + (IF v \in Candidates THEN uses[v] ELSE 0)
             = SumFunctionOnSet(uses, Candidates) + (IF v \in Candidates THEN usesNow[v] ELSE 0)
      BY <1>3, <2>1, SumMoves
    <3>2. QED
      BY <1>4, <3>1
  <2>4. SumFunctionOnSet(usesNow, Candidates) \in Nat
    BY <1>3, <2>1, SumIsNat
  <2>5. SumFunctionOnSet(usesNow, Candidates) = p
    BY <1>3, <1>4, <2>1, <2>2, <2>3, <2>4
  <2>6. SumFunctionOnSet([w \in Candidates' |-> Used(w)'], Candidates') = p
    BY <1>7, <2>5 DEF usesNow
  <2>7. QED
    BY <1>8, <2>6 DEF EveryUseCounts
<1>13. QED
  BY <1>9, <1>10, <1>11, <1>12 DEF PairingInv

\* However many candidates there are and whichever of the best validators the
\* shuffle puts first, nobody judges itself or its own judge and nobody judges
\* more than two (pairing.py, allowed_validator_pairs).
THEOREM PairingIsFair == PairingSpec => []PairsAreFair
<1>1. PairingInit => PairingInv
  <2> SUFFICES ASSUME PairingInit PROVE PairingInv
    OBVIOUS
  <2>1. n \in Nat /\ validatorOf = <<>>
    BY PairingAssumption DEF PairingInit
  <2>2. PairsSoFar /\ NobodyJudgesBack
    BY <2>1 DEF PairsSoFar, NobodyJudgesBack
  <2>3. \A v : Used(v) = 0
    BY <2>1, FS_EmptySet DEF Used
  <2>4. WorkIsShared
    BY <2>3 DEF WorkIsShared
  <2>5. EveryUseCounts
    <3> DEFINE F == {s \in SUBSET Candidates : SumFunctionOnSet([v \in Candidates |-> Used(v)], s) = 0}
    <3>1. {} \in F
      BY SumOfNone
    <3>2. ASSUME NEW s \in SUBSET Candidates, s # {}, \A x \in s : s \ {x} \in F
          PROVE  s \in F
      <4>1. PICK x \in s : TRUE
        BY <3>2
      <4> DEFINE uses == [v \in Candidates |-> Used(v)]
      <4>2. \A w \in s : uses[w] = 0
        BY <2>3
      <4>3. IsFiniteSet(s)
        BY <2>2, CandidatesAreFinite, FS_Subset
      <4>4. SumFunctionOnSet(uses, s \ {x}) = 0
        BY <3>2
      <4> HIDE DEF uses
      <4>5. SumFunctionOnSet(uses, s) = uses[x] + SumFunctionOnSet(uses, s \ {x})
        BY <4>2, <4>3, SumTakesOut
      <4>6. SumFunctionOnSet(uses, s) = 0
        BY <4>2, <4>4, <4>5
      <4>7. QED
        BY <4>6 DEF uses
    <3> HIDE DEF F
    <3>3. SUBSET Candidates \subseteq F
      BY <2>2, <3>1, <3>2, CandidatesAreFinite, SubsetInduction
    <3>4. QED
      BY <2>1, <3>3 DEF F, EveryUseCounts
  <2>6. QED
    BY <2>2, <2>4, <2>5 DEF PairingInv
<1>2. PairingInv /\ [PairingNext]_pairingVars => PairingInv'
  <2>1. PairingInv /\ UNCHANGED pairingVars => PairingInv'
    BY DEF pairingVars, PairingInv, PairsSoFar, NobodyJudgesBack, WorkIsShared, EveryUseCounts, Used, Candidates
  <2>2. QED
    BY <2>1, CircleIsFair, NextPairIsFair DEF PairingNext
<1>3. PairingInv => PairsAreFair
  BY DEF PairingInv, PairsAreFair
<1>4. QED
  BY <1>1, <1>2, <1>3, PTL DEF PairingSpec

-----------------------------------------------------------------------------
(* The order of the stages (StageGraph). *)

\* Of a sequence that has every member of a set: it is as long as the set is
\* large if and only if it has none twice.
LEMMA OnceEach ==
    ASSUME NEW S, NEW s \in Seq(S), Range(s) = S
    PROVE  /\ IsFiniteSet(S) /\ Cardinality(S) \in Nat
           /\ Cardinality(S) = Len(s) <=> \A i, j \in DOMAIN s : s[i] = s[j] => i = j
<1>1. Len(s) \in Nat /\ DOMAIN s = 1 .. Len(s) /\ s \in [1 .. Len(s) -> S]
  OBVIOUS
<1>2. IsFiniteSet(1 .. Len(s)) /\ Cardinality(1 .. Len(s)) = Len(s)
  <2>1. /\ IsFiniteSet(1 .. Len(s))
        /\ Cardinality(1 .. Len(s)) = IF 1 > Len(s) THEN 0 ELSE Len(s) - 1 + 1
    BY <1>1, FS_Interval
  <2>2. QED
    BY <1>1, <2>1
<1>3. s \in Surjection(1 .. Len(s), S)
  BY <1>1 DEF Surjection, Range
<1>4. /\ IsFiniteSet(S)
      /\ Cardinality(S) = Cardinality(1 .. Len(s)) <=> s \in Injection(1 .. Len(s), S)
  BY <1>2, <1>3, FS_Surjection
<1>5. s \in Injection(1 .. Len(s), S) <=> \A i, j \in DOMAIN s : s[i] = s[j] => i = j
  BY <1>1 DEF Injection, IsInjective
<1>6. QED
  BY <1>2, <1>4, <1>5, FS_CardinalityType

\* __post_init__ counts the ids to see that none is there twice.
LEMMA CountShowsDoubles ==
    ASSUME graph \in Seq(Stages)
    PROVE  Cardinality(Ids) = Len(graph) <=> \A i, j \in DOMAIN graph : graph[i].id = graph[j].id => i = j
<1> DEFINE s == [i \in 1 .. Len(graph) |-> graph[i].id]
<1>1. Len(graph) \in Nat /\ DOMAIN graph = 1 .. Len(graph)
  OBVIOUS
<1>2. s \in Seq(Ids) /\ Len(s) = Len(graph) /\ DOMAIN s = DOMAIN graph
  BY <1>1 DEF Ids
<1>3. Range(s) = Ids
  BY <1>1 DEF Range, Ids
<1>4. \A i \in DOMAIN graph : s[i] = graph[i].id
  BY <1>1
<1> HIDE DEF s
<1>5. Cardinality(Ids) = Len(s) <=> \A i, j \in DOMAIN s : s[i] = s[j] => i = j
  BY <1>2, <1>3, OnceEach
<1>6. QED
  BY <1>2, <1>4, <1>5

\* by_id finds an entry of the list.
LEMMA ParentIsListed ==
    ASSUME graph \in Seq(Stages), NEW sid \in Ids
    PROVE  \E i \in DOMAIN graph : graph[i].id = sid /\ graph[i].parent = ParentOf(sid)
<1>1. \E s \in Range(graph) : s.id = sid
  BY DEF Ids, Range
<1>2. PICK s \in Range(graph) : s.id = sid /\ s = (CHOOSE t \in Range(graph) : t.id = sid)
  BY <1>1
<1>3. QED
  BY <1>2 DEF Range, ParentOf

\* The stages under way are a path upwards, each once, and none is in order yet.
WalkIsPath ==
    /\ \A i, j \in DOMAIN stack : stack[i] = stack[j] => i = j
    /\ \A i \in DOMAIN stack : stack[i] \notin Placed
    /\ \A i \in DOMAIN stack : i + 1 \in DOMAIN stack => stack[i + 1] = ParentOf(stack[i])

\* So far each stage once, after its parent.
OrderIsSound ==
    /\ \A i, j \in DOMAIN out : out[i] = out[j] => i = j
    /\ \A i \in DOMAIN out :
         ParentOf(out[i]) = NoParent \/ \E j \in 1 .. i - 1 : out[j] = ParentOf(out[i])

\* What the loop has passed is in order, the last of it perhaps about to be.
LoopIsKept ==
    \A i \in 1 .. nextStage - 1 :
        graph[i].id \in Placed \/ (stack # <<>> /\ stack[1] = graph[i].id)

\* Only lists with distinct ids and known parents are put in order.
ChecksPassed ==
    verdict \in {"ordering", "accepted"} =>
        /\ \A i, j \in DOMAIN graph : graph[i].id = graph[j].id => i = j
        /\ \A i \in DOMAIN graph : graph[i].parent \in Ids \cup {NoParent}

GraphInv == GraphTypeOK /\ WalkIsPath /\ OrderIsSound /\ LoopIsKept /\ ChecksPassed /\ GraphsRunInOrder

\* An order that is sound leaves no stages that are all built on one another:
\* of any that are in it, the first is built on none of them.
LEMMA OrderedIsAcyclic ==
    ASSUME GraphTypeOK, OrderIsSound, Placed = Ids,
           NEW C \in SUBSET Ids, C # {}
    PROVE  \E x \in C : ParentOf(x) \notin C
<1> DEFINE P == {i \in DOMAIN out : out[i] \in C}
<1>1. Len(out) \in Nat /\ DOMAIN out = 1 .. Len(out)
  BY DEF GraphTypeOK
<1>2. P \in SUBSET Nat /\ P # {}
  BY <1>1 DEF Placed, Range
<1>3. PICK i \in P : \A j \in P : i <= j
  <2> HIDE DEF P
  <2>1. QED
    BY <1>2, LeastNat
<1>4. NoParent \notin C
  <2>1. \A k \in DOMAIN graph : graph[k] \in Stages
    BY DEF GraphTypeOK
  <2>2. \A k \in DOMAIN graph : graph[k].id \in Names
    BY <2>1 DEF Stages
  <2>3. Ids \subseteq Names
    BY <2>2 DEF Ids
  <2>4. QED
    BY <2>3, GraphAssumption
<1>5. ParentOf(out[i]) \notin C
  <2>1. CASE ParentOf(out[i]) = NoParent
    BY <1>4, <2>1
  <2>2. CASE \E j \in 1 .. i - 1 : out[j] = ParentOf(out[i])
    <3>1. PICK j \in 1 .. i - 1 : out[j] = ParentOf(out[i])
      BY <2>2
    <3>2. j \in DOMAIN out /\ ~(i <= j)
      BY <1>1, <3>1
    <3>3. out[j] \notin C
      BY <1>3, <3>2
    <3>4. QED
      BY <3>1, <3>3
  <2>3. QED
    BY <2>1, <2>2 DEF OrderIsSound
<1>6. QED
  BY <1>5

\* What is checked first is counted right.
LEMMA ChecksKeepGraph ==
    ASSUME GraphInv, CheckStages
    PROVE  GraphInv'
<1>1. /\ verdict = "new" /\ graph' = graph /\ nextStage' = nextStage /\ stack' = stack /\ out' = out
      /\ verdict' = IF /\ Cardinality(Ids) = Len(graph)
                       /\ \A i \in DOMAIN graph : graph[i].parent \in Ids \cup {NoParent}
                    THEN "ordering" ELSE "rejected"
  BY DEF CheckStages
<1>2. Ids' = Ids /\ Placed' = Placed /\ (\A x : ParentOf(x)' = ParentOf(x))
  BY <1>1 DEF Ids, Placed, ParentOf
<1>3. Cardinality(Ids) = Len(graph) <=> \A i, j \in DOMAIN graph : graph[i].id = graph[j].id => i = j
  BY CountShowsDoubles DEF GraphInv, GraphTypeOK
<1>4. GraphTypeOK'
  BY <1>1, <1>2 DEF GraphInv, GraphTypeOK
<1>5. WalkIsPath' /\ OrderIsSound' /\ LoopIsKept'
  BY <1>1, <1>2 DEF GraphInv, WalkIsPath, OrderIsSound, LoopIsKept
<1>6. ChecksPassed'
  BY <1>1, <1>2, <1>3 DEF ChecksPassed
<1>7. GraphsRunInOrder'
  BY <1>1, <1>2, <1>3 DEF GraphsRunInOrder, Forest
<1>8. QED
  BY <1>4, <1>5, <1>6, <1>7 DEF GraphInv

LEMMA LoopKeepsGraph ==
    ASSUME GraphInv, NextStage
    PROVE  GraphInv'
<1>1. /\ verdict = "ordering" /\ verdict' = "ordering" /\ graph' = graph /\ out' = out
      /\ stack = <<>> /\ nextStage <= Len(graph) /\ nextStage' = nextStage + 1
      /\ stack' = IF graph[nextStage].id \in Placed THEN <<>> ELSE <<graph[nextStage].id>>
  BY DEF NextStage
<1>2. Ids' = Ids /\ Placed' = Placed /\ (\A x : ParentOf(x)' = ParentOf(x))
  BY <1>1 DEF Ids, Placed, ParentOf
<1>3. nextStage \in 1 .. Len(graph) /\ nextStage \in DOMAIN graph /\ Len(graph) \in Nat
  BY <1>1 DEF GraphInv, GraphTypeOK
<1>4. graph[nextStage].id \in Ids
  BY <1>3 DEF Ids
<1>5. GraphTypeOK'
  <2>1. stack' \in Seq(Ids)
    BY <1>1, <1>4
  <2>2. QED
    BY <1>1, <1>2, <1>3, <2>1 DEF GraphInv, GraphTypeOK
<1>6. WalkIsPath'
  <2>1. CASE graph[nextStage].id \in Placed
    BY <1>1, <2>1 DEF WalkIsPath
  <2>2. CASE graph[nextStage].id \notin Placed
    <3>1. stack' = <<graph[nextStage].id>> /\ DOMAIN stack' = {1} /\ stack'[1] = graph[nextStage].id
      BY <1>1, <2>2
    <3>2. QED
      BY <1>2, <2>2, <3>1 DEF WalkIsPath
  <2>3. QED
    BY <2>1, <2>2
<1>7. OrderIsSound'
  BY <1>1, <1>2 DEF GraphInv, OrderIsSound
<1>8. LoopIsKept'
  <2> SUFFICES ASSUME NEW i \in 1 .. nextStage' - 1
               PROVE  graph[i].id \in Placed \/ (stack' # <<>> /\ stack'[1] = graph[i].id)
    BY <1>1, <1>2 DEF LoopIsKept
  <2>1. CASE i = nextStage
    BY <1>1, <2>1
  <2>2. CASE i # nextStage
    <3>1. i \in 1 .. nextStage - 1
      BY <1>1, <1>3, <2>2
    <3>2. QED
      BY <1>1, <3>1 DEF GraphInv, LoopIsKept
  <2>3. QED
    BY <2>1, <2>2
<1>9. ChecksPassed'
  BY <1>1, <1>2 DEF GraphInv, ChecksPassed
<1>10. GraphsRunInOrder'
  BY <1>1 DEF GraphsRunInOrder
<1>11. QED
  BY <1>5, <1>6, <1>7, <1>8, <1>9, <1>10 DEF GraphInv

\* A stage under way has its parent in the list, or none.
LEMMA TopIsListed ==
    ASSUME GraphInv, verdict = "ordering", stack # <<>>
    PROVE  /\ Len(stack) \in Nat \ {0} /\ DOMAIN stack = 1 .. Len(stack)
           /\ Top \in Ids /\ Top \notin Placed
           /\ ParentOf(Top) \in Ids \cup {NoParent}
<1>1. graph \in Seq(Stages) /\ stack \in Seq(Ids)
  BY DEF GraphInv, GraphTypeOK
<1>2. Len(stack) \in Nat \ {0} /\ DOMAIN stack = 1 .. Len(stack)
  BY <1>1
<1>3. Top \in Ids
  BY <1>1, <1>2 DEF Top
<1>4. Top \notin Placed
  BY <1>2 DEF Top, GraphInv, WalkIsPath
<1>5. ParentOf(Top) \in Ids \cup {NoParent}
  BY <1>1, <1>3, ParentIsListed DEF GraphInv, ChecksPassed
<1>6. QED
  BY <1>2, <1>3, <1>4, <1>5

\* A parent that is under way closes a cycle: every stage under way is built on
\* the next, and the last on one of them.
LEMMA ParentKeepsGraph ==
    ASSUME GraphInv, VisitParent
    PROVE  GraphInv'
<1> DEFINE parent == ParentOf(Top)
<1>1. /\ verdict = "ordering" /\ stack # <<>> /\ parent \notin Placed \cup {NoParent}
      /\ graph' = graph /\ out' = out /\ nextStage' = nextStage
  BY DEF VisitParent
<1>2. Ids' = Ids /\ Placed' = Placed /\ (\A x : ParentOf(x)' = ParentOf(x))
  BY <1>1 DEF Ids, Placed, ParentOf
<1>3. /\ Len(stack) \in Nat \ {0} /\ DOMAIN stack = 1 .. Len(stack) /\ parent \in Ids
      /\ stack \in Seq(Ids) /\ graph \in Seq(Stages)
  BY <1>1, TopIsListed DEF GraphInv, GraphTypeOK
<1>4. OrderIsSound'
  BY <1>1, <1>2 DEF GraphInv, OrderIsSound
<1>5. CASE parent \in Range(stack)
  <2>1. verdict' = "rejected" /\ stack' = stack
    BY <1>5 DEF VisitParent
  <2>2. GraphTypeOK' /\ WalkIsPath' /\ LoopIsKept' /\ ChecksPassed'
    BY <1>1, <1>2, <2>1 DEF GraphInv, GraphTypeOK, WalkIsPath, LoopIsKept, ChecksPassed
  <2>3. \A x \in Range(stack) : ParentOf(x) \in Range(stack)
    <3> SUFFICES ASSUME NEW i \in DOMAIN stack
                 PROVE  ParentOf(stack[i]) \in Range(stack)
      BY DEF Range
    <3>1. CASE i = Len(stack)
      BY <1>5, <3>1 DEF Top
    <3>2. CASE i # Len(stack)
      <4>1. i + 1 \in DOMAIN stack
        BY <1>3, <3>2
      <4>2. stack[i + 1] = ParentOf(stack[i])
        BY <4>1 DEF GraphInv, WalkIsPath
      <4>3. QED
        BY <4>1, <4>2 DEF Range
    <3>3. QED
      BY <3>1, <3>2
  <2>4. Range(stack) \in SUBSET Ids /\ Range(stack) # {}
    BY <1>3, <1>5 DEF Range
  <2>5. GraphsRunInOrder'
    BY <1>1, <1>2, <2>1, <2>3, <2>4 DEF GraphsRunInOrder, Forest
  <2>6. QED
    BY <1>4, <2>2, <2>5 DEF GraphInv
<1>6. CASE parent \notin Range(stack)
  <2>1. verdict' = "ordering" /\ stack' = Append(stack, parent)
    BY <1>1, <1>6 DEF VisitParent
  <2>2. /\ stack' \in Seq(Ids) /\ stack' # <<>> /\ Len(stack') = Len(stack) + 1
        /\ DOMAIN stack' = 1 .. Len(stack) + 1
        /\ \A i \in DOMAIN stack : stack'[i] = stack[i]
        /\ stack'[Len(stack) + 1] = parent
    BY <1>3, <2>1
  <2>3. GraphTypeOK'
    BY <1>1, <1>2, <2>1, <2>2 DEF GraphInv, GraphTypeOK
  <2>4. \A i \in DOMAIN stack : stack[i] # parent
    BY <1>6 DEF Range
  <2>5. WalkIsPath'
    <3>1. ASSUME NEW i \in DOMAIN stack', NEW j \in DOMAIN stack', stack'[i] = stack'[j] PROVE i = j
      <4>1. i \in DOMAIN stack \/ i = Len(stack) + 1
        BY <1>3, <2>2
      <4>2. j \in DOMAIN stack \/ j = Len(stack) + 1
        BY <1>3, <2>2
      <4>3. QED
        BY <2>2, <2>4, <3>1, <4>1, <4>2 DEF GraphInv, WalkIsPath
    <3>2. ASSUME NEW i \in DOMAIN stack' PROVE stack'[i] \notin Placed
      <4>1. i \in DOMAIN stack \/ i = Len(stack) + 1
        BY <1>3, <2>2
      <4>2. QED
        BY <1>1, <2>2, <4>1 DEF GraphInv, WalkIsPath
    <3>3. ASSUME NEW i \in DOMAIN stack', i + 1 \in DOMAIN stack' PROVE stack'[i + 1] = ParentOf(stack'[i])
      <4>1. i \in DOMAIN stack
        BY <1>3, <2>2, <3>3
      <4>2. CASE i = Len(stack)
        BY <2>2, <4>1, <4>2 DEF Top
      <4>3. CASE i # Len(stack)
        <5>1. i + 1 \in DOMAIN stack
          BY <1>3, <4>1, <4>3
        <5>2. stack[i + 1] = ParentOf(stack[i])
          BY <4>1, <5>1 DEF GraphInv, WalkIsPath
        <5>3. QED
          BY <2>2, <4>1, <5>1, <5>2
      <4>4. QED
        BY <4>2, <4>3
    <3>4. QED
      BY <1>2, <3>1, <3>2, <3>3 DEF WalkIsPath
  <2>6. LoopIsKept'
    <3>1. stack'[1] = stack[1]
      BY <1>3, <2>2
    <3>2. QED
      BY <1>1, <1>2, <2>2, <3>1 DEF GraphInv, LoopIsKept
  <2>7. ChecksPassed' /\ GraphsRunInOrder'
    BY <1>1, <1>2, <2>1 DEF GraphInv, ChecksPassed, GraphsRunInOrder
  <2>8. QED
    BY <1>4, <2>3, <2>5, <2>6, <2>7 DEF GraphInv
<1>7. QED
  BY <1>5, <1>6

\* What is placed is placed once, and after its parent.
LEMMA PlaceKeepsGraph ==
    ASSUME GraphInv, Place
    PROVE  GraphInv'
<1>1. /\ verdict = "ordering" /\ stack # <<>> /\ ParentOf(Top) \in Placed \cup {NoParent}
      /\ out' = Append(out, Top) /\ stack' = SubSeq(stack, 1, Len(stack) - 1)
      /\ graph' = graph /\ verdict' = verdict /\ nextStage' = nextStage
  BY DEF Place
<1>2. Ids' = Ids /\ (\A x : ParentOf(x)' = ParentOf(x))
  BY <1>1 DEF Ids, ParentOf
<1>3. /\ Len(stack) \in Nat \ {0} /\ DOMAIN stack = 1 .. Len(stack) /\ stack \in Seq(Ids)
      /\ Top \in Ids /\ Top \notin Placed /\ Top = stack[Len(stack)]
      /\ out \in Seq(Ids) /\ Len(out) \in Nat /\ DOMAIN out = 1 .. Len(out)
  BY <1>1, TopIsListed DEF GraphInv, GraphTypeOK, Top
<1>4. /\ out' \in Seq(Ids) /\ DOMAIN out' = 1 .. Len(out) + 1
      /\ out'[Len(out) + 1] = Top /\ \A i \in DOMAIN out : out'[i] = out[i]
  BY <1>1, <1>3
<1>5. /\ stack' \in Seq(Ids) /\ DOMAIN stack' = 1 .. Len(stack) - 1
      /\ \A i \in DOMAIN stack' : i \in DOMAIN stack /\ stack'[i] = stack[i]
  BY <1>1, <1>3
<1>6. Placed' = Placed \cup {Top}
  BY <1>3, <1>4 DEF Placed, Range
<1>7. GraphTypeOK'
  BY <1>1, <1>2, <1>4, <1>5 DEF GraphInv, GraphTypeOK
<1>8. WalkIsPath'
  <2>1. \A i, j \in DOMAIN stack' : stack'[i] = stack'[j] => i = j
    BY <1>5 DEF GraphInv, WalkIsPath
  <2>2. ASSUME NEW i \in DOMAIN stack' PROVE stack'[i] \notin Placed'
    <3>1. i # Len(stack) /\ Len(stack) \in DOMAIN stack
      BY <1>3, <1>5
    <3>2. stack[i] # Top
      BY <1>3, <1>5, <3>1 DEF GraphInv, WalkIsPath
    <3>3. QED
      BY <1>5, <1>6, <3>2 DEF GraphInv, WalkIsPath
  <2>3. \A i \in DOMAIN stack' : i + 1 \in DOMAIN stack' => stack'[i + 1] = ParentOf(stack'[i])
    BY <1>5 DEF GraphInv, WalkIsPath
  <2>4. QED
    BY <1>2, <2>1, <2>2, <2>3 DEF WalkIsPath
<1>9. OrderIsSound'
  <2>1. \A i \in DOMAIN out' : i \in DOMAIN out \/ i = Len(out) + 1
    BY <1>3, <1>4
  <2>2. \A i \in DOMAIN out : out[i] # Top
    BY <1>3 DEF Placed, Range
  <2>3. \A i, j \in DOMAIN out' : out'[i] = out'[j] => i = j
    BY <1>4, <2>1, <2>2 DEF GraphInv, OrderIsSound
  <2>4. ASSUME NEW i \in DOMAIN out'
        PROVE  ParentOf(out'[i]) = NoParent \/ \E j \in 1 .. i - 1 : out'[j] = ParentOf(out'[i])
    <3>1. CASE i \in DOMAIN out
      <4>1. ParentOf(out[i]) = NoParent \/ \E j \in 1 .. i - 1 : out[j] = ParentOf(out[i])
        BY <3>1 DEF GraphInv, OrderIsSound
      <4>2. \A j \in 1 .. i - 1 : j \in DOMAIN out
        BY <1>3, <3>1
      <4>3. QED
        BY <1>4, <3>1, <4>1, <4>2
    <3>2. CASE i = Len(out) + 1
      <4>1. CASE ParentOf(Top) \in Placed
        <5>1. PICK j \in DOMAIN out : out[j] = ParentOf(Top)
          BY <4>1 DEF Placed, Range
        <5>2. j \in 1 .. i - 1
          BY <1>3, <3>2
        <5>3. QED
          BY <1>4, <3>2, <5>1, <5>2
      <4>2. QED
        BY <1>1, <1>4, <3>2, <4>1
    <3>3. QED
      BY <2>1, <3>1, <3>2
  <2>5. QED
    BY <1>2, <2>3, <2>4 DEF OrderIsSound
<1>10. LoopIsKept'
  <2> SUFFICES ASSUME NEW i \in 1 .. nextStage - 1
               PROVE  graph[i].id \in Placed' \/ (stack' # <<>> /\ stack'[1] = graph[i].id)
    BY <1>1 DEF LoopIsKept
  <2>1. graph[i].id \in Placed \/ stack[1] = graph[i].id
    BY DEF GraphInv, LoopIsKept
  <2>2. CASE Len(stack) = 1
    BY <1>3, <1>6, <2>1, <2>2
  <2>3. CASE Len(stack) # 1
    <3>1. 1 \in DOMAIN stack'
      BY <1>3, <1>5, <2>3
    <3>2. stack' # <<>> /\ stack'[1] = stack[1]
      BY <1>5, <3>1
    <3>3. QED
      BY <1>6, <2>1, <3>2
  <2>4. QED
    BY <2>2, <2>3
<1>11. ChecksPassed' /\ GraphsRunInOrder'
  BY <1>1, <1>2 DEF GraphInv, ChecksPassed, GraphsRunInOrder
<1>12. QED
  BY <1>7, <1>8, <1>9, <1>10, <1>11 DEF GraphInv

\* The count at the end can find nothing: every stage is in the order, and once.
LEMMA CountKeepsGraph ==
    ASSUME GraphInv, CountOrder
    PROVE  GraphInv'
<1>1. /\ verdict = "ordering" /\ stack = <<>> /\ nextStage > Len(graph)
      /\ verdict' = (IF Len(out) = Len(graph) THEN "accepted" ELSE "rejected")
      /\ graph' = graph /\ out' = out /\ stack' = stack /\ nextStage' = nextStage
  BY DEF CountOrder
<1>2. Ids' = Ids /\ Placed' = Placed /\ (\A x : ParentOf(x)' = ParentOf(x))
  BY <1>1 DEF Ids, Placed, ParentOf
<1>3. graph \in Seq(Stages) /\ out \in Seq(Ids) /\ nextStage \in 1 .. Len(graph) + 1
  BY DEF GraphInv, GraphTypeOK
<1>4. Placed = Ids
  <2>1. Placed \subseteq Ids
    BY <1>3 DEF Placed, Range
  <2>2. ASSUME NEW i \in DOMAIN graph PROVE graph[i].id \in Placed
    <3>1. i \in 1 .. nextStage - 1
      BY <1>1, <1>3
    <3>2. QED
      BY <1>1, <3>1 DEF GraphInv, LoopIsKept
  <2>3. QED
    BY <2>1, <2>2 DEF Ids
<1>5. Len(out) = Len(graph)
  <2>1. Cardinality(Ids) = Len(graph)
    BY <1>1, <1>3, CountShowsDoubles DEF GraphInv, ChecksPassed
  <2>2. Cardinality(Ids) = Len(out)
    BY <1>3, <1>4, OnceEach DEF GraphInv, OrderIsSound, Placed
  <2>3. QED
    BY <2>1, <2>2
<1>6. verdict' = "accepted"
  BY <1>1, <1>5
<1>7. Forest
  <2>1. \A C \in SUBSET Ids : C # {} => \E x \in C : ParentOf(x) \notin C
    BY <1>4, OrderedIsAcyclic DEF GraphInv
  <2>2. QED
    BY <1>1, <2>1 DEF GraphInv, ChecksPassed, Forest
<1>8. InOrder
  BY <1>4, <1>5 DEF GraphInv, OrderIsSound, InOrder
<1>9. Forest' /\ InOrder'
  BY <1>1, <1>2, <1>7, <1>8 DEF Forest, InOrder
<1>10. GraphsRunInOrder'
  BY <1>6, <1>9 DEF GraphsRunInOrder
<1>11. GraphTypeOK' /\ WalkIsPath' /\ OrderIsSound' /\ LoopIsKept' /\ ChecksPassed'
  BY <1>1, <1>2, <1>6 DEF GraphInv, GraphTypeOK, WalkIsPath, OrderIsSound, LoopIsKept, ChecksPassed
<1>12. QED
  BY <1>10, <1>11 DEF GraphInv

\* The invariant of the walk is kept by every step.
LEMMA GraphInvHolds == GraphSpec => []GraphInv
<1>1. GraphInit => GraphInv
  <2> SUFFICES ASSUME GraphInit PROVE GraphInv
    OBVIOUS
  <2>1. graph \in Seq(Stages) /\ verdict = "new" /\ nextStage = 1 /\ stack = <<>> /\ out = <<>>
    BY GraphAssumption DEF GraphInit
  <2>2. GraphTypeOK
    BY <2>1 DEF GraphTypeOK
  <2>3. QED
    BY <2>1, <2>2 DEF GraphInv, WalkIsPath, OrderIsSound, LoopIsKept, ChecksPassed, GraphsRunInOrder
<1>2. GraphInv /\ [GraphNext]_graphVars => GraphInv'
  <2>1. ASSUME GraphInv, UNCHANGED graphVars PROVE GraphInv'
    <3>1. /\ graph' = graph /\ verdict' = verdict /\ nextStage' = nextStage
          /\ stack' = stack /\ out' = out
      BY <2>1 DEF graphVars
    <3>2. Ids' = Ids /\ Placed' = Placed /\ (\A x : ParentOf(x)' = ParentOf(x))
      BY <3>1 DEF Ids, Placed, ParentOf
    <3>3. GraphTypeOK' /\ WalkIsPath' /\ OrderIsSound' /\ LoopIsKept' /\ ChecksPassed'
      BY <2>1, <3>1, <3>2 DEF GraphInv, GraphTypeOK, WalkIsPath, OrderIsSound, LoopIsKept, ChecksPassed
    <3>4. Forest' = Forest /\ InOrder' = InOrder
      BY <3>1, <3>2 DEF Forest, InOrder
    <3>5. GraphsRunInOrder'
      BY <2>1, <3>1, <3>4 DEF GraphInv, GraphsRunInOrder
    <3>6. QED
      BY <3>3, <3>5 DEF GraphInv
  <2>2. QED
    BY <2>1, ChecksKeepGraph, LoopKeepsGraph, ParentKeepsGraph, PlaceKeepsGraph, CountKeepsGraph DEF GraphNext
<1>3. QED
  BY <1>1, <1>2, PTL DEF GraphSpec

\* The types of the graph and its walk: what is stacked and put out is listed.
THEOREM GraphTypeCorrect == GraphSpec => []GraphTypeOK
<1>1. GraphInv => GraphTypeOK
  BY DEF GraphInv
<1>2. QED
  BY <1>1, GraphInvHolds, PTL

\* Whatever list of stages a consumer writes, it is accepted if and only if it is
\* a forest, and then each stage runs once and after the stage whose output it is
\* built on (core/types.py, StageGraph).
THEOREM GraphsAreOrdered == GraphSpec => []GraphsRunInOrder
<1>1. GraphInv => GraphsRunInOrder
  BY DEF GraphInv
<1>2. QED
  BY <1>1, GraphInvHolds, PTL
===============================================================================
