-------------------------- MODULE RoundPipelineProofs --------------------------
(***************************************************************************)
(* Theorems about RoundPipeline, for any models, task units, stages,       *)
(* limits and crashes.  The pipelines of a round share the attempt         *)
(* counters, the reservations, the prompt hashes and the resume cache, and *)
(* there is a part of the inductive invariant for each of the four.  The   *)
(* parts are proved one after the other, each with the ones before it.     *)
(***************************************************************************)
EXTENDS RoundPipeline, FiniteSetTheorems, TLAPS

\* Where a pipeline is at a stage that the cache did not answer, and where the
\* budget gate has admitted it.
Owing == {"upsert", "wait", "opwait", "calling", "returned", "recorded"}
Busy == Owing \cup {"budget"}

PCs == {"top", "failrow", "budget", "upsert", "wait"} \cup Waiting \cup NotClosed \cup Ended

\* The shape of the state, without the bounds that follow from the counting.
ShapeOK ==
    /\ pc \in [Pairs -> PCs]
    /\ at \in [Pairs -> 1 .. NStages + 1]
    /\ text \in [Pairs -> [Stages -> Texts]]
    /\ got \in [Pairs -> AllOutcomes \cup {NoText}]
    /\ quarantined \subseteq Pairs
    /\ strikes \in [Pairs -> 0 .. StrikesToAbort]
    /\ attempted \in [Models -> Nat]
    /\ history \in [Models -> Nat]
    /\ infra \in Nat
    /\ called \subseteq Pairs \X Stages
    /\ skipped \subseteq Pairs \X Stages
    /\ owed \subseteq Pairs \X Stages
    /\ \A p \in Pairs : pc[p] \in {"returned", "recorded"} => got[p] \in AllOutcomes
    /\ \A k \in DOMAIN store : store[k] \in AllOutcomes
    \* A pipeline is past its last stage only when it is done, and is done before
    \* only when it is quarantined; enough strikes abort it.
    /\ \A p \in Pairs : pc[p] # "done" => at[p] \in Stages
    /\ \A p \in Pairs : pc[p] = "done" => at[p] = NStages + 1 \/ p \in quarantined
    /\ \A p \in Pairs : strikes[p] = StrikesToAbort => pc[p] = "aborted"

\* The iterations of a model's pipelines that are over and were not skipped.
Counted(m) ==
    {c \in Pairs \X Stages :
        /\ c[1][1] = m
        /\ c \notin skipped
        /\ c[2] < at[c[1]] \/ (c[2] = at[c[1]] /\ pc[c[1]] = "aborted")}

\* The coverage gate counts those, and every call is one of them or not closed.
AttemptsMatch ==
    /\ \A m \in Models : attempted[m] = Cardinality(Counted(m)) /\ history[m] <= attempted[m]
    /\ \A c \in skipped : c[2] < at[c[1]]
    /\ \A c \in called :
          /\ c \notin skipped
          /\ \/ c[2] < at[c[1]]
             \/ c[2] = at[c[1]] /\ pc[c[1]] \in NotClosed \cup {"aborted"}

\* The reservations that outlived their iteration.
Leaked == {o \in owed : at[o[1]] # o[2] \/ pc[o[1]] = "aborted"}

\* The others are of the stage their pipeline is at, which has been admitted.
ReservationsMatch ==
    /\ Cardinality(Leaked) <= infra
    /\ IsFiniteSet(Leaked)
    /\ \A o \in owed :
          /\ o[2] <= at[o[1]]
          /\ o[2] = at[o[1]] => pc[o[1]] \in Owing \cup {"escaped", "aborted"}

\* A pipeline that missed the cache has a key that neither cache nor storage
\* answers, until its row is recorded; a usable row is cached, or its pipeline is
\* about to; the row of a failed build is under a key of its own.
KeysMatch ==
    /\ CacheIsBacked
    /\ \A k \in DOMAIN cache : Cacheable(cache[k])
    /\ \A p \in Pairs : pc[p] \in Busy => Key(p) \notin DOMAIN cache
    /\ \A p \in Pairs : pc[p] \in Busy \ {"recorded"} =>
          ~(Key(p) \in DOMAIN store /\ Usable(store[Key(p)]))
    /\ \A p \in Pairs : pc[p] = "recorded" =>
          Key(p) \in DOMAIN store /\ store[Key(p)] = got[p]
    /\ \A k \in DOMAIN store : Usable(store[k]) =>
          k \in DOMAIN cache \/ \E p \in Pairs : pc[p] = "recorded" /\ Key(p) = k
    /\ \A k \in DOMAIN store : k[1][3] = "build failure" => store[k] = "transient"

\* A prompt that was announced is in storage or its first pipeline is at it, and
\* whoever got past the gate has its prompt announced.
PromptsMatch ==
    /\ crashes \in Nat
    /\ \A x \in seen :
          \/ x \in prompts
          \/ \E q \in Pairs : pc[q] \in {"upsert", "escaped"} /\ Prompt(q) = x
    /\ \A p \in Pairs : pc[p] \in Owing => Prompt(p) \in seen
    /\ crashes = 0 => \A k \in DOMAIN store : k[1] \in seen \/ k[1][3] = "build failure"

-----------------------------------------------------------------------------
(* The shape of the state. *)

LEMMA PairIsTuple ==
    ASSUME NEW p \in Pairs
    PROVE  p[1] \in Models /\ p[2] \in Units /\ p = <<p[1], p[2]>>
BY DEF Pairs

LEMMA InitShape == Init => ShapeOK
<1> SUFFICES ASSUME Init PROVE ShapeOK
  OBVIOUS
<1> USE DEF Init
<1>1. 1 \in Stages /\ 1 \in 1 .. NStages + 1 /\ 0 \in 0 .. StrikesToAbort /\ 0 # StrikesToAbort
  BY RoundAssumption DEF Stages
<1>2. pc \in [Pairs -> PCs] /\ \A p \in Pairs : pc[p] = "top"
  BY DEF PCs
<1>3. text \in [Pairs -> [Stages -> Texts]] /\ got \in [Pairs -> AllOutcomes \cup {NoText}]
  BY DEF Texts
<1>4. at \in [Pairs -> 1 .. NStages + 1] /\ strikes \in [Pairs -> 0 .. StrikesToAbort]
  BY <1>1
<1>5. attempted \in [Models -> Nat] /\ history \in [Models -> Nat]
  OBVIOUS
<1>6. DOMAIN store = {}
  OBVIOUS
<1>7. QED
  BY <1>1, <1>2, <1>3, <1>4, <1>5, <1>6 DEF ShapeOK

LEMMA RecordedIsTyped ==
    ASSUME \A k \in DOMAIN store : store[k] \in AllOutcomes, NEW x, NEW o \in AllOutcomes
    PROVE  \A k \in DOMAIN Recorded(store, x, o) : Recorded(store, x, o)[k] \in AllOutcomes
BY DEF Recorded, Put

\* On to the next stage, or the end: what the loop does with pc and at.
LEMMA NextStageShape ==
    ASSUME ShapeOK, NEW p \in Pairs, at[p] \in Stages, NextStage(p)
    PROVE  /\ pc' \in [Pairs -> PCs]
           /\ at' \in [Pairs -> 1 .. NStages + 1]
           /\ at'[p] = at[p] + 1
           /\ pc'[p] = "done" => at'[p] = NStages + 1
           /\ pc'[p] # "done" => at'[p] \in Stages
           /\ pc'[p] \in {"done", "top"}
           /\ \A q \in Pairs \ {p} : pc'[q] = pc[q] /\ at'[q] = at[q]
BY RoundAssumption DEF NextStage, Goto, ShapeOK, Stages, PCs, Ended

LEMMA ConcludeShape ==
    ASSUME ShapeOK, NEW p \in Pairs, at[p] \in Stages, got[p] \in AllOutcomes,
           pc[p] \in NotClosed, Conclude(p, strikes[p] + 1)
    PROVE  /\ pc' \in [Pairs -> PCs]
           /\ at' \in [Pairs -> 1 .. NStages + 1]
           /\ pc'[p] \in {"done", "top", "aborted"}
           /\ pc'[p] = "done" => at'[p] = NStages + 1
           /\ pc'[p] # "done" => at'[p] \in Stages
           /\ \A q \in Pairs \ {p} : pc'[q] = pc[q] /\ at'[q] = at[q]
           /\ got' \in [Pairs -> AllOutcomes \cup {NoText}]
           /\ \A q \in Pairs \ {p} : got'[q] = got[q]
           /\ strikes' \in [Pairs -> 0 .. StrikesToAbort]
           /\ \A q \in Pairs : strikes'[q] = StrikesToAbort => pc'[q] = "aborted"
           /\ history' \in [Models -> Nat]
<1>1. /\ history' \in [Models -> Nat]
      /\ got' \in [Pairs -> AllOutcomes \cup {NoText}]
      /\ \A q \in Pairs \ {p} : got'[q] = got[q]
  BY PairIsTuple DEF Conclude, ShapeOK
<1>2. strikes[p] \in Nat /\ strikes[p] < StrikesToAbort
  <2>1. strikes[p] \in 0 .. StrikesToAbort /\ StrikesToAbort \in Nat
    BY RoundAssumption DEF ShapeOK
  <2>2. strikes[p] # StrikesToAbort
    BY DEF ShapeOK, NotClosed
  <2>3. QED
    BY <2>1, <2>2
<1>3. CASE got[p] = "dead" /\ strikes[p] + 1 >= StrikesToAbort
  <2>1. /\ pc' = [pc EXCEPT ![p] = "aborted"] /\ at' = at
        /\ strikes' = [strikes EXCEPT ![p] = @ + 1]
    BY <1>3 DEF Conclude, Goto
  <2>2. QED
    BY <1>1, <1>2, <2>1, RoundAssumption DEF ShapeOK, PCs, Ended
<1>4. CASE ~(got[p] = "dead" /\ strikes[p] + 1 >= StrikesToAbort)
  <2>1. NextStage(p)
    BY <1>4 DEF Conclude
  <2>2. strikes' = [strikes EXCEPT ![p] = @ + (IF got[p] = "dead" THEN 1 ELSE 0)]
    BY DEF Conclude
  <2>3. strikes'[p] \in 0 .. StrikesToAbort /\ strikes'[p] < StrikesToAbort
    BY <1>2, <1>4, <2>2, RoundAssumption DEF ShapeOK
  <2>4. /\ strikes' \in [Pairs -> 0 .. StrikesToAbort]
        /\ \A q \in Pairs \ {p} : strikes'[q] = strikes[q]
    BY <2>2, <2>3 DEF ShapeOK
  <2>5. \A q \in Pairs : strikes'[q] = StrikesToAbort => pc'[q] = "aborted"
    BY <2>1, <2>3, <2>4, NextStageShape DEF ShapeOK
  <2>6. QED
    BY <1>1, <2>1, <2>4, <2>5, NextStageShape
<1>5. QED
  BY <1>3, <1>4

\* A pipeline that goes on at its stage, none of its data touched.
LEMMA GotoShape ==
    ASSUME ShapeOK, NEW p \in Pairs, NEW label, Goto(p, label),
           label \in PCs \ {"done", "returned", "recorded"}, pc[p] \notin Ended,
           UNCHANGED <<at, text, got, quarantined, strikes, attempted, history, infra, store>>,
           called' \subseteq Pairs \X Stages, skipped' \subseteq Pairs \X Stages,
           owed' \subseteq Pairs \X Stages
    PROVE  ShapeOK'
<1>1. /\ pc' = [pc EXCEPT ![p] = label]
      /\ pc[p] # "done" /\ pc[p] # "aborted"
      /\ label \in PCs
      /\ label # "done" /\ label # "returned" /\ label # "recorded"
  BY DEF Goto, Ended
<1>2. pc' \in [Pairs -> PCs] /\ pc'[p] = label /\ \A q \in Pairs \ {p} : pc'[q] = pc[q]
  BY <1>1 DEF ShapeOK
<1>3. QED
  BY <1>1, <1>2 DEF ShapeOK

LEMMA CloseShape ==
    ASSUME ShapeOK, NEW p \in Pairs, CountAttempt(p)
    PROVE  attempted' \in [Models -> Nat]
BY PairIsTuple DEF CountAttempt, ShapeOK

LEMMA SetTextShape ==
    ASSUME ShapeOK, NEW p \in Pairs, NEW t \in Texts, SetText(p, t)
    PROVE  text' \in [Pairs -> [Stages -> Texts]]
BY DEF SetText, ShapeOK

LEMMA TextIsText == \A o : TextOf(o) \in Texts
BY DEF TextOf, Texts

\* A pipeline that goes on to its next stage without an LLM call.
LEMMA AdvanceShape ==
    ASSUME ShapeOK, NEW p \in Pairs, NextStage(p), pc[p] \notin Ended,
           text' \in [Pairs -> [Stages -> Texts]],
           attempted' \in [Models -> Nat], infra' \in Nat,
           \A k \in DOMAIN store' : store'[k] \in AllOutcomes,
           skipped' \subseteq Pairs \X Stages,
           UNCHANGED <<got, quarantined, strikes, history, called, owed>>
    PROVE  ShapeOK'
<1>1. pc[p] # "done" /\ pc[p] # "aborted" /\ at[p] \in Stages
  BY DEF Ended, ShapeOK
<1>2. /\ pc' \in [Pairs -> PCs]
      /\ at' \in [Pairs -> 1 .. NStages + 1]
      /\ pc'[p] = "done" => at'[p] = NStages + 1
      /\ pc'[p] # "done" => at'[p] \in Stages
      /\ pc'[p] \in {"done", "top"}
      /\ \A q \in Pairs \ {p} : pc'[q] = pc[q] /\ at'[q] = at[q]
  BY <1>1, NextStageShape
<1>3. QED
  BY <1>1, <1>2 DEF ShapeOK

\* The end of an iteration that made its call.
LEMMA CloseAttemptShape ==
    ASSUME ShapeOK, NEW p \in Pairs, pc[p] \in {"returned", "recorded"}, CloseAttempt(p),
           infra' \in Nat, owed' \subseteq Pairs \X Stages,
           UNCHANGED <<text, quarantined, store, called, skipped>>
    PROVE  ShapeOK'
<1>1. at[p] \in Stages /\ got[p] \in AllOutcomes /\ pc[p] \in NotClosed
  BY DEF ShapeOK, NotClosed
<1>2. CountAttempt(p) /\ Conclude(p, strikes[p] + 1)
  BY DEF CloseAttempt
<1>3. attempted' \in [Models -> Nat]
  BY <1>2, CloseShape
<1>4. /\ pc' \in [Pairs -> PCs]
      /\ at' \in [Pairs -> 1 .. NStages + 1]
      /\ pc'[p] \in {"done", "top", "aborted"}
      /\ pc'[p] = "done" => at'[p] = NStages + 1
      /\ pc'[p] # "done" => at'[p] \in Stages
      /\ \A q \in Pairs \ {p} : pc'[q] = pc[q] /\ at'[q] = at[q]
      /\ got' \in [Pairs -> AllOutcomes \cup {NoText}]
      /\ \A q \in Pairs \ {p} : got'[q] = got[q]
      /\ strikes' \in [Pairs -> 0 .. StrikesToAbort]
      /\ \A q \in Pairs : strikes'[q] = StrikesToAbort => pc'[q] = "aborted"
      /\ history' \in [Models -> Nat]
  BY <1>1, <1>2, ConcludeShape
<1>5. /\ \A q \in Pairs : pc'[q] # "done" => at'[q] \in Stages
      /\ \A q \in Pairs : pc'[q] = "done" => at'[q] = NStages + 1 \/ q \in quarantined'
      /\ \A q \in Pairs : pc'[q] \in {"returned", "recorded"} => got'[q] \in AllOutcomes
  BY <1>4 DEF ShapeOK
<1>6. QED
  BY <1>3, <1>4, <1>5 DEF ShapeOK

LEMMA CrashShape ==
    ASSUME ShapeOK, Crash
    PROVE  ShapeOK'
<1> USE DEF Crash
<1>1. 1 \in Stages /\ 1 \in 1 .. NStages + 1 /\ 0 \in 0 .. StrikesToAbort /\ 0 # StrikesToAbort
  BY RoundAssumption DEF Stages
<1>2. pc' \in [Pairs -> PCs] /\ \A p \in Pairs : pc'[p] = "top"
  BY DEF PCs
<1>3. text' \in [Pairs -> [Stages -> Texts]] /\ got' \in [Pairs -> AllOutcomes \cup {NoText}]
  BY DEF Texts
<1>4. at' \in [Pairs -> 1 .. NStages + 1] /\ strikes' \in [Pairs -> 0 .. StrikesToAbort]
  BY <1>1
<1>5. attempted' \in [Models -> Nat] /\ history' \in [Models -> Nat]
  OBVIOUS
<1>6. \A k \in DOMAIN store' : store'[k] \in AllOutcomes
  BY DEF storeVars, ShapeOK
<1>7. QED
  BY <1>1, <1>2, <1>3, <1>4, <1>5, <1>6 DEF ShapeOK

LEMMA StepShape ==
    ASSUME ShapeOK, [Next]_vars
    PROVE  ShapeOK'
<1> USE DEF pipeVars, sharedVars, storeVars, histVars
<1>1. ASSUME NEW p \in Pairs, StopQuarantined(p) PROVE ShapeOK'
  BY <1>1 DEF StopQuarantined, Goto, ShapeOK, PCs, Ended
<1>2. ASSUME NEW p \in Pairs, BuildFails(p) PROVE ShapeOK'
  BY <1>2, GotoShape DEF BuildFails, PCs, Ended, ShapeOK
<1>3. ASSUME NEW p \in Pairs, RecordBuildFailure(p) PROVE ShapeOK'
  <2>1. BuildFailureRow(p) /\ CountAttempt(p) /\ attempted' \in [Models -> Nat]
    BY <1>3, CloseShape DEF RecordBuildFailure
  <2>2. infra' \in Nat
    BY <2>1 DEF BuildFailureRow, ShapeOK
  <2>3. \A k \in DOMAIN store' : store'[k] \in AllOutcomes
    BY <2>1, RecordedIsTyped DEF BuildFailureRow, ShapeOK, AllOutcomes
  <2>4. NextStage(p) /\ pc[p] \notin Ended
    BY <2>1 DEF BuildFailureRow, Ended
  <2>5. QED
    BY <2>1, <2>2, <2>3, <2>4, AdvanceShape DEF BuildFailureRow, ShapeOK
<1>4. ASSUME NEW p \in Pairs, SkipValidator(p) PROVE ShapeOK'
  <2>1. attempted' \in [Models -> Nat] /\ NextStage(p) /\ pc[p] \notin Ended
    BY <1>4, CloseShape DEF SkipValidator, Ended
  <2>2. QED
    BY <1>4, <2>1, AdvanceShape DEF SkipValidator, ShapeOK
<1>5. ASSUME NEW p \in Pairs, CacheHit(p) PROVE ShapeOK'
  <2>1. Reuse(p) /\ attempted' \in [Models -> Nat]
    BY <1>5, CloseShape DEF CacheHit
  <2>2. text' \in [Pairs -> [Stages -> Texts]] /\ NextStage(p) /\ pc[p] \notin Ended
    BY <2>1, SetTextShape, TextIsText DEF Reuse, MustCall, Ended
  <2>3. QED
    BY <2>1, <2>2, AdvanceShape DEF Reuse, ShapeOK
<1>6. ASSUME NEW p \in Pairs, CacheMiss(p) PROVE ShapeOK'
  BY <1>6, GotoShape DEF CacheMiss, MustCall, PCs, Ended, ShapeOK
<1>7. ASSUME NEW p \in Pairs, BudgetSkips(p) PROVE ShapeOK'
  <2>1. NextStage(p) /\ pc[p] \notin Ended /\ at[p] \in Stages
    BY <1>7 DEF BudgetSkips, Ended, ShapeOK
  <2>2. skipped' \subseteq Pairs \X Stages
    BY <1>7, <2>1 DEF BudgetSkips, ShapeOK
  <2>3. QED
    BY <1>7, <2>1, <2>2, AdvanceShape DEF BudgetSkips, ShapeOK
<1>8. ASSUME NEW p \in Pairs, BudgetAdmits(p) PROVE ShapeOK'
  <2>1. owed' \subseteq Pairs \X Stages /\ pc[p] \notin Ended
    BY <1>8 DEF BudgetAdmits, ShapeOK, Ended
  <2>2. PICK label \in {"wait", "upsert"} : Goto(p, label)
    BY <1>8 DEF BudgetAdmits
  <2>3. QED
    BY <1>8, <2>1, <2>2, GotoShape DEF BudgetAdmits, ShapeOK, PCs
<1>9. ASSUME NEW p \in Pairs, UpsertPrompt(p) PROVE ShapeOK'
  BY <1>9, GotoShape DEF UpsertPrompt, PCs, Ended, ShapeOK
<1>10. ASSUME NEW p \in Pairs, TakeGlobalSlot(p) PROVE ShapeOK'
  BY <1>10, GotoShape DEF TakeGlobalSlot, PCs, Waiting, Ended, ShapeOK
<1>11. ASSUME NEW p \in Pairs, TakeOpSlot(p) PROVE ShapeOK'
  <2>1. called' \subseteq Pairs \X Stages /\ pc[p] \notin Ended
    BY <1>11 DEF TakeOpSlot, ShapeOK, Ended
  <2>2. QED
    BY <1>11, <2>1, GotoShape DEF TakeOpSlot, PCs, Waiting, ShapeOK
<1>12. ASSUME NEW p \in Pairs, CallEnds(p) PROVE ShapeOK'
  <2>1. PICK o \in Outcomes : got' = [got EXCEPT ![p] = o] /\ SetText(p, TextOf(o))
    BY <1>12 DEF CallEnds
  <2>2. o \in AllOutcomes /\ text' \in [Pairs -> [Stages -> Texts]]
    BY <2>1, RoundAssumption, SetTextShape, TextIsText
  <2>3. /\ pc' = [pc EXCEPT ![p] = "returned"] /\ pc[p] = "calling"
        /\ quarantined \subseteq quarantined' /\ quarantined' \subseteq Pairs
    BY <1>12 DEF CallEnds, Goto, ShapeOK
  <2>4. "returned" \in PCs
    BY DEF PCs, NotClosed
  <2>5. QED
    BY <1>12, <2>1, <2>2, <2>3, <2>4 DEF CallEnds, ShapeOK
<1>13. ASSUME NEW p \in Pairs, RecordCall(p) PROVE ShapeOK'
  <2>1. /\ pc' = [pc EXCEPT ![p] = "recorded"] /\ pc[p] = "returned" /\ got[p] \in AllOutcomes
        /\ UNCHANGED <<at, text, got, quarantined, strikes, attempted, history, infra, owed, called, skipped>>
    BY <1>13 DEF RecordCall, Goto, ShapeOK
  <2>2. \A k \in DOMAIN store' : store'[k] \in AllOutcomes
    BY <1>13, <2>1, RecordedIsTyped DEF RecordCall, ShapeOK
  <2>3. "recorded" \in PCs
    BY DEF PCs, NotClosed
  <2>4. QED
    BY <2>1, <2>2, <2>3 DEF ShapeOK
<1>14. ASSUME NEW p \in Pairs, Settle(p) PROVE ShapeOK'
  <2>1. CloseAttempt(p) /\ pc[p] = "recorded" /\ owed' \subseteq Pairs \X Stages
    BY <1>14 DEF Settle, SettleAs, ShapeOK
  <2>2. QED
    BY <1>14, <2>1, CloseAttemptShape DEF Settle, SettleAs, ShapeOK
<1>15. ASSUME NEW p \in Pairs, RecordRaises(p) PROVE ShapeOK'
  <2>1. CloseAttempt(p) /\ pc[p] = "returned" /\ infra' \in Nat
    BY <1>15 DEF RecordRaises, PersistRaises, ShapeOK
  <2>2. QED
    BY <1>15, <2>1, CloseAttemptShape DEF RecordRaises, PersistRaises, ShapeOK
<1>16. ASSUME NEW p \in Pairs, Escapes(p) PROVE ShapeOK'
  BY <1>16, GotoShape DEF Escapes, PCs, Ended, ShapeOK
<1>17. CASE UNCHANGED vars
  BY <1>17 DEF vars, ShapeOK
<1>18. QED
  BY <1>1, <1>2, <1>3, <1>4, <1>5, <1>6, <1>7, <1>8, <1>9, <1>10, <1>11, <1>12, <1>13,
     <1>14, <1>15, <1>16, <1>17, CrashShape DEF Next, Step, Proceed

LEMMA ShapeHolds == Spec => []ShapeOK
<1>1. ShapeOK /\ [Next]_vars => ShapeOK'
  BY StepShape
<1>2. QED
  BY InitShape, <1>1, PTL DEF Spec

-----------------------------------------------------------------------------
(* The attempts. *)

\* A step of p that does not end its iteration, that counts it as attempted, and
\* that skips it.
Stays(p) ==
    /\ at[p] \in Stages
    /\ UNCHANGED <<at, attempted, history, skipped>>
    /\ \E label \in PCs \ {"aborted"} :
          /\ Goto(p, label)
          /\ pc[p] \in NotClosed => label \in NotClosed
          /\ \/ called' = called
             \/ called' = called \cup {<<p, at[p]>>} /\ label = "calling"
    /\ pc[p] # "aborted"

Counts(p) ==
    /\ at[p] \in Stages
    /\ CountAttempt(p)
    /\ UNCHANGED <<skipped, called>>
    /\ \/ NextStage(p)
       \/ Goto(p, "aborted") /\ UNCHANGED at
    /\ history' = history \/ history' = [history EXCEPT ![p[1]] = @ + 1] \/ history' = [history EXCEPT ![p[1]] = @ + 0]
    /\ pc[p] # "aborted"

Skips(p) ==
    /\ at[p] \in Stages
    /\ pc[p] = "budget"
    /\ skipped' = skipped \cup {<<p, at[p]>>}
    /\ NextStage(p)
    /\ UNCHANGED <<attempted, history, called>>

LEMMA ClosingCounts ==
    ASSUME NEW p \in Pairs, at[p] \in Stages, CloseAttempt(p), pc[p] # "aborted",
           UNCHANGED <<skipped, called>>
    PROVE  Counts(p)
BY DEF CloseAttempt, Conclude, Counts

LEMMA StepCounts ==
    ASSUME ShapeOK, NEW p \in Pairs, Step(p)
    PROVE  Stays(p) \/ Counts(p) \/ Skips(p)
<1> USE DEF pipeVars, sharedVars, storeVars, histVars
<1>1. pc[p] \notin Ended /\ at[p] \in Stages
  BY DEF Step, Proceed, StopQuarantined, BuildFails, RecordBuildFailure, BuildFailureRow, SkipValidator,
     CacheHit, Reuse, CacheMiss, MustCall, BudgetSkips, BudgetAdmits, UpsertPrompt, TakeGlobalSlot,
     TakeOpSlot, CallEnds, RecordCall, Settle, SettleAs, RecordRaises, PersistRaises, Escapes, Ended, ShapeOK
<1>2. pc[p] # "aborted"
  BY <1>1 DEF Ended
<1>3. {"done", "failrow", "budget", "upsert", "wait", "opwait", "calling", "returned", "recorded", "escaped"}
        \subseteq PCs \ {"aborted"}
  BY DEF PCs, Waiting, NotClosed, Ended
<1>4. ASSUME StopQuarantined(p) \/ BuildFails(p) \/ CacheMiss(p) \/ UpsertPrompt(p)
             \/ TakeGlobalSlot(p) \/ Escapes(p)
      PROVE  Stays(p)
  BY <1>1, <1>2, <1>3, <1>4 DEF StopQuarantined, BuildFails, CacheMiss, MustCall, UpsertPrompt,
     TakeGlobalSlot, Escapes, Stays, NotClosed
<1>5. ASSUME BudgetAdmits(p) PROVE Stays(p)
  <2>1. PICK label \in {"wait", "upsert"} : Goto(p, label)
    BY <1>5 DEF BudgetAdmits
  <2>2. QED
    BY <1>1, <1>2, <1>3, <1>5, <2>1 DEF BudgetAdmits, Stays, NotClosed
<1>6. ASSUME TakeOpSlot(p) PROVE Stays(p)
  BY <1>1, <1>2, <1>3, <1>6 DEF TakeOpSlot, Stays, NotClosed
<1>7. ASSUME CallEnds(p) \/ RecordCall(p) PROVE Stays(p)
  BY <1>1, <1>2, <1>3, <1>7 DEF CallEnds, RecordCall, Stays, NotClosed
<1>8. ASSUME RecordBuildFailure(p) \/ SkipValidator(p) \/ CacheHit(p) PROVE Counts(p)
  BY <1>1, <1>2, <1>8 DEF RecordBuildFailure, BuildFailureRow, SkipValidator, CacheHit, Reuse, Counts
<1>9. ASSUME Settle(p) \/ RecordRaises(p) PROVE Counts(p)
  BY <1>1, <1>2, <1>9, ClosingCounts DEF Settle, SettleAs, RecordRaises, PersistRaises
<1>10. ASSUME BudgetSkips(p) PROVE Skips(p)
  BY <1>1, <1>10 DEF BudgetSkips, Skips
<1>11. QED
  BY <1>4, <1>5, <1>6, <1>7, <1>8, <1>9, <1>10 DEF Step, Proceed

\* What a model can have attempted at most.
LEMMA CountedIsFinite ==
    ASSUME NEW m \in Models
    PROVE  /\ IsFiniteSet(Counted(m))
           /\ Cardinality(Counted(m)) \in Nat
           /\ Cardinality(Counted(m)) <= StageCount
           /\ Cardinality(({m} \X Units) \X Stages) = StageCount
           /\ IsFiniteSet(Units) /\ Cardinality(Units) \in Nat /\ StageCount \in Nat
<1> DEFINE All == ({m} \X Units) \X Stages
<1>1. IsFiniteSet({m} \X Units) /\ Cardinality({m} \X Units) = Cardinality(Units)
  <2>1. IsFiniteSet({m}) /\ Cardinality({m}) = 1
    BY FS_Singleton
  <2>2. /\ IsFiniteSet({m} \X Units)
        /\ Cardinality({m} \X Units) = Cardinality({m}) * Cardinality(Units)
    BY <2>1, RoundAssumption, FS_Product
  <2>3. Cardinality(Units) \in Nat
    BY RoundAssumption, FS_CardinalityType
  <2>4. QED
    BY <2>1, <2>2, <2>3
<1>2. IsFiniteSet(Stages) /\ Cardinality(Stages) = NStages
  <2>1. NStages \in Nat \ {0} /\ 1 \in Int /\ NStages \in Int
    BY RoundAssumption
  <2>2. IsFiniteSet(1 .. NStages) /\ Cardinality(1 .. NStages) = NStages
    BY <2>1, FS_Interval
  <2>3. QED
    BY <2>2 DEF Stages
<1>3. IsFiniteSet(All) /\ Cardinality(All) = Cardinality(Units) * NStages
  BY <1>1, <1>2, FS_Product
<1>4. Cardinality(Units) \in Nat /\ NStages \in Nat
  BY RoundAssumption, FS_CardinalityType
<1>5. Counted(m) \subseteq All
  BY PairIsTuple DEF Counted
<1>6. Cardinality(All) = StageCount
  BY <1>3, <1>4 DEF StageCount
<1>7. QED
  BY <1>3, <1>4, <1>5, <1>6, RoundAssumption, FS_Subset, FS_CardinalityType DEF StageCount

\* An iteration that counts is one more of its model's, and of no other's.
LEMMA CountingCounts ==
    ASSUME ShapeOK, AttemptsMatch, NEW p \in Pairs, Counts(p), NEW m \in Models
    PROVE  IF m = p[1]
           THEN Counted(m)' = Counted(m) \cup {<<p, at[p]>>} /\ <<p, at[p]>> \notin Counted(m)
           ELSE Counted(m)' = Counted(m)
<1>1. /\ at[p] \in Stages /\ skipped' = skipped /\ pc[p] # "aborted" /\ Stages \subseteq Int
      /\ \A q \in Pairs \ {p} : at'[q] = at[q] /\ pc'[q] = pc[q]
      /\ (at'[p] = at[p] + 1 /\ pc'[p] # "aborted") \/ (at'[p] = at[p] /\ pc'[p] = "aborted")
  <2>1. CASE NextStage(p)
    BY <2>1, NextStageShape DEF Counts, Stages
  <2>2. CASE Goto(p, "aborted") /\ UNCHANGED at
    BY <2>2 DEF Counts, Goto, ShapeOK, Stages
  <2>3. QED
    BY <2>1, <2>2 DEF Counts
<1>2. <<p, at[p]>> \notin skipped
  BY DEF AttemptsMatch, ShapeOK
<1>3. \A c \in Pairs \X Stages :
        LET over == c[2] < at[c[1]] \/ (c[2] = at[c[1]] /\ pc[c[1]] = "aborted")
        IN  over' <=> over \/ c = <<p, at[p]>>
  <2> SUFFICES ASSUME NEW q \in Pairs, NEW s \in Stages
               PROVE  (s < at'[q] \/ (s = at'[q] /\ pc'[q] = "aborted"))
                        <=> \/ s < at[q] \/ (s = at[q] /\ pc[q] = "aborted")
                            \/ <<q, s>> = <<p, at[p]>>
    OBVIOUS
  <2>1. s \in Int /\ at[q] \in Int
    BY <1>1, RoundAssumption DEF ShapeOK, Stages
  <2>2. QED
    BY <1>1, <2>1
<1>4. <<p, at[p]>> \in Pairs \X Stages /\ ~(at[p] < at[p] \/ pc[p] = "aborted")
  BY <1>1 DEF Stages
<1>5. QED
  <2> DEFINE Over(c) == c[2] < at[c[1]] \/ (c[2] = at[c[1]] /\ pc[c[1]] = "aborted")
  <2>1. Counted(m) = {c \in Pairs \X Stages : c[1][1] = m /\ c \notin skipped /\ Over(c)}
    BY DEF Counted
  <2>2. Counted(m)' = {c \in Pairs \X Stages :
                          c[1][1] = m /\ c \notin skipped /\ (Over(c) \/ c = <<p, at[p]>>)}
    BY <1>1, <1>3 DEF Counted
  <2>3. ~Over(<<p, at[p]>>)
    BY <1>4
  <2> HIDE DEF Over
  <2>4. QED
    BY <1>2, <1>4, <2>1, <2>2, <2>3

LEMMA StayingCounts ==
    ASSUME ShapeOK, NEW p \in Pairs, Stays(p), NEW m
    PROVE  Counted(m)' = Counted(m)
<1>1. /\ at' = at /\ skipped' = skipped /\ pc[p] # "aborted" /\ pc'[p] # "aborted"
      /\ \A q \in Pairs \ {p} : pc'[q] = pc[q]
  BY DEF Stays, Goto, ShapeOK
<1>2. QED
  BY <1>1 DEF Counted

LEMMA SkippingCounts ==
    ASSUME ShapeOK, NEW p \in Pairs, Skips(p), NEW m
    PROVE  Counted(m)' = Counted(m)
<1>1. /\ at[p] \in Stages /\ skipped' = skipped \cup {<<p, at[p]>>} /\ pc[p] # "aborted"
      /\ \A q \in Pairs \ {p} : at'[q] = at[q] /\ pc'[q] = pc[q]
      /\ at'[p] = at[p] + 1 /\ pc'[p] # "aborted"
  BY NextStageShape DEF Skips
<1>2. \A c \in Pairs \X Stages : c \notin skipped' =>
        LET over == c[2] < at[c[1]] \/ (c[2] = at[c[1]] /\ pc[c[1]] = "aborted")
        IN  c \notin skipped /\ (over' <=> over)
  <2> SUFFICES ASSUME NEW q \in Pairs, NEW s \in Stages, <<q, s>> # <<p, at[p]>>
               PROVE  (s < at'[q] \/ (s = at'[q] /\ pc'[q] = "aborted"))
                        <=> s < at[q] \/ (s = at[q] /\ pc[q] = "aborted")
    BY <1>1
  <2>1. s \in Int /\ at[q] \in Int
    BY RoundAssumption DEF ShapeOK, Stages
  <2>2. QED
    BY <1>1, <2>1
<1>3. \A c \in Pairs \X Stages : c \in skipped' /\ c \notin skipped =>
        ~(c[2] < at[c[1]] \/ (c[2] = at[c[1]] /\ pc[c[1]] = "aborted"))
  BY <1>1 DEF Stages
<1>4. QED
  BY <1>1, <1>2, <1>3 DEF Counted

LEMMA InitAttempts == Init => AttemptsMatch
<1> SUFFICES ASSUME Init PROVE AttemptsMatch
  OBVIOUS
<1>1. /\ \A p \in Pairs : pc[p] = "top" /\ at[p] = 1
      /\ \A m \in Models : attempted[m] = 0 /\ history[m] = 0
      /\ skipped = {} /\ called = {}
  BY DEF Init
<1>2. \A m \in Models : Counted(m) = {}
  <2>1. \A s \in Stages : s \in Int /\ ~(s < 1)
    BY RoundAssumption DEF Stages
  <2>2. QED
    BY <1>1, <2>1 DEF Counted
<1>3. Cardinality({}) = 0
  BY FS_EmptySet
<1>4. QED
  BY <1>1, <1>2, <1>3 DEF AttemptsMatch

LEMMA StepAttempts ==
    ASSUME ShapeOK, AttemptsMatch, [Next]_vars
    PROVE  AttemptsMatch'
<1>1. CASE Crash
  <2>1. \A s \in Stages : s \in Int /\ ~(s < 1)
    BY RoundAssumption DEF Stages
  <2>2. \A m \in Models : Counted(m)' = {}
    BY <1>1, <2>1 DEF Crash, Counted
  <2>3. Cardinality({}) = 0
    BY FS_EmptySet
  <2>4. \A m \in Models : attempted'[m] = 0 /\ history'[m] = 0
    BY <1>1 DEF Crash
  <2>5. skipped' = {} /\ called' = {}
    BY <1>1 DEF Crash
  <2>6. \A m \in Models : attempted'[m] = Cardinality(Counted(m)') /\ history'[m] <= attempted'[m]
    BY <2>2, <2>3, <2>4
  <2>7. QED
    BY <2>5, <2>6 DEF AttemptsMatch
<1>2. CASE UNCHANGED vars
  BY <1>2 DEF vars, pipeVars, sharedVars, histVars, AttemptsMatch, Counted
<1>3. ASSUME NEW p \in Pairs, Stays(p) PROVE AttemptsMatch'
  <2>1. \A m \in Models : attempted'[m] = Cardinality(Counted(m)') /\ history'[m] <= attempted'[m]
    BY <1>3, StayingCounts DEF Stays, AttemptsMatch
  <2>2. \A c \in skipped' : c[2] < at'[c[1]]
    BY <1>3 DEF Stays, AttemptsMatch
  <2>3. ASSUME NEW c \in called'
        PROVE  /\ c \notin skipped'
               /\ c[2] < at'[c[1]] \/ (c[2] = at'[c[1]] /\ pc'[c[1]] \in NotClosed \cup {"aborted"})
    <3>1. PICK label \in PCs \ {"aborted"} :
             /\ Goto(p, label)
             /\ pc[p] \in NotClosed => label \in NotClosed
             /\ \/ called' = called
                \/ called' = called \cup {<<p, at[p]>>} /\ label = "calling"
      BY <1>3 DEF Stays
    <3>2. /\ at' = at /\ skipped' = skipped /\ pc[p] # "aborted" /\ pc'[p] = label
          /\ at[p] \in Stages /\ \A q \in Pairs \ {p} : pc'[q] = pc[q]
      BY <1>3, <3>1 DEF Stays, Goto, ShapeOK
    <3>3. CASE c \in called
      <4>1. c[1] \in Pairs
        BY <3>3 DEF ShapeOK
      <4>2. QED
        BY <3>1, <3>2, <3>3, <4>1 DEF AttemptsMatch
    <3>4. CASE c = <<p, at[p]>> /\ label = "calling"
      <4>1. ~(at[p] < at[p])
        BY <3>2 DEF Stages
      <4>2. c \notin skipped
        BY <3>4, <4>1 DEF AttemptsMatch
      <4>3. QED
        BY <3>2, <3>4, <4>2 DEF NotClosed
    <3>5. QED
      BY <3>1, <3>3, <3>4
  <2>4. QED
    BY <2>1, <2>2, <2>3 DEF AttemptsMatch
<1>4. ASSUME NEW p \in Pairs, Counts(p) PROVE AttemptsMatch'
  <2>1. /\ at[p] \in Stages /\ skipped' = skipped /\ called' = called
        /\ \A q \in Pairs \ {p} : at'[q] = at[q] /\ pc'[q] = pc[q]
        /\ (at'[p] = at[p] + 1) \/ (at'[p] = at[p] /\ pc'[p] = "aborted")
    <3>1. CASE NextStage(p)
      BY <1>4, <3>1, NextStageShape DEF Counts
    <3>2. CASE Goto(p, "aborted") /\ UNCHANGED at
      BY <1>4, <3>2 DEF Counts, Goto, ShapeOK
    <3>3. QED
      BY <1>4, <3>1, <3>2 DEF Counts
  <2>2. ASSUME NEW m \in Models
        PROVE  attempted'[m] = Cardinality(Counted(m)') /\ history'[m] <= attempted'[m]
    <3>1. /\ attempted' = [attempted EXCEPT ![p[1]] = @ + 1]
          /\ attempted[m] \in Nat /\ history[m] \in Nat
          /\ attempted[m] = Cardinality(Counted(m)) /\ history[m] <= attempted[m]
      BY <1>4 DEF Counts, CountAttempt, ShapeOK, AttemptsMatch
    <3>2. p[1] \in Models /\ IsFiniteSet(Counted(m))
      BY PairIsTuple, CountedIsFinite
    <3>3. \/ history' = history \/ history' = [history EXCEPT ![p[1]] = @ + 1]
          \/ history' = [history EXCEPT ![p[1]] = @ + 0]
      BY <1>4 DEF Counts
    <3>4. CASE m = p[1]
      <4>1. Cardinality(Counted(m)') = Cardinality(Counted(m)) + 1
        <5>1. Counted(m)' = Counted(m) \cup {<<p, at[p]>>} /\ <<p, at[p]>> \notin Counted(m)
          BY <1>4, <3>4, CountingCounts
        <5>2. QED
          BY <3>2, <5>1, FS_AddElement
      <4>2. attempted'[m] = attempted[m] + 1 /\ history'[m] <= history[m] + 1
        BY <3>1, <3>2, <3>3, <3>4 DEF ShapeOK
      <4>3. history'[m] \in Nat
        BY <3>1, <3>2, <3>3, <3>4 DEF ShapeOK
      <4>4. QED
        BY <3>1, <4>1, <4>2, <4>3
    <3>5. CASE m # p[1]
      <4>1. Counted(m)' = Counted(m)
        BY <1>4, <3>5, CountingCounts
      <4>2. attempted'[m] = attempted[m] /\ history'[m] = history[m]
        BY <3>1, <3>2, <3>3, <3>5 DEF ShapeOK
      <4>3. QED
        BY <3>1, <4>1, <4>2
    <3>6. QED
      BY <3>4, <3>5
  <2>3. \A q \in Pairs : at[q] \in Int /\ at'[q] \in Int /\ at'[q] >= at[q]
    <3>1. \A q \in Pairs : at[q] \in Int
      BY RoundAssumption DEF ShapeOK, Stages
    <3>2. QED
      BY <2>1, <3>1
  <2>4. ASSUME NEW c \in skipped' PROVE c[2] < at'[c[1]]
    <3>1. c \in skipped /\ c[1] \in Pairs /\ c[2] \in Int
      BY <2>1, <2>4 DEF ShapeOK, Stages
    <3>2. QED
      BY <2>3, <3>1 DEF AttemptsMatch
  <2>5. ASSUME NEW c \in called'
        PROVE  /\ c \notin skipped'
               /\ c[2] < at'[c[1]] \/ (c[2] = at'[c[1]] /\ pc'[c[1]] \in NotClosed \cup {"aborted"})
    <3>1. c \in called /\ c[1] \in Pairs /\ c[2] \in Int
      BY <2>1, <2>5 DEF ShapeOK, Stages
    <3>2. CASE c[1] = p
      BY <2>1, <2>3, <3>1, <3>2 DEF AttemptsMatch
    <3>3. CASE c[1] # p
      BY <2>1, <3>1, <3>3 DEF AttemptsMatch
    <3>4. QED
      BY <3>2, <3>3
  <2>6. QED
    BY <2>2, <2>4, <2>5 DEF AttemptsMatch
<1>5. ASSUME NEW p \in Pairs, Skips(p) PROVE AttemptsMatch'
  <2>1. /\ at[p] \in Stages /\ pc[p] = "budget"
        /\ \A q \in Pairs \ {p} : at'[q] = at[q] /\ pc'[q] = pc[q]
        /\ at'[p] = at[p] + 1
        /\ skipped' = skipped \cup {<<p, at[p]>>} /\ called' = called
    BY <1>5, NextStageShape DEF Skips
  <2>2. \A m \in Models : attempted'[m] = Cardinality(Counted(m)') /\ history'[m] <= attempted'[m]
    BY <1>5, SkippingCounts DEF Skips, AttemptsMatch
  <2>3. \A q \in Pairs : at[q] \in Int /\ at'[q] \in Int /\ at'[q] >= at[q]
    <3>1. \A q \in Pairs : at[q] \in Int
      BY RoundAssumption DEF ShapeOK, Stages
    <3>2. QED
      BY <2>1, <3>1
  <2>4. ASSUME NEW c \in skipped' PROVE c[2] < at'[c[1]]
    <3>1. CASE c \in skipped
      <4>1. c[1] \in Pairs /\ c[2] \in Int
        BY <3>1 DEF ShapeOK, Stages
      <4>2. QED
        BY <2>3, <3>1, <4>1 DEF AttemptsMatch
    <3>2. CASE c = <<p, at[p]>>
      BY <2>1, <2>3, <3>2
    <3>3. QED
      BY <2>1, <3>1, <3>2
  <2>5. ASSUME NEW c \in called'
        PROVE  /\ c \notin skipped'
               /\ c[2] < at'[c[1]] \/ (c[2] = at'[c[1]] /\ pc'[c[1]] \in NotClosed \cup {"aborted"})
    <3>1. c \in called /\ c[1] \in Pairs /\ c[2] \in Int
      BY <2>1, <2>5 DEF ShapeOK, Stages
    <3>2. c # <<p, at[p]>>
      <4>1. ~(at[p] < at[p])
        BY <2>3
      <4>2. "budget" \notin NotClosed \cup {"aborted"}
        BY DEF NotClosed
      <4>3. QED
        BY <2>1, <3>1, <4>1, <4>2 DEF AttemptsMatch
    <3>3. c \notin skipped'
      BY <2>1, <3>1, <3>2 DEF AttemptsMatch
    <3>4. CASE c[1] = p
      <4>1. c[2] < at[p]
        <5>1. "budget" \notin NotClosed \cup {"aborted"}
          BY DEF NotClosed
        <5>2. QED
          BY <2>1, <3>1, <3>4, <5>1 DEF AttemptsMatch
      <4>2. QED
        BY <2>1, <2>3, <3>1, <3>3, <3>4, <4>1
    <3>5. CASE c[1] # p
      BY <2>1, <3>1, <3>3, <3>5 DEF AttemptsMatch
    <3>6. QED
      BY <3>4, <3>5
  <2>6. QED
    BY <2>2, <2>4, <2>5 DEF AttemptsMatch
<1>6. QED
  BY <1>1, <1>2, <1>3, <1>4, <1>5, StepCounts DEF Next

LEMMA AttemptsHold == Spec => []AttemptsMatch
<1>1. ShapeOK /\ AttemptsMatch /\ [Next]_vars => AttemptsMatch'
  BY StepAttempts
<1>2. QED
  BY ShapeHolds, InitAttempts, <1>1, PTL DEF Spec

\* The state has its type: in particular no model is ever counted more attempts
\* than the round has stages for it (round_runner.py's n_stages_attempted against
\* n_stages_assigned), and no more errors than attempts.
THEOREM TypeCorrect == Spec => []TypeOK
<1>1. ShapeOK /\ AttemptsMatch => TypeOK
  <2> SUFFICES ASSUME ShapeOK, AttemptsMatch PROVE TypeOK
    OBVIOUS
  <2>1. \A m \in Models : attempted[m] \in 0 .. StageCount /\ history[m] \in 0 .. StageCount
    <3> SUFFICES ASSUME NEW m \in Models
                 PROVE  attempted[m] \in 0 .. StageCount /\ history[m] \in 0 .. StageCount
      OBVIOUS
    <3>1. /\ Cardinality(Counted(m)) <= StageCount /\ StageCount \in Nat
          /\ Cardinality(Counted(m)) \in Nat
      BY CountedIsFinite
    <3>2. /\ attempted[m] = Cardinality(Counted(m)) /\ history[m] <= attempted[m]
          /\ history[m] \in Nat
      BY DEF AttemptsMatch, ShapeOK
    <3>3. QED
      BY <3>1, <3>2
  <2>2. /\ attempted \in [Models -> 0 .. StageCount]
        /\ history \in [Models -> 0 .. StageCount]
    BY <2>1 DEF ShapeOK
  <2>3. called \cup skipped \cup owed \subseteq Pairs \X Stages
    BY DEF ShapeOK
  <2>4. QED
    BY <2>2, <2>3 DEF ShapeOK, TypeOK, PCs
<1>2. QED
  BY ShapeHolds, AttemptsHold, <1>1, PTL

\* A model's calls are among what it was counted for, but those under way.
LEMMA CallsCounted ==
    ASSUME ShapeOK, AttemptsMatch
    PROVE  CallsAreCounted
<1> SUFFICES ASSUME NEW m \in Models
             PROVE  attempted[m] + Cardinality({u \in Units : pc[<<m, u>>] \in NotClosed})
                        >= Cardinality(CallsOf(m))
  BY DEF CallsAreCounted
<1> DEFINE Open == {u \in Units : pc[<<m, u>>] \in NotClosed}
           f == [u \in Open |-> <<<<m, u>>, at[<<m, u>>]>>]
           Under == {f[u] : u \in Open}
<1>1. /\ IsFiniteSet(Counted(m)) /\ attempted[m] = Cardinality(Counted(m))
      /\ IsFiniteSet(Units)
  BY CountedIsFinite DEF AttemptsMatch
<1>2. IsFiniteSet(Open) /\ Cardinality(Open) \in Nat
  BY <1>1, FS_Subset, FS_CardinalityType
<1>3. f \in Surjection(Open, Under)
  BY DEF Surjection
<1>4. IsFiniteSet(Under) /\ Cardinality(Under) <= Cardinality(Open)
  <2> HIDE DEF f, Open, Under
  <2>1. QED
    BY <1>2, <1>3, FS_Surjection
<1>5. CallsOf(m) \subseteq Counted(m) \cup Under
  <2> SUFFICES ASSUME NEW c \in called, c[1][1] = m, c \notin Counted(m)
               PROVE  c \in Under
    BY DEF CallsOf
  <2>1. /\ c \in Pairs \X Stages /\ c \notin skipped
        /\ c[2] < at[c[1]] \/ (c[2] = at[c[1]] /\ pc[c[1]] \in NotClosed \cup {"aborted"})
    BY DEF ShapeOK, AttemptsMatch
  <2>2. c[2] = at[c[1]] /\ pc[c[1]] \in NotClosed
    BY <2>1 DEF Counted
  <2>3. PICK u \in Units : c[1] = <<m, u>>
    BY <2>1 DEF Pairs
  <2>4. c = <<c[1], c[2]>> /\ u \in Open
    BY <2>1, <2>2, <2>3
  <2>5. c = f[u]
    BY <2>2, <2>3, <2>4
  <2>6. QED
    BY <2>4, <2>5
<1>6. /\ IsFiniteSet(Counted(m) \cup Under)
      /\ Cardinality(Counted(m) \cup Under) <= Cardinality(Counted(m)) + Cardinality(Under)
  <2> HIDE DEF Under
  <2>1. /\ IsFiniteSet(Counted(m) \cup Under)
        /\ Cardinality(Counted(m) \cup Under)
             = Cardinality(Counted(m)) + Cardinality(Under) - Cardinality(Counted(m) \cap Under)
    BY <1>1, <1>4, FS_Union
  <2>2. Cardinality(Counted(m) \cap Under) \in Nat
    BY <1>1, FS_Intersection, FS_CardinalityType
  <2>3. /\ Cardinality(Counted(m)) \in Nat /\ Cardinality(Under) \in Nat
        /\ Cardinality(Counted(m) \cup Under) \in Nat
    BY <1>1, <1>4, <2>1, FS_CardinalityType
  <2>4. QED
    BY <2>1, <2>2, <2>3
<1>7. /\ Cardinality(CallsOf(m)) <= Cardinality(Counted(m) \cup Under)
      /\ Cardinality(CallsOf(m)) \in Nat
  <2> HIDE DEF Under
  <2>1. QED
    BY <1>5, <1>6, FS_Subset, FS_CardinalityType
<1>8. /\ Cardinality(Counted(m)) \in Nat /\ Cardinality(Under) \in Nat
      /\ Cardinality(Counted(m) \cup Under) \in Nat
  <2> HIDE DEF Under
  <2>1. QED
    BY <1>1, <1>4, <1>6, FS_CardinalityType
<1>9. attempted[m] + Cardinality(Open) >= Cardinality(CallsOf(m))
  <2> HIDE DEF Open, Under
  <2>1. QED
    BY <1>1, <1>2, <1>4, <1>6, <1>7, <1>8
<1>10. QED
  BY <1>9

\* A model none of whose pipelines ended early was counted for every stage.
LEMMA CoverageIsFull ==
    ASSUME ShapeOK, AttemptsMatch
    PROVE  FullCoverage
<1> SUFFICES ASSUME RoundOver, NEW m \in Models,
                    \A u \in Units : /\ <<m, u>> \notin quarantined
                                     /\ pc[<<m, u>>] \notin {"aborted", "escaped"}
                                     /\ \A s \in Stages : <<<<m, u>>, s>> \notin skipped
             PROVE  attempted[m] = StageCount
  BY DEF FullCoverage
<1>1. \A u \in Units : at[<<m, u>>] = NStages + 1
  <2> SUFFICES ASSUME NEW u \in Units PROVE at[<<m, u>>] = NStages + 1
    OBVIOUS
  <2>1. <<m, u>> \in Pairs
    BY DEF Pairs
  <2>2. pc[<<m, u>>] = "done"
    BY <2>1 DEF RoundOver, Ended
  <2>3. QED
    BY <2>1, <2>2 DEF ShapeOK
<1>2. \A s \in Stages : s < NStages + 1
  BY RoundAssumption DEF Stages
<1>3. ({m} \X Units) \X Stages \subseteq Counted(m)
  BY <1>1, <1>2 DEF Counted, Pairs
<1>4. Counted(m) \subseteq ({m} \X Units) \X Stages
  BY PairIsTuple DEF Counted
<1>5. Counted(m) = ({m} \X Units) \X Stages
  BY <1>3, <1>4
<1>6. QED
  BY <1>5, CountedIsFinite DEF AttemptsMatch

\* What the coverage gate of Halving.promote goes by is right at every moment of a
\* round: every call that ended counts for its model, its row written or not, and
\* once the round is over a model falls short only if the budget skipped it or a
\* pipeline of it was cut off, whatever the resume cache answered.
THEOREM AttemptsCounted == Spec => []AttemptsAreCounted
<1>1. ShapeOK /\ AttemptsMatch => AttemptsAreCounted
  BY CallsCounted, CoverageIsFull DEF AttemptsAreCounted
<1>2. QED
  BY ShapeHolds, AttemptsHold, <1>1, PTL

\* A round that crashed and was run again counts the stages its cache answers, so
\* at its end only a stage the budget skipped, or a pipeline that was quarantined,
\* aborted or escaped, leaves a model short (round_runner.py's n_stages_attempted).
THEOREM CoverageReached == Spec => []FullCoverage
<1>1. ShapeOK /\ AttemptsMatch => FullCoverage
  BY CoverageIsFull
<1>2. QED
  BY ShapeHolds, AttemptsHold, <1>1, PTL

-----------------------------------------------------------------------------
(* The reservations. *)

\* A step of p that keeps it at its stage, and one that ends its iteration.
Holds(p) ==
    /\ at[p] \in Stages
    /\ UNCHANGED <<at, infra>>
    /\ \E label \in PCs \ {"aborted"} :
          /\ Goto(p, label)
          /\ pc[p] \in Owing => label \in Owing \cup {"escaped"}
          /\ \/ owed' = owed
             \/ owed' = owed \cup {<<p, at[p]>>} /\ label \in Owing
    /\ pc[p] \notin {"aborted", "escaped"}

Frees(p) ==
    /\ at[p] \in Stages
    /\ pc[p] \notin {"aborted", "escaped"}
    /\ \/ NextStage(p)
       \/ Goto(p, "aborted") /\ UNCHANGED at
    /\ \/ pc[p] \notin Owing /\ owed' = owed /\ infra' \in {infra, infra + 1}
       \/ owed' = owed \ {<<p, at[p]>>} /\ infra' = infra
       \/ owed' = owed /\ infra' = infra + 1

LEMMA ClosingFrees ==
    ASSUME NEW p \in Pairs, CloseAttempt(p)
    PROVE  NextStage(p) \/ (Goto(p, "aborted") /\ UNCHANGED at)
BY DEF CloseAttempt, Conclude

LEMMA StepFrees ==
    ASSUME ShapeOK, NEW p \in Pairs, Step(p)
    PROVE  Holds(p) \/ Frees(p)
<1> USE DEF pipeVars, sharedVars, storeVars, histVars
<1>1. pc[p] \notin Ended /\ at[p] \in Stages
  BY DEF Step, Proceed, StopQuarantined, BuildFails, RecordBuildFailure, BuildFailureRow, SkipValidator,
     CacheHit, Reuse, CacheMiss, MustCall, BudgetSkips, BudgetAdmits, UpsertPrompt, TakeGlobalSlot,
     TakeOpSlot, CallEnds, RecordCall, Settle, SettleAs, RecordRaises, PersistRaises, Escapes, Ended, ShapeOK
<1>2. pc[p] # "aborted" /\ pc[p] # "escaped"
  BY <1>1 DEF Ended
<1>3. {"done", "failrow", "budget", "upsert", "wait", "opwait", "calling", "returned", "recorded", "escaped"}
        \subseteq PCs \ {"aborted"}
  BY DEF PCs, Waiting, NotClosed, Ended
<1>4. ASSUME StopQuarantined(p) \/ BuildFails(p) \/ CacheMiss(p) \/ UpsertPrompt(p)
             \/ TakeGlobalSlot(p) \/ Escapes(p)
      PROVE  Holds(p)
  BY <1>1, <1>2, <1>3, <1>4 DEF StopQuarantined, BuildFails, CacheMiss, MustCall, UpsertPrompt,
     TakeGlobalSlot, Escapes, Holds, Owing
<1>5. ASSUME BudgetAdmits(p) PROVE Holds(p)
  <2>1. PICK label \in {"wait", "upsert"} : Goto(p, label)
    BY <1>5 DEF BudgetAdmits
  <2>2. QED
    BY <1>1, <1>2, <1>3, <1>5, <2>1 DEF BudgetAdmits, Holds, Owing
<1>6. ASSUME TakeOpSlot(p) \/ CallEnds(p) \/ RecordCall(p) PROVE Holds(p)
  BY <1>1, <1>2, <1>3, <1>6 DEF TakeOpSlot, CallEnds, RecordCall, Holds, Owing
<1>7. ASSUME RecordBuildFailure(p) \/ SkipValidator(p) \/ CacheHit(p) \/ BudgetSkips(p) PROVE Frees(p)
  BY <1>1, <1>2, <1>7
     DEF RecordBuildFailure, BuildFailureRow, SkipValidator, CacheHit, Reuse, MustCall, BudgetSkips, Frees, Owing
<1>8. ASSUME Settle(p) \/ RecordRaises(p) PROVE Frees(p)
  BY <1>1, <1>2, <1>8, ClosingFrees DEF Settle, SettleAs, RecordRaises, PersistRaises, Frees
<1>9. QED
  BY <1>4, <1>5, <1>6, <1>7, <1>8 DEF Step, Proceed

LEMMA HoldingLeaksNothing ==
    ASSUME ShapeOK, ReservationsMatch, NEW p \in Pairs, Holds(p)
    PROVE  ReservationsMatch'
<1>1. PICK label \in PCs \ {"aborted"} :
          /\ Goto(p, label)
          /\ pc[p] \in Owing => label \in Owing \cup {"escaped"}
          /\ owed' = owed \/ (owed' = owed \cup {<<p, at[p]>>} /\ label \in Owing)
  BY DEF Holds
<1>2. /\ at' = at /\ infra' = infra /\ pc'[p] = label /\ at[p] \in Stages
      /\ pc[p] # "aborted" /\ pc[p] # "escaped"
      /\ \A q \in Pairs \ {p} : pc'[q] = pc[q]
  BY <1>1 DEF Holds, Goto, ShapeOK
<1>3. Leaked' = Leaked
  BY <1>1, <1>2 DEF Leaked, ShapeOK
<1>4. ASSUME NEW o \in owed'
      PROVE  /\ o[2] <= at'[o[1]]
             /\ o[2] = at'[o[1]] => pc'[o[1]] \in Owing \cup {"escaped", "aborted"}
  <2>1. CASE o \in owed
    <3>1. o[1] \in Pairs
      BY <2>1 DEF ShapeOK
    <3>2. QED
      BY <1>1, <1>2, <2>1, <3>1 DEF ReservationsMatch
  <2>2. CASE o = <<p, at[p]>> /\ label \in Owing
    <3>1. o[1] = p /\ o[2] = at[p] /\ at[p] <= at[p]
      BY <1>2, <2>2 DEF Stages
    <3>2. QED
      BY <1>2, <2>2, <3>1
  <2>3. QED
    BY <1>1, <2>1, <2>2
<1>5. QED
  BY <1>2, <1>3, <1>4 DEF ReservationsMatch

LEMMA FreeingIsNoted ==
    ASSUME ShapeOK, ReservationsMatch, NEW p \in Pairs, Frees(p)
    PROVE  ReservationsMatch'
<1>1. /\ at[p] \in Stages /\ pc[p] \notin {"aborted", "escaped"}
      /\ \A q \in Pairs \ {p} : at'[q] = at[q] /\ pc'[q] = pc[q]
      /\ at'[p] = at[p] + 1 \/ (at'[p] = at[p] /\ pc'[p] = "aborted")
  <2>1. CASE NextStage(p)
    BY <2>1, NextStageShape DEF Frees
  <2>2. CASE Goto(p, "aborted") /\ UNCHANGED at
    BY <2>2 DEF Frees, Goto, ShapeOK
  <2>3. QED
    BY <2>1, <2>2 DEF Frees
<1>2. owed' \subseteq owed /\ infra \in Nat /\ infra' \in {infra, infra + 1}
  BY DEF Frees, ShapeOK
<1>3. \A o \in owed : o[1] \in Pairs /\ o[2] \in Int /\ at[o[1]] \in Int /\ o = <<o[1], o[2]>>
  BY RoundAssumption DEF ShapeOK, Stages
<1>4. ASSUME NEW o \in owed'
      PROVE  /\ o[2] <= at'[o[1]]
             /\ o[2] = at'[o[1]] => pc'[o[1]] \in Owing \cup {"escaped", "aborted"}
  <2>1. o \in owed /\ o[1] \in Pairs /\ o[2] \in Int /\ at[o[1]] \in Int /\ o[2] <= at[o[1]]
    BY <1>2, <1>3 DEF ReservationsMatch
  <2>2. CASE o[1] = p
    BY <1>1, <2>1, <2>2
  <2>3. CASE o[1] # p
    BY <1>1, <2>1, <2>3 DEF ReservationsMatch
  <2>4. QED
    BY <2>2, <2>3
<1>5. Leaked' \subseteq Leaked \cup {<<p, at[p]>>}
  BY <1>1, <1>2, <1>3 DEF Leaked
<1>6. IsFiniteSet(Leaked) /\ Cardinality(Leaked) \in Nat /\ Cardinality(Leaked) <= infra
  BY FS_CardinalityType DEF ReservationsMatch
<1>7. IsFiniteSet(Leaked') /\ Cardinality(Leaked') <= infra'
  <2>1. CASE infra' = infra + 1
    <3>1. /\ IsFiniteSet(Leaked \cup {<<p, at[p]>>})
          /\ Cardinality(Leaked \cup {<<p, at[p]>>}) <= Cardinality(Leaked) + 1
      <4> DEFINE o == <<p, at[p]>>
      <4> HIDE DEF o
      <4>1. /\ IsFiniteSet(Leaked \cup {o})
            /\ Cardinality(Leaked \cup {o}) =
                 IF o \in Leaked THEN Cardinality(Leaked) ELSE Cardinality(Leaked) + 1
        BY <1>6, FS_AddElement
      <4>2. Cardinality(Leaked \cup {o}) <= Cardinality(Leaked) + 1
        BY <1>6, <4>1
      <4>3. QED
        BY <4>1, <4>2 DEF o
    <3>2. Cardinality(Leaked \cup {<<p, at[p]>>}) \in Nat
      BY <3>1, FS_CardinalityType
    <3>3. /\ IsFiniteSet(Leaked') /\ Cardinality(Leaked') \in Nat
          /\ Cardinality(Leaked') <= Cardinality(Leaked \cup {<<p, at[p]>>})
      BY <1>5, <3>1, FS_Subset, FS_CardinalityType
    <3>4. QED
      BY <1>2, <1>6, <2>1, <3>1, <3>2, <3>3
  <2>2. CASE infra' = infra
    <3>1. <<p, at[p]>> \notin Leaked'
      <4>1. <<p, at[p]>> \notin owed'
        <5>1. CASE pc[p] \notin Owing /\ owed' = owed
          BY <1>1, <5>1 DEF ReservationsMatch
        <5>2. CASE owed' = owed \ {<<p, at[p]>>}
          BY <5>2
        <5>3. QED
          BY <1>2, <2>2, <5>1, <5>2 DEF Frees
      <4>2. QED
        BY <4>1 DEF Leaked
    <3>2. Leaked' \subseteq Leaked
      BY <1>5, <3>1
    <3>3. /\ IsFiniteSet(Leaked') /\ Cardinality(Leaked') \in Nat
          /\ Cardinality(Leaked') <= Cardinality(Leaked)
      BY <1>6, <3>2, FS_Subset, FS_CardinalityType
    <3>4. QED
      BY <1>2, <1>6, <2>2, <3>3
  <2>3. QED
    BY <1>2, <2>1, <2>2
<1>8. QED
  BY <1>4, <1>7 DEF ReservationsMatch

LEMMA ReservationsHold == Spec => []ReservationsMatch
<1>1. Init => ReservationsMatch
  <2> SUFFICES ASSUME owed = {}, infra = 0 PROVE ReservationsMatch
    BY DEF Init
  <2>1. Leaked = {}
    BY DEF Leaked
  <2>2. QED
    BY <2>1, FS_EmptySet DEF ReservationsMatch
<1>2. ShapeOK /\ ReservationsMatch /\ [Next]_vars => ReservationsMatch'
  <2> SUFFICES ASSUME ShapeOK, ReservationsMatch, [Next]_vars PROVE ReservationsMatch'
    OBVIOUS
  <2>1. CASE Crash
    <3>1. owed' = {} /\ infra' = 0
      BY <2>1 DEF Crash
    <3>2. Leaked' = {}
      BY <3>1 DEF Leaked
    <3>3. QED
      BY <3>1, <3>2, FS_EmptySet DEF ReservationsMatch
  <2>2. CASE UNCHANGED vars
    BY <2>2 DEF vars, pipeVars, sharedVars, ReservationsMatch, Leaked
  <2>3. QED
    BY <2>1, <2>2, StepFrees, HoldingLeaksNothing, FreeingIsNoted DEF Next
<1>3. QED
  BY ShapeHolds, <1>1, <1>2, PTL DEF Spec

\* A reservation that outlives its iteration of _run_pipeline is matched by an
\* infrastructure error of the round: no path through a call that failed, was
\* rejected or aborted its pipeline forgets to hand it back.
THEOREM LeaksNoted == Spec => []LeaksAreNoted
<1>1. ReservationsMatch => LeaksAreNoted
  BY DEF ReservationsMatch, LeaksAreNoted, Leaked
<1>2. QED
  BY ReservationsHold, <1>1, PTL

-----------------------------------------------------------------------------
(* The keys of the calls. *)

LEMMA KeysDiffer ==
    ASSUME NEW p \in Pairs, NEW q \in Pairs, p # q
    PROVE  Key(p) # Key(q)
<1>1. Key(p) = Key(q) => p[1] = q[1] /\ p[2] = q[2]
  BY DEF Key, Prompt
<1>2. QED
  BY <1>1, PairIsTuple

\* The key of a call is never that of a build failure.
LEMMA KeyIsNoFailure ==
    ASSUME ShapeOK, NEW p \in Pairs, at[p] \in Stages, NEW q \in Pairs
    PROVE  /\ Key(p)[1] = Prompt(p)
           /\ Prompt(p)[3] # "build failure"
           /\ FailureKey(q)[1][3] = "build failure"
           /\ Key(p) # FailureKey(q)
<1>1. ParentText(p, at[p]) \in Texts
  <2>1. ParentOf[at[p]] = 0 \/ ParentOf[at[p]] \in Stages
    BY RoundAssumption DEF Stages
  <2>2. ASSUME ParentOf[at[p]] \in Stages
        PROVE  Substrate[ParentOf[at[p]], p[2]] \in Texts /\ text[p][ParentOf[at[p]]] \in Texts
    BY <2>2, PairIsTuple, RoundAssumption DEF ShapeOK
  <2>3. QED
    BY <2>1, <2>2 DEF ParentText, Texts
<1>2. "build failure" \notin Texts
  BY DEF Texts, NoText
<1>3. Prompt(p)[3] # "build failure"
  BY <1>1, <1>2 DEF Prompt
<1>4. QED
  BY <1>3 DEF Key, FailureKey, Prompt

\* A step of p leaves the other pipelines alone, and its own key for as long as
\* it stays at its stage: a stage's parent is an earlier one.
LEMMA StepIsLocal ==
    ASSUME ShapeOK, NEW p \in Pairs, Step(p)
    PROVE  /\ at[p] \in Stages /\ pc[p] \notin Ended
           /\ crashes' = crashes
           /\ \A q \in Pairs \ {p} :
                 /\ pc'[q] = pc[q] /\ got'[q] = got[q]
                 /\ Key(q)' = Key(q) /\ Prompt(q)' = Prompt(q)
           /\ at'[p] = at[p] => Key(p)' = Key(p) /\ Prompt(p)' = Prompt(p)
<1> USE DEF pipeVars, sharedVars, storeVars, histVars
<1>1. pc[p] \notin Ended /\ at[p] \in Stages /\ crashes' = crashes
  BY DEF Step, Proceed, StopQuarantined, BuildFails, RecordBuildFailure, BuildFailureRow, SkipValidator,
     CacheHit, Reuse, CacheMiss, MustCall, BudgetSkips, BudgetAdmits, UpsertPrompt, TakeGlobalSlot,
     TakeOpSlot, CallEnds, RecordCall, Settle, SettleAs, RecordRaises, PersistRaises, Escapes, Ended, ShapeOK
<1>2. \A q \in Pairs \ {p} : pc'[q] = pc[q] /\ at'[q] = at[q]
  <2>1. Holds(p) \/ Frees(p)
    BY StepFrees
  <2>2. CASE NextStage(p)
    BY <1>1, <2>2, NextStageShape
  <2>3. ASSUME NEW label, Goto(p, label), UNCHANGED at
        PROVE  \A q \in Pairs \ {p} : pc'[q] = pc[q] /\ at'[q] = at[q]
    BY <2>3 DEF Goto, ShapeOK
  <2>4. QED
    BY <2>1, <2>2, <2>3 DEF Holds, Frees
<1>3. \A q \in Pairs \ {p} : got'[q] = got[q]
  BY DEF Step, Proceed, StopQuarantined, BuildFails, RecordBuildFailure, BuildFailureRow, SkipValidator,
     CacheHit, Reuse, CacheMiss, BudgetSkips, BudgetAdmits, UpsertPrompt, TakeGlobalSlot, TakeOpSlot,
     CallEnds, RecordCall, Settle, SettleAs, RecordRaises, PersistRaises, Escapes, CloseAttempt, Conclude, ShapeOK
<1>4. text' = text \/ \E x : SetText(p, x)
  BY DEF Step, Proceed, StopQuarantined, BuildFails, RecordBuildFailure, BuildFailureRow, SkipValidator,
     CacheHit, Reuse, CacheMiss, BudgetSkips, BudgetAdmits, UpsertPrompt, TakeGlobalSlot, TakeOpSlot,
     CallEnds, RecordCall, Settle, SettleAs, RecordRaises, PersistRaises, Escapes
<1>5. /\ \A q \in Pairs \ {p} : text'[q] = text[q]
      /\ \A s \in Stages \ {at[p]} : text'[p][s] = text[p][s]
  BY <1>1, <1>4 DEF SetText, ShapeOK
<1>6. \A q \in Pairs \ {p} : Key(q)' = Key(q) /\ Prompt(q)' = Prompt(q)
  BY <1>2, <1>5 DEF Key, Prompt, ParentText
<1>7. ASSUME at'[p] = at[p]
      PROVE  Key(p)' = Key(p) /\ Prompt(p)' = Prompt(p)
  <2>1. ParentOf[at[p]] = 0 \/ ParentOf[at[p]] \in Stages \ {at[p]}
    BY <1>1, RoundAssumption DEF Stages
  <2>2. ParentText(p, at[p])' = ParentText(p, at[p])
    BY <1>5, <1>7, <2>1 DEF ParentText
  <2>3. QED
    BY <1>7, <2>2 DEF Key, Prompt
<1>8. QED
  BY <1>1, <1>2, <1>3, <1>6, <1>7

\* A step of p that touches neither cache nor storage and records nothing.
LEMMA KeysKept ==
    ASSUME KeysMatch, NEW p \in Pairs, cache' = cache, store' = store,
           \A q \in Pairs \ {p} : pc'[q] = pc[q] /\ got'[q] = got[q] /\ Key(q)' = Key(q),
           pc[p] # "recorded", pc'[p] # "recorded",
           pc'[p] \in Busy => /\ Key(p)' \notin DOMAIN cache
                              /\ ~(Key(p)' \in DOMAIN store /\ Usable(store[Key(p)']))
    PROVE  KeysMatch'
<1>1. CacheIsBacked' /\ \A k \in DOMAIN cache' : Cacheable(cache'[k])
  BY DEF KeysMatch, CacheIsBacked
<1>2. \A q \in Pairs : pc'[q] \in Busy => Key(q)' \notin DOMAIN cache'
  BY DEF KeysMatch
<1>3. \A q \in Pairs : pc'[q] \in Busy \ {"recorded"} =>
          ~(Key(q)' \in DOMAIN store' /\ Usable(store'[Key(q)']))
  BY DEF KeysMatch
<1>4. \A q \in Pairs : pc'[q] = "recorded" => Key(q)' \in DOMAIN store' /\ store'[Key(q)'] = got'[q]
  BY DEF KeysMatch
<1>5. \A k \in DOMAIN store' : Usable(store'[k]) =>
          k \in DOMAIN cache' \/ \E q \in Pairs : pc'[q] = "recorded" /\ Key(q)' = k
  <2> SUFFICES ASSUME NEW k \in DOMAIN store, Usable(store[k]), k \notin DOMAIN cache
               PROVE  \E q \in Pairs : pc'[q] = "recorded" /\ Key(q)' = k
    OBVIOUS
  <2>1. PICK q \in Pairs : pc[q] = "recorded" /\ Key(q) = k
    BY DEF KeysMatch
  <2>2. QED
    BY <2>1
<1>6. \A k \in DOMAIN store' : k[1][3] = "build failure" => store'[k] = "transient"
  BY DEF KeysMatch
<1>7. QED
  BY <1>1, <1>2, <1>3, <1>4, <1>5, <1>6 DEF KeysMatch

LEMMA BuildFailureKeys ==
    ASSUME ShapeOK, KeysMatch, NEW p \in Pairs, RecordBuildFailure(p)
    PROVE  KeysMatch'
<1> DEFINE k0 == FailureKey(p)
<1>1. /\ cache' = cache /\ pc[p] = "failrow" /\ at[p] \in Stages
      /\ store' = Recorded(store, k0, "transient") \/ store' = store
      /\ NextStage(p) /\ pc'[p] \in {"top", "done"}
  BY NextStageShape DEF RecordBuildFailure, BuildFailureRow, ShapeOK
<1>2. /\ \A q \in Pairs \ {p} : pc'[q] = pc[q] /\ got'[q] = got[q] /\ Key(q)' = Key(q)
  BY StepIsLocal DEF Step, Proceed
<1>3. /\ pc[p] \notin Busy /\ pc'[p] \notin Busy
      /\ pc[p] # "recorded" /\ pc'[p] # "recorded"
  BY <1>1 DEF Busy, Owing
<1>4. CASE store' = store
  BY <1>1, <1>2, <1>3, <1>4, KeysKept
<1>5. CASE store' = Recorded(store, k0, "transient")
  <2>1. k0[1][3] = "build failure"
    BY DEF FailureKey
  <2> HIDE DEF k0
  <2>2. k0 \in DOMAIN store => store[k0] = "transient"
    BY <2>1 DEF KeysMatch
  <2>3. store' = Put(store, k0, "transient")
    BY <1>5, <2>2 DEF Recorded, Usable
  <2>4. /\ DOMAIN store' = DOMAIN store \cup {k0} /\ store'[k0] = "transient"
        /\ \A k \in DOMAIN store : k # k0 => store'[k] = store[k]
    BY <2>3 DEF Put
  <2>5. k0 \notin DOMAIN cache
    BY <2>2 DEF KeysMatch, CacheIsBacked, Cacheable
  <2>6. \A q \in Pairs : pc[q] \in Busy => Key(q) # k0
    <3>1. \A q \in Pairs : pc[q] \in Busy => at[q] \in Stages
      BY DEF ShapeOK, Busy, Owing
    <3>2. QED
      BY <3>1, KeyIsNoFailure DEF k0
  <2>7. CacheIsBacked' /\ \A k \in DOMAIN cache' : Cacheable(cache'[k])
    BY <1>1, <2>4, <2>5 DEF KeysMatch, CacheIsBacked
  <2>8. \A q \in Pairs : pc'[q] \in Busy => Key(q)' \notin DOMAIN cache'
    BY <1>1, <1>2, <1>3 DEF KeysMatch
  <2>9. \A q \in Pairs : pc'[q] \in Busy \ {"recorded"} =>
          ~(Key(q)' \in DOMAIN store' /\ Usable(store'[Key(q)']))
    <3> SUFFICES ASSUME NEW q \in Pairs, pc'[q] \in Busy \ {"recorded"}, Key(q)' \in DOMAIN store'
                 PROVE  ~Usable(store'[Key(q)'])
      OBVIOUS
    <3>1. q # p /\ pc[q] \in Busy \ {"recorded"} /\ Key(q)' = Key(q) /\ Key(q) # k0
      BY <1>2, <1>3, <2>6
    <3>2. Key(q) \in DOMAIN store /\ store'[Key(q)] = store[Key(q)]
      BY <2>4, <3>1
    <3>3. QED
      BY <3>1, <3>2 DEF KeysMatch
  <2>10. \A q \in Pairs : pc'[q] = "recorded" => Key(q)' \in DOMAIN store' /\ store'[Key(q)'] = got'[q]
    <3> SUFFICES ASSUME NEW q \in Pairs, pc'[q] = "recorded"
                 PROVE  Key(q)' \in DOMAIN store' /\ store'[Key(q)'] = got'[q]
      OBVIOUS
    <3>1. q # p /\ pc[q] = "recorded" /\ Key(q)' = Key(q) /\ got'[q] = got[q]
      BY <1>2, <1>3
    <3>2. Key(q) \in DOMAIN store /\ store[Key(q)] = got[q] /\ Key(q) # k0
      BY <2>6, <3>1 DEF KeysMatch, Busy, Owing
    <3>3. QED
      BY <2>4, <3>1, <3>2
  <2>11. \A k \in DOMAIN store' : Usable(store'[k]) =>
          k \in DOMAIN cache' \/ \E q \in Pairs : pc'[q] = "recorded" /\ Key(q)' = k
    <3> SUFFICES ASSUME NEW k \in DOMAIN store', Usable(store'[k]), k \notin DOMAIN cache
                 PROVE  \E q \in Pairs : pc'[q] = "recorded" /\ Key(q)' = k
      BY <1>1
    <3>1. k \in DOMAIN store /\ Usable(store[k])
      BY <2>4 DEF Usable
    <3>2. PICK q \in Pairs : pc[q] = "recorded" /\ Key(q) = k
      BY <3>1 DEF KeysMatch
    <3>3. QED
      BY <1>2, <1>3, <3>2
  <2>12. \A k \in DOMAIN store' : k[1][3] = "build failure" => store'[k] = "transient"
    BY <2>4 DEF KeysMatch
  <2>13. QED
    BY <2>7, <2>8, <2>9, <2>10, <2>11, <2>12 DEF KeysMatch
<1>6. QED
  BY <1>1, <1>4, <1>5

\* The row of a call that ended is the first usable one of its key, and the
\* cache has none of it yet.
LEMMA RecordingKeys ==
    ASSUME ShapeOK, KeysMatch, NEW p \in Pairs, RecordCall(p)
    PROVE  KeysMatch'
<1> DEFINE k0 == Key(p)
<1>1. /\ cache' = cache /\ pc[p] = "returned" /\ pc'[p] = "recorded" /\ at'[p] = at[p]
      /\ got'[p] = got[p] /\ store' = Recorded(store, k0, got[p])
  BY DEF RecordCall, Goto, ShapeOK, pipeVars, sharedVars
<1>2. /\ \A q \in Pairs \ {p} : /\ pc'[q] = pc[q] /\ got'[q] = got[q] /\ Key(q)' = Key(q)
                                /\ Key(q) # k0
      /\ at[p] \in Stages
      /\ Key(p)' = k0
  BY <1>1, StepIsLocal, KeysDiffer DEF Step, Proceed
<1>3. k0[1][3] # "build failure"
  BY <1>2, KeyIsNoFailure
<1>4. k0 \notin DOMAIN cache /\ ~(k0 \in DOMAIN store /\ Usable(store[k0]))
  BY <1>1 DEF KeysMatch, Busy, Owing
<1> HIDE DEF k0
<1>5. store' = Put(store, k0, got[p])
  BY <1>1, <1>4 DEF Recorded
<1>6. /\ DOMAIN store' = DOMAIN store \cup {k0} /\ store'[k0] = got[p]
      /\ \A k \in DOMAIN store : k # k0 => store'[k] = store[k]
  BY <1>5 DEF Put
<1>7. CacheIsBacked' /\ \A k \in DOMAIN cache' : Cacheable(cache'[k])
  BY <1>1, <1>4, <1>6 DEF KeysMatch, CacheIsBacked
<1>8. \A q \in Pairs : pc'[q] \in Busy => Key(q)' \notin DOMAIN cache'
  BY <1>1, <1>2, <1>4 DEF KeysMatch
<1>9. \A q \in Pairs : pc'[q] \in Busy \ {"recorded"} =>
          ~(Key(q)' \in DOMAIN store' /\ Usable(store'[Key(q)']))
  <2> SUFFICES ASSUME NEW q \in Pairs, pc'[q] \in Busy \ {"recorded"}, Key(q)' \in DOMAIN store'
               PROVE  ~Usable(store'[Key(q)'])
    OBVIOUS
  <2>1. q # p /\ pc[q] \in Busy \ {"recorded"} /\ Key(q)' = Key(q) /\ Key(q) # k0
    BY <1>1, <1>2
  <2>2. Key(q) \in DOMAIN store /\ store'[Key(q)] = store[Key(q)]
    BY <1>6, <2>1
  <2>3. QED
    BY <2>1, <2>2 DEF KeysMatch
<1>10. \A q \in Pairs : pc'[q] = "recorded" => Key(q)' \in DOMAIN store' /\ store'[Key(q)'] = got'[q]
  <2> SUFFICES ASSUME NEW q \in Pairs, pc'[q] = "recorded"
               PROVE  Key(q)' \in DOMAIN store' /\ store'[Key(q)'] = got'[q]
    OBVIOUS
  <2>1. CASE q = p
    BY <1>1, <1>2, <1>6, <2>1
  <2>2. CASE q # p
    <3>1. pc[q] = "recorded" /\ Key(q)' = Key(q) /\ got'[q] = got[q] /\ Key(q) # k0
      BY <1>2, <2>2
    <3>2. Key(q) \in DOMAIN store /\ store[Key(q)] = got[q]
      BY <3>1 DEF KeysMatch
    <3>3. QED
      BY <1>6, <3>1, <3>2
  <2>3. QED
    BY <2>1, <2>2
<1>11. \A k \in DOMAIN store' : Usable(store'[k]) =>
          k \in DOMAIN cache' \/ \E q \in Pairs : pc'[q] = "recorded" /\ Key(q)' = k
  <2> SUFFICES ASSUME NEW k \in DOMAIN store', Usable(store'[k]), k \notin DOMAIN cache, k # k0
               PROVE  \E q \in Pairs : pc'[q] = "recorded" /\ Key(q)' = k
    BY <1>1, <1>2
  <2>1. k \in DOMAIN store /\ Usable(store[k])
    BY <1>6
  <2>2. PICK q \in Pairs : pc[q] = "recorded" /\ Key(q) = k
    BY <2>1 DEF KeysMatch
  <2>3. q # p
    BY <1>1, <2>2
  <2>4. QED
    BY <1>2, <2>2, <2>3
<1>12. \A k \in DOMAIN store' : k[1][3] = "build failure" => store'[k] = "transient"
  BY <1>3, <1>6 DEF KeysMatch
<1>13. QED
  BY <1>7, <1>8, <1>9, <1>10, <1>11, <1>12 DEF KeysMatch

\* What is put into the resume cache is the row just recorded.
LEMMA SettlingKeys ==
    ASSUME ShapeOK, KeysMatch, NEW p \in Pairs, Settle(p)
    PROVE  KeysMatch'
<1> DEFINE k0 == Key(p)
<1>1. /\ store' = store /\ pc[p] = "recorded" /\ at[p] \in Stages
      /\ cache' = IF Cacheable(got[p]) THEN Put(cache, k0, got[p]) ELSE cache
      /\ pc'[p] \in {"top", "done", "aborted"}
  <2>1. pc[p] = "recorded" /\ at[p] \in Stages /\ CloseAttempt(p)
    BY DEF Settle, SettleAs, ShapeOK
  <2>2. pc'[p] \in {"top", "done", "aborted"}
    BY <2>1, ClosingFrees, NextStageShape DEF Goto, ShapeOK
  <2>3. QED
    BY <2>1, <2>2 DEF Settle, SettleAs, storeVars
<1>2. /\ \A q \in Pairs \ {p} : /\ pc'[q] = pc[q] /\ got'[q] = got[q] /\ Key(q)' = Key(q)
                                /\ Key(q) # k0
  BY <1>1, StepIsLocal, KeysDiffer DEF Step, Proceed
<1>3. k0 \in DOMAIN store /\ store[k0] = got[p]
  BY <1>1 DEF KeysMatch
<1>4. pc'[p] \notin Busy /\ pc'[p] # "recorded"
  BY <1>1 DEF Busy, Owing
<1> HIDE DEF k0
<1>5. /\ DOMAIN cache \subseteq DOMAIN cache' /\ DOMAIN cache' \subseteq DOMAIN cache \cup {k0}
      /\ k0 \in DOMAIN cache' /\ k0 \notin DOMAIN cache => Cacheable(got[p])
      /\ Cacheable(got[p]) => k0 \in DOMAIN cache' /\ cache'[k0] = got[p]
      /\ \A k \in DOMAIN cache : k # k0 => cache'[k] = cache[k]
      /\ ~Cacheable(got[p]) => cache' = cache
  <2>1. CASE Cacheable(got[p])
    <3>1. cache' = Put(cache, k0, got[p])
      BY <1>1, <2>1
    <3>2. QED
      BY <2>1, <3>1 DEF Put
  <2>2. CASE ~Cacheable(got[p])
    BY <1>1, <2>2
  <2>3. QED
    BY <2>1, <2>2
<1>6. ASSUME NEW k \in DOMAIN cache'
      PROVE  k \in DOMAIN store' /\ store'[k] = cache'[k] /\ Cacheable(cache'[k])
  <2>1. CASE Cacheable(got[p]) /\ k = k0
    BY <1>1, <1>3, <1>5, <2>1
  <2>2. CASE k \in DOMAIN cache /\ cache'[k] = cache[k]
    BY <1>1, <2>2 DEF KeysMatch, CacheIsBacked
  <2>3. QED
    BY <1>5, <1>6, <2>1, <2>2
<1>7. \A q \in Pairs : pc'[q] \in Busy => Key(q)' \notin DOMAIN cache'
  BY <1>2, <1>4, <1>5 DEF KeysMatch
<1>8. \A q \in Pairs : pc'[q] \in Busy \ {"recorded"} =>
          ~(Key(q)' \in DOMAIN store' /\ Usable(store'[Key(q)']))
  BY <1>1, <1>2, <1>4 DEF KeysMatch
<1>9. \A q \in Pairs : pc'[q] = "recorded" => Key(q)' \in DOMAIN store' /\ store'[Key(q)'] = got'[q]
  BY <1>1, <1>2, <1>4 DEF KeysMatch
<1>10. \A k \in DOMAIN store' : Usable(store'[k]) =>
          k \in DOMAIN cache' \/ \E q \in Pairs : pc'[q] = "recorded" /\ Key(q)' = k
  <2> SUFFICES ASSUME NEW k \in DOMAIN store, Usable(store[k]), k \notin DOMAIN cache'
               PROVE  \E q \in Pairs : pc'[q] = "recorded" /\ Key(q)' = k
    BY <1>1
  <2>1. PICK q \in Pairs : pc[q] = "recorded" /\ Key(q) = k
    BY <1>5 DEF KeysMatch
  <2>2. k # k0
    BY <1>3, <1>5 DEF Usable, Cacheable
  <2>3. q # p
    BY <2>1, <2>2 DEF k0
  <2>4. QED
    BY <1>2, <2>1, <2>3
<1>11. \A k \in DOMAIN store' : k[1][3] = "build failure" => store'[k] = "transient"
  BY <1>1 DEF KeysMatch
<1>12. QED
  BY <1>6, <1>7, <1>8, <1>9, <1>10, <1>11 DEF KeysMatch, CacheIsBacked

\* After a crash the cache is the usable rows.
LEMMA CrashKeys ==
    ASSUME KeysMatch, Crash
    PROVE  KeysMatch'
<1>1. /\ store' = store /\ \A p \in Pairs : pc'[p] = "top"
      /\ cache' = [k \in {x \in DOMAIN store : Usable(store[x])} |-> store[k]]
  BY DEF Crash, storeVars, Prefetch
<1>2. "top" \notin Busy /\ "top" # "recorded"
  BY DEF Busy, Owing
<1>3. CacheIsBacked' /\ \A k \in DOMAIN cache' : Cacheable(cache'[k])
  BY <1>1 DEF CacheIsBacked, Usable, Cacheable
<1>4. \A k \in DOMAIN store' : Usable(store'[k]) => k \in DOMAIN cache'
  BY <1>1
<1>5. QED
  BY <1>1, <1>2, <1>3, <1>4 DEF KeysMatch

LEMMA StepKeys ==
    ASSUME ShapeOK, KeysMatch, [Next]_vars
    PROVE  KeysMatch'
<1>1. CASE UNCHANGED vars
  <2>1. UNCHANGED <<pc, got, cache, store>>
    BY <1>1 DEF vars, pipeVars, sharedVars, storeVars
  <2>2. \A p \in Pairs : Key(p)' = Key(p)
    BY <1>1 DEF vars, pipeVars, Key, Prompt, ParentText
  <2>3. CacheIsBacked'
    BY <2>1 DEF KeysMatch, CacheIsBacked
  <2>4. \A k \in DOMAIN store' : Usable(store'[k]) =>
          k \in DOMAIN cache' \/ \E p \in Pairs : pc'[p] = "recorded" /\ Key(p)' = k
    <3> SUFFICES ASSUME NEW k \in DOMAIN store, Usable(store[k]), k \notin DOMAIN cache
                 PROVE  \E p \in Pairs : pc[p] = "recorded" /\ Key(p)' = k
      BY <2>1
    <3>1. PICK p \in Pairs : pc[p] = "recorded" /\ Key(p) = k
      BY DEF KeysMatch
    <3>2. QED
      BY <2>2, <3>1
  <2>5. \A p \in Pairs : pc'[p] = "recorded" => Key(p)' \in DOMAIN store' /\ store'[Key(p)'] = got'[p]
    BY <2>1, <2>2 DEF KeysMatch
  <2>6. QED
    BY <2>1, <2>2, <2>3, <2>4, <2>5 DEF KeysMatch
<1>2. ASSUME NEW p \in Pairs, Step(p) PROVE KeysMatch'
  <2>1. /\ at[p] \in Stages
        /\ \A q \in Pairs \ {p} : pc'[q] = pc[q] /\ got'[q] = got[q] /\ Key(q)' = Key(q)
        /\ at'[p] = at[p] => Key(p)' = Key(p)
    BY <1>2, StepIsLocal
  <2>2. ASSUME CacheMiss(p) PROVE KeysMatch'
    <3>1. /\ pc[p] = "top" /\ pc'[p] = "budget" /\ at'[p] = at[p] /\ cache' = cache /\ store' = store
          /\ Key(p) \notin DOMAIN cache
      BY <2>2 DEF CacheMiss, MustCall, Goto, ShapeOK, sharedVars, storeVars
    <3>2. ~(Key(p) \in DOMAIN store /\ Usable(store[Key(p)]))
      <4> SUFFICES ASSUME Key(p) \in DOMAIN store, Usable(store[Key(p)]) PROVE FALSE
        OBVIOUS
      <4>1. PICK q \in Pairs : pc[q] = "recorded" /\ Key(q) = Key(p)
        BY <3>1 DEF KeysMatch
      <4>2. QED
        BY <3>1, <4>1, KeysDiffer
    <3>3. QED
      BY <2>1, <3>1, <3>2, KeysKept
  <2>3. ASSUME StopQuarantined(p) \/ BuildFails(p) \/ Escapes(p) PROVE KeysMatch'
    <3>1. /\ pc[p] # "recorded" /\ pc'[p] \in {"done", "failrow", "escaped"}
          /\ cache' = cache /\ store' = store
      BY <2>3 DEF StopQuarantined, BuildFails, Escapes, Goto, ShapeOK, sharedVars, storeVars
    <3>2. QED
      BY <2>1, <3>1, KeysKept DEF Busy, Owing
  <2>4. ASSUME SkipValidator(p) \/ CacheHit(p) \/ BudgetSkips(p) PROVE KeysMatch'
    <3>1. /\ pc[p] # "recorded" /\ NextStage(p) /\ cache' = cache /\ store' = store
      BY <2>4 DEF SkipValidator, CacheHit, Reuse, MustCall, BudgetSkips, sharedVars, storeVars
    <3>2. pc'[p] \in {"top", "done"}
      BY <2>1, <3>1, NextStageShape
    <3>3. QED
      BY <2>1, <3>1, <3>2, KeysKept DEF Busy, Owing
  <2>5. ASSUME BudgetAdmits(p) \/ UpsertPrompt(p) \/ TakeGlobalSlot(p) \/ TakeOpSlot(p) \/ CallEnds(p)
        PROVE  KeysMatch'
    <3>1. /\ pc[p] \in Busy \ {"recorded"} /\ at'[p] = at[p] /\ cache' = cache /\ store' = store
      BY <2>5 DEF BudgetAdmits, UpsertPrompt, TakeGlobalSlot, TakeOpSlot, CallEnds, Busy, Owing, sharedVars, storeVars
    <3>2. pc'[p] # "recorded"
      BY <2>5 DEF BudgetAdmits, UpsertPrompt, TakeGlobalSlot, TakeOpSlot, CallEnds, Goto, ShapeOK
    <3>3. /\ Key(p)' = Key(p) /\ Key(p) \notin DOMAIN cache
          /\ ~(Key(p) \in DOMAIN store /\ Usable(store[Key(p)]))
      BY <2>1, <3>1 DEF KeysMatch
    <3>4. QED
      BY <2>1, <3>1, <3>2, <3>3, KeysKept
  <2>6. ASSUME RecordRaises(p) PROVE KeysMatch'
    <3>1. /\ pc[p] = "returned" /\ cache' = cache /\ store' = store /\ CloseAttempt(p)
      BY <2>6 DEF RecordRaises, PersistRaises, storeVars
    <3>2. pc'[p] \in {"top", "done", "aborted"}
      BY <2>1, <3>1, ClosingFrees, NextStageShape DEF Goto, ShapeOK
    <3>3. QED
      BY <2>1, <3>1, <3>2, KeysKept DEF Busy, Owing
  <2>7. QED
    BY <1>2, <2>2, <2>3, <2>4, <2>5, <2>6, BuildFailureKeys, RecordingKeys, SettlingKeys DEF Step, Proceed
<1>3. QED
  BY <1>1, <1>2, CrashKeys DEF Next

LEMMA KeysHold == Spec => []KeysMatch
<1>1. Init => KeysMatch
  <2> SUFFICES ASSUME Init PROVE KeysMatch
    OBVIOUS
  <2>1. DOMAIN cache = {} /\ DOMAIN store = {} /\ \A p \in Pairs : pc[p] = "top"
    BY DEF Init
  <2>2. "top" \notin Busy /\ "top" # "recorded"
    BY DEF Busy, Owing
  <2>3. QED
    BY <2>1, <2>2 DEF KeysMatch, CacheIsBacked
<1>2. ShapeOK /\ KeysMatch /\ [Next]_vars => KeysMatch'
  BY StepKeys
<1>3. QED
  BY ShapeHolds, <1>1, <1>2, PTL DEF Spec

\* The resume cache never answers with what storage does not hold: a response is
\* put into it only after its row was recorded, and a row is replaced only while
\* no entry of the cache stands for it.
THEOREM CacheBacked == Spec => []CacheIsBacked
<1>1. KeysMatch => CacheIsBacked
  BY DEF KeysMatch
<1>2. QED
  BY KeysHold, <1>1, PTL

\* Work that is finished is not paid for again, however often the process dies and
\* starts over: a pipeline that goes on to its call has found no usable row, and
\* none can appear under its key before its own.
THEOREM NoSecondPayment == Spec => NeverRepaid
<1>1. ASSUME ShapeOK, KeysMatch, [Next]_vars, NEW p \in Pairs, pc[p] # "calling", pc'[p] = "calling"
      PROVE  ~(Key(p) \in DOMAIN store /\ Usable(store[Key(p)]))
  <2>1. ~UNCHANGED vars
    BY <1>1 DEF vars, pipeVars
  <2>2. ~Crash
    BY <1>1 DEF Crash
  <2>3. PICK q \in Pairs : Step(q)
    BY <1>1, <2>1, <2>2 DEF Next
  <2>4. q = p
    BY <1>1, <2>3, StepIsLocal
  <2>5. pc[p] = "opwait"
    <3>1. at[p] \in Stages
      BY <1>1, <2>3, <2>4, StepIsLocal
    <3>2. CASE NextStage(p)
      BY <1>1, <3>1, <3>2, NextStageShape
    <3>3. CASE \E label : label # "calling" /\ Goto(p, label)
      BY <1>1, <3>3 DEF Goto, ShapeOK
    <3>4. CASE TakeOpSlot(p)
      BY <3>4 DEF TakeOpSlot
    <3>5. QED
      BY <2>3, <2>4, <3>2, <3>3, <3>4
         DEF Step, Proceed, StopQuarantined, BuildFails, RecordBuildFailure, BuildFailureRow, SkipValidator,
         CacheHit, Reuse, CacheMiss, BudgetSkips, BudgetAdmits, UpsertPrompt, TakeGlobalSlot, CallEnds,
         RecordCall, Settle, SettleAs, RecordRaises, PersistRaises, Escapes, CloseAttempt, Conclude
  <2>6. QED
    BY <1>1, <2>5 DEF KeysMatch, Busy, Owing
<1>2. ShapeOK /\ KeysMatch /\ [Next]_vars =>
        [\A p \in Pairs : pc[p] # "calling" /\ pc'[p] = "calling"
            => ~(Key(p) \in DOMAIN store /\ Usable(store[Key(p)]))]_vars
  BY <1>1
<1>3. QED
  BY ShapeHolds, KeysHold, <1>2, PTL DEF Spec, NeverRepaid

-----------------------------------------------------------------------------
(* The prompts. *)

\* A step of p that announces no prompt and writes none.
Silent(p) ==
    /\ UNCHANGED <<seen, prompts>>
    /\ pc[p] = "upsert" => pc'[p] = "escaped" /\ at'[p] = at[p]
    /\ pc'[p] \in Owing => pc[p] \in Owing /\ at'[p] = at[p]
    /\ \A k \in DOMAIN store' \ DOMAIN store :
          k[1][3] = "build failure" \/ (pc[p] \in Owing /\ k[1] = Prompt(p))

LEMMA StepIsSilent ==
    ASSUME ShapeOK, NEW p \in Pairs, Step(p)
    PROVE  Silent(p) \/ BudgetAdmits(p) \/ UpsertPrompt(p)
<1> USE DEF pipeVars, sharedVars, storeVars, histVars
<1>1. at[p] \in Stages
  BY StepIsLocal
<1>2. NextStage(p) => pc'[p] \in {"top", "done"}
  BY <1>1, NextStageShape
<1>3. \A label : Goto(p, label) => pc'[p] = label
  BY DEF Goto, ShapeOK
<1>4. ASSUME StopQuarantined(p) \/ BuildFails(p) \/ CacheMiss(p) \/ TakeGlobalSlot(p) \/ TakeOpSlot(p)
             \/ CallEnds(p) \/ Escapes(p)
      PROVE  Silent(p)
  BY <1>3, <1>4 DEF StopQuarantined, BuildFails, CacheMiss, MustCall, TakeGlobalSlot, TakeOpSlot, CallEnds,
     Escapes, Silent, Owing
<1>5. ASSUME SkipValidator(p) \/ CacheHit(p) \/ BudgetSkips(p) PROVE Silent(p)
  BY <1>2, <1>5 DEF SkipValidator, CacheHit, Reuse, MustCall, BudgetSkips, Silent, Owing
<1>6. ASSUME Settle(p) \/ RecordRaises(p) PROVE Silent(p)
  <2>1. pc'[p] \in {"top", "done", "aborted"}
    BY <1>2, <1>3, <1>6, ClosingFrees DEF Settle, SettleAs, RecordRaises, PersistRaises
  <2>2. QED
    BY <1>6, <2>1 DEF Settle, SettleAs, RecordRaises, PersistRaises, Silent, Owing
<1>7. ASSUME RecordBuildFailure(p) PROVE Silent(p)
  <2>1. /\ pc[p] = "failrow" /\ pc'[p] \in {"top", "done"} /\ UNCHANGED <<seen, prompts>>
        /\ store' = Recorded(store, FailureKey(p), "transient") \/ store' = store
    BY <1>2, <1>7 DEF RecordBuildFailure, BuildFailureRow
  <2>2. \A k \in DOMAIN store' \ DOMAIN store : k = FailureKey(p)
    BY <2>1 DEF Recorded, Put
  <2>3. FailureKey(p)[1][3] = "build failure"
    BY DEF FailureKey
  <2>4. QED
    BY <2>1, <2>2, <2>3 DEF Silent, Owing
<1>8. ASSUME RecordCall(p) PROVE Silent(p)
  <2>1. /\ pc[p] = "returned" /\ pc'[p] = "recorded" /\ at' = at /\ UNCHANGED <<seen, prompts>>
        /\ store' = Recorded(store, Key(p), got[p])
    BY <1>3, <1>8 DEF RecordCall
  <2>2. \A k \in DOMAIN store' \ DOMAIN store : k = Key(p)
    BY <2>1 DEF Recorded, Put
  <2>3. Key(p)[1] = Prompt(p)
    BY DEF Key
  <2>4. QED
    BY <2>1, <2>2, <2>3 DEF Silent, Owing
<1>9. QED
  BY <1>4, <1>5, <1>6, <1>7, <1>8 DEF Step, Proceed

LEMMA StepPrompts ==
    ASSUME ShapeOK, PromptsMatch, [Next]_vars
    PROVE  PromptsMatch'
<1>1. CASE UNCHANGED vars
  BY <1>1 DEF vars, pipeVars, sharedVars, storeVars, PromptsMatch, Prompt, ParentText
<1>2. CASE Crash
  <2>1. seen' = {} /\ crashes' # 0 /\ crashes' \in Nat /\ \A p \in Pairs : pc'[p] \notin Owing
    <3>1. seen' = {} /\ crashes' = crashes + 1 /\ \A p \in Pairs : pc'[p] = "top"
      BY <1>2 DEF Crash
    <3>2. crashes \in Nat
      BY DEF PromptsMatch
    <3>3. crashes' # 0 /\ crashes' \in Nat
      BY <3>1, <3>2
    <3>4. QED
      BY <3>1, <3>3 DEF Owing
  <2>2. QED
    BY <2>1 DEF PromptsMatch
<1>3. ASSUME NEW p \in Pairs, Step(p) PROVE PromptsMatch'
  <2>1. /\ at[p] \in Stages /\ crashes' = crashes /\ pc[p] \notin Ended
        /\ \A q \in Pairs \ {p} : pc'[q] = pc[q] /\ Prompt(q)' = Prompt(q)
        /\ at'[p] = at[p] => Prompt(p)' = Prompt(p)
    BY <1>3, StepIsLocal
  <2>2. CASE Silent(p)
    <3>1. ASSUME NEW x \in seen'
          PROVE  x \in prompts' \/ \E q \in Pairs : pc'[q] \in {"upsert", "escaped"} /\ Prompt(q)' = x
      <4>1. x \in seen
        BY <2>2 DEF Silent
      <4>2. CASE x \in prompts
        BY <2>2, <4>2 DEF Silent
      <4>3. ASSUME NEW q \in Pairs, pc[q] \in {"upsert", "escaped"}, Prompt(q) = x
            PROVE  pc'[q] \in {"upsert", "escaped"} /\ Prompt(q)' = x
        <5>1. CASE q = p
          BY <2>1, <2>2, <4>3, <5>1 DEF Silent, Ended
        <5>2. CASE q # p
          BY <2>1, <4>3, <5>2
        <5>3. QED
          BY <5>1, <5>2
      <4>4. QED
        BY <4>1, <4>2, <4>3 DEF PromptsMatch
    <3>2. \A q \in Pairs : pc'[q] \in Owing => Prompt(q)' \in seen'
      BY <2>1, <2>2 DEF Silent, PromptsMatch
    <3>3. crashes' = 0 => \A k \in DOMAIN store' : k[1] \in seen' \/ k[1][3] = "build failure"
      BY <2>1, <2>2 DEF Silent, PromptsMatch
    <3>4. QED
      BY <2>1, <3>1, <3>2, <3>3 DEF PromptsMatch
  <2>3. CASE BudgetAdmits(p)
    <3>1. /\ seen' = seen \cup {Prompt(p)} /\ prompts' = prompts /\ store' = store /\ at' = at
          /\ pc[p] = "budget"
          /\ pc'[p] = IF Prompt(p) \in seen THEN "wait" ELSE "upsert"
      BY <2>3 DEF BudgetAdmits, storeVars, Goto, ShapeOK
    <3>2. Prompt(p)' = Prompt(p)
      BY <2>1, <3>1
    <3>3. ASSUME NEW x \in seen'
          PROVE  x \in prompts' \/ \E q \in Pairs : pc'[q] \in {"upsert", "escaped"} /\ Prompt(q)' = x
      <4>1. CASE x \in seen
        <5>1. CASE x \in prompts
          BY <3>1, <5>1
        <5>2. ASSUME NEW q \in Pairs, pc[q] \in {"upsert", "escaped"}, Prompt(q) = x
              PROVE  pc'[q] \in {"upsert", "escaped"} /\ Prompt(q)' = x
          BY <2>1, <3>1, <5>2
        <5>3. QED
          BY <4>1, <5>1, <5>2 DEF PromptsMatch
      <4>2. CASE x = Prompt(p) /\ Prompt(p) \notin seen
        BY <3>1, <3>2, <4>2
      <4>3. QED
        BY <3>1, <4>1, <4>2
    <3>4. \A q \in Pairs : pc'[q] \in Owing => Prompt(q)' \in seen'
      BY <2>1, <3>1, <3>2 DEF PromptsMatch
    <3>5. QED
      BY <2>1, <3>1, <3>3, <3>4 DEF PromptsMatch
  <2>4. CASE UpsertPrompt(p)
    <3>1. /\ seen' = seen /\ prompts' = prompts \cup {Prompt(p)} /\ store' = store /\ at' = at
          /\ pc[p] = "upsert"
      BY <2>4 DEF UpsertPrompt, sharedVars
    <3>2. Prompt(p)' = Prompt(p)
      BY <2>1, <3>1
    <3>3. ASSUME NEW x \in seen'
          PROVE  x \in prompts' \/ \E q \in Pairs : pc'[q] \in {"upsert", "escaped"} /\ Prompt(q)' = x
      <4>1. CASE x \in prompts'
        BY <4>1
      <4>2. CASE x \notin prompts'
        <5>1. PICK q \in Pairs : pc[q] \in {"upsert", "escaped"} /\ Prompt(q) = x
          BY <3>1, <4>2 DEF PromptsMatch
        <5>2. q # p
          BY <3>1, <4>2, <5>1
        <5>3. QED
          BY <2>1, <5>1, <5>2
      <4>3. QED
        BY <4>1, <4>2
    <3>4. \A q \in Pairs : pc'[q] \in Owing => Prompt(q)' \in seen'
      BY <2>1, <3>1, <3>2 DEF PromptsMatch, Owing
    <3>5. QED
      BY <2>1, <3>1, <3>3, <3>4 DEF PromptsMatch
  <2>5. QED
    BY <1>3, <2>2, <2>3, <2>4, StepIsSilent
<1>4. QED
  BY <1>1, <1>2, <1>3 DEF Next

\* Every row of a round that did not crash has its prompt in storage, though the
\* pipelines that share a prompt go on without waiting for the one that writes it:
\* only a write that is under way, or that raised, can be missing.
THEOREM PromptsKept == Spec => []PromptsAreKept
<1>1. Init => PromptsMatch
  <2> SUFFICES ASSUME Init PROVE PromptsMatch
    OBVIOUS
  <2>1. /\ seen = {} /\ DOMAIN store = {} /\ crashes = 0
        /\ \A p \in Pairs : pc[p] = "top"
    BY DEF Init
  <2>2. QED
    BY <2>1 DEF PromptsMatch, Owing
<1>2. ShapeOK /\ PromptsMatch /\ [Next]_vars => PromptsMatch'
  BY StepPrompts
<1>3. PromptsMatch => PromptsAreKept
  BY DEF PromptsMatch, PromptsAreKept
<1>4. QED
  BY ShapeHolds, <1>1, <1>2, <1>3, PTL DEF Spec

===============================================================================
