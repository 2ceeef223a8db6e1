---------------------------- MODULE BackendsProofs ----------------------------
(***************************************************************************)
(* The in-memory and the Postgres backend implement ResultStore and answer *)
(* alike, for any calls, keys and tags, driven by the same calls.          *)
(***************************************************************************)
EXTENDS Backends, TLAPS

\* What is true of the in-memory backend on its own is true of it here.
LEMMA MemorySpec == BothSpec => Spec
<1>1. BothInit => Init
  BY DEF BothInit
<1>2. [BothNext]_<<vars, pgVars>> => [Next]_vars
  BY DEF BothNext, RecordBoth, ReplyLost, PersistBoth, DeleteBoth, Next
<1>3. QED
  BY <1>1, <1>2, PTL DEF BothSpec, Spec

\* The row a key holds is of a call made under that key: storage/memory.py keys
\* its dict with the row's own cache_key.
THEOREM TypeCorrect == BothSpec => []TypeOK
<1>1. Init => TypeOK
  BY DEF Init, TypeOK
<1>2. TypeOK /\ [Next]_vars => TypeOK'
  <2> SUFFICES ASSUME TypeOK, [Next]_vars PROVE TypeOK'
    OBVIOUS
  <2>1. ASSUME NEW c \in Calls, RecordCall(c) PROVE TypeOK'
    BY <2>1, RecordingsAssumption DEF RecordCall, Write, TypeOK
  <2>2. ASSUME NEW t \in Tags, PersistWinners(t) PROVE TypeOK'
    BY <2>2 DEF PersistWinners, TypeOK
  <2>3. ASSUME NEW t \in Tags, DeleteExperiment(t) PROVE TypeOK'
    BY <2>3 DEF DeleteExperiment, TypeOK
  <2>4. CASE UNCHANGED vars
    BY <2>4 DEF vars, TypeOK
  <2>5. QED
    BY <2>1, <2>2, <2>3, <2>4 DEF Next
<1>3. QED
  BY <1>1, <1>2, MemorySpec, PTL DEF Spec

-----------------------------------------------------------------------------
\* What the cache answers after a row is written: the key of the row, if it had
\* no answer and the row is usable, and otherwise what it answered before.
LEMMA AnswerAfterWrite ==
    ASSUME TypeOK, NEW c \in Calls, RecordCall(c)
    PROVE  Answer' = IF Answer[KeyOf[c]] = NoRow /\ outcome[c] = "usable"
                     THEN [Answer EXCEPT ![KeyOf[c]] = c] ELSE Answer
<1>1. /\ KeyOf[c] \in Keys
      /\ c # NoRow
  BY RecordingsAssumption DEF Calls, NoRow
<1>2. /\ outcome' = outcome
      /\ rows' = [rows EXCEPT ![KeyOf[c]] = IF Holds(KeyOf[c]) THEN @ ELSE c]
  BY DEF RecordCall, Write
<1>3. rows \in [Keys -> Calls \cup {NoRow}]
  BY DEF TypeOK
<1>4. QED
  BY <1>1, <1>2, <1>3 DEF Answer, Holds

\* A step of the backend is a step of ResultStore, or changes nothing of it.
LEMMA StepRefines ==
    ASSUME TypeOK, [Next]_vars
    PROVE  [Store!Next]_(Store!vars)
<1> DEFINE Acked == {c \in recorded : outcome[c] = "usable"}
<1>1. ASSUME NEW c \in Calls, RecordCall(c) PROVE [Store!Next]_(Store!vars)
  <2>1. /\ Acked' = IF outcome[c] = "usable" THEN Acked \cup {c} ELSE Acked
        /\ KeyOf[c] \in Keys /\ c \in Store!Calls
    BY <1>1, RecordingsAssumption DEF RecordCall, Write, Calls, Store!Calls
  <2>2. CASE outcome[c] # "usable"
    <3>1. Answer' = Answer /\ Acked' = Acked
      BY <1>1, <2>1, <2>2, AnswerAfterWrite
    <3>2. QED
      BY <3>1 DEF Store!vars
  <2>3. CASE outcome[c] = "usable" /\ Answer[KeyOf[c]] = NoRow
    <3>1. Store!Answer(c)
      BY <1>1, <2>1, <2>3, AnswerAfterWrite DEF Store!Answer, Store!NoRow, NoRow
    <3>2. QED
      BY <2>1, <3>1 DEF Store!Next
  <2>4. CASE outcome[c] = "usable" /\ Answer[KeyOf[c]] # NoRow
    <3>1. Store!Acknowledge(c)
      BY <1>1, <2>1, <2>4, AnswerAfterWrite DEF Store!Acknowledge, Store!NoRow, NoRow
    <3>2. QED
      BY <2>1, <3>1 DEF Store!Next
  <2>5. QED
    BY <2>2, <2>3, <2>4
<1>2. ASSUME NEW t \in Tags, PersistWinners(t) PROVE [Store!Next]_(Store!vars)
  BY <1>2 DEF PersistWinners, Store!vars, Answer, Holds
<1>3. ASSUME NEW t \in Tags, DeleteExperiment(t) PROVE [Store!Next]_(Store!vars)
  <2>1. /\ Acked' = Acked
        /\ Answer' = [k \in Keys |->
             IF Answer[k] # NoRow /\ TagOf[Answer[k]] = t THEN NoRow ELSE Answer[k]]
    BY <1>3 DEF DeleteExperiment, Answer, Holds, TypeOK
  <2>2. Store!Purge(t)
    BY <2>1 DEF Store!Purge, Store!NoRow, NoRow
  <2>3. QED
    BY <2>2 DEF Store!Next
<1>4. CASE UNCHANGED vars
  BY <1>4 DEF vars, Store!vars, Answer, Holds
<1>5. QED
  BY <1>1, <1>2, <1>3, <1>4 DEF Next

\* record_call, prefetch_resume_cache, get_cached and delete_experiment of
\* storage/memory.py keep the promise of storage/base.py: a usable row is never
\* replaced by another call's, the usable row of a retry is never dropped, and
\* only the deletion of its own tag takes an answer away.
THEOREM Implements == BothSpec => KeepsPromise
<1>1. Init => Store!Init
  BY DEF Init, Store!Init, Answer, Holds, Store!NoRow, NoRow
<1>2. QED
  BY <1>1, TypeCorrect, StepRefines, MemorySpec, PTL DEF Spec, KeepsPromise, Store!Spec
-----------------------------------------------------------------------------
(* Postgres. *)

LEMMA PostgresSpec == BothSpec => Postgres!Spec
<1>1. BothInit => Postgres!Init
  BY DEF BothInit
<1>2. [BothNext]_<<vars, pgVars>> => [Postgres!Next]_(Postgres!vars)
  BY DEF BothNext, RecordBoth, ReplyLost, PersistBoth, DeleteBoth, Postgres!Next, Postgres!vars,
         Postgres!Calls, Calls, pgVars, vars
<1>3. QED
  BY <1>1, <1>2, PTL DEF BothSpec, Postgres!Spec

LEMMA PostgresTypeCorrect == BothSpec => []Postgres!TypeOK
<1>1. Postgres!Init => Postgres!TypeOK
  BY DEF Postgres!Init, Postgres!TypeOK, Postgres!Calls, Postgres!NoRow
<1>2. Postgres!TypeOK /\ [Postgres!Next]_(Postgres!vars) => Postgres!TypeOK'
  <2> SUFFICES ASSUME Postgres!TypeOK, [Postgres!Next]_(Postgres!vars) PROVE Postgres!TypeOK'
    OBVIOUS
  <2>1. ASSUME NEW c \in Postgres!Calls, Postgres!RecordCall(c) PROVE Postgres!TypeOK'
    BY <2>1, RecordingsAssumption
       DEF Postgres!RecordCall, Postgres!Return, Postgres!Upsert, Postgres!TypeOK, Postgres!Calls, Calls,
           Postgres!NoRow
  <2>2. ASSUME NEW c \in Postgres!Calls, Postgres!RecordCallRaises(c) PROVE Postgres!TypeOK'
    BY <2>2, RecordingsAssumption
       DEF Postgres!RecordCallRaises, Postgres!Upsert, Postgres!TypeOK, Postgres!Calls, Calls, Postgres!NoRow
  <2>3. ASSUME NEW t \in Tags, Postgres!PersistWinners(t) PROVE Postgres!TypeOK'
    BY <2>3 DEF Postgres!PersistWinners, Postgres!TypeOK
  <2>4. ASSUME NEW t \in Tags, Postgres!DeleteExperiment(t) PROVE Postgres!TypeOK'
    BY <2>4 DEF Postgres!DeleteExperiment, Postgres!TypeOK, Postgres!NoRow
  <2>5. CASE UNCHANGED Postgres!vars
    BY <2>5 DEF Postgres!vars, Postgres!TypeOK
  <2>6. QED
    BY <2>1, <2>2, <2>3, <2>4, <2>5 DEF Postgres!Next
<1>3. QED
  BY <1>1, <1>2, PostgresSpec, PTL DEF Postgres!Spec

\* What the cache answers after the server applied an upsert: the key of the row,
\* if it had no answer and the row is usable, and otherwise what it answered before.
LEMMA AnswerAfterUpsert ==
    ASSUME "short" \notin Outcomes, Postgres!TypeOK, NEW c \in Calls, outcome' = outcome,
           Postgres!Upsert(c, KeyOf[c], Postgres!Overwritable(KeyOf[c]))
    PROVE  Postgres!Answer' = IF Postgres!Answer[KeyOf[c]] = NoRow /\ outcome[c] = "usable"
                              THEN [Postgres!Answer EXCEPT ![KeyOf[c]] = c] ELSE Postgres!Answer
<1>1. KeyOf[c] \in Keys /\ c # NoRow
  BY RecordingsAssumption DEF Calls, NoRow
<1>2. pgRows \in [Keys -> Calls \cup {NoRow}]
  BY DEF Postgres!TypeOK, Postgres!NoRow, Postgres!Calls, NoRow, Calls
<1>3. \A d \in Calls : outcome[d] \in {"usable", "junk", "failed"}
  <2>1. \A d \in Calls : outcome[d] \in Outcomes
    BY DEF Postgres!TypeOK, Postgres!Calls, Calls
  <2>2. Outcomes \subseteq {"usable", "junk", "failed"}
    BY RecordingsAssumption
  <2>3. QED
    BY <2>1, <2>2
<1>4. pgRows[KeyOf[c]] # NoRow => pgRows[KeyOf[c]] \in Calls
  BY <1>1, <1>2
<1>5. pgRows' = [pgRows EXCEPT ![KeyOf[c]] =
          IF pgRows[KeyOf[c]] = NoRow \/ outcome[pgRows[KeyOf[c]]] # "usable" THEN c ELSE @]
  BY <1>3, <1>4 DEF Postgres!Upsert, Postgres!Overwritable, Postgres!NoRow, NoRow
<1>6. QED
  BY <1>1, <1>2, <1>5 DEF Postgres!Answer, Postgres!NoRow, NoRow

LEMMA PostgresStepRefines ==
    ASSUME "short" \notin Outcomes, Postgres!TypeOK, [Postgres!Next]_(Postgres!vars)
    PROVE  [Postgres!Store!Next]_(Postgres!Store!vars)
<1> DEFINE Acked == {c \in pgRecorded : outcome[c] = "usable"}
<1>1. ASSUME NEW c \in Calls, outcome' = outcome,
             Postgres!Upsert(c, KeyOf[c], Postgres!Overwritable(KeyOf[c])),
             \/ Acked' = IF outcome[c] = "usable" THEN Acked \cup {c} ELSE Acked
             \/ Acked' = Acked
      PROVE  [Postgres!Store!Next]_(Postgres!Store!vars)
  <2>1. KeyOf[c] \in Keys /\ c \in Postgres!Store!Calls
    BY RecordingsAssumption DEF Calls, Postgres!Store!Calls
  <2>2. CASE Postgres!Answer' = Postgres!Answer /\ Acked' = Acked
    BY <2>2 DEF Postgres!Store!vars
  <2>3. CASE outcome[c] = "usable" /\ Postgres!Answer[KeyOf[c]] = NoRow
    <3>1. Postgres!Store!Answer(c)
      BY <1>1, <2>1, <2>3, AnswerAfterUpsert DEF Postgres!Store!Answer, Postgres!Store!NoRow, NoRow
    <3>2. QED
      BY <2>1, <3>1 DEF Postgres!Store!Next
  <2>4. CASE outcome[c] = "usable" /\ Postgres!Answer[KeyOf[c]] # NoRow /\ Acked' = Acked \cup {c}
    <3>1. Postgres!Store!Acknowledge(c)
      BY <1>1, <2>1, <2>4, AnswerAfterUpsert DEF Postgres!Store!Acknowledge, Postgres!Store!NoRow, NoRow
    <3>2. QED
      BY <2>1, <3>1 DEF Postgres!Store!Next
  <2>5. QED
    BY <1>1, <2>2, <2>3, <2>4, AnswerAfterUpsert
<1>2. ASSUME NEW c \in Postgres!Calls, Postgres!RecordCall(c)
      PROVE  [Postgres!Store!Next]_(Postgres!Store!vars)
  <2>1. /\ c \in Calls /\ outcome' = outcome
        /\ Postgres!Upsert(c, KeyOf[c], Postgres!Overwritable(KeyOf[c]))
        /\ Acked' = IF outcome[c] = "usable" THEN Acked \cup {c} ELSE Acked
    BY <1>2 DEF Postgres!RecordCall, Postgres!Return, Postgres!Calls, Calls
  <2>2. QED
    BY <1>1, <2>1
<1>3. ASSUME NEW c \in Postgres!Calls, Postgres!RecordCallRaises(c)
      PROVE  [Postgres!Store!Next]_(Postgres!Store!vars)
  <2>1. /\ c \in Calls /\ outcome' = outcome /\ Acked' = Acked
    BY <1>3 DEF Postgres!RecordCallRaises, Postgres!Calls, Calls
  <2>2. CASE Postgres!Upsert(c, KeyOf[c], Postgres!Overwritable(KeyOf[c]))
    BY <1>1, <2>1, <2>2
  <2>3. CASE UNCHANGED pgRows
    BY <2>1, <2>3 DEF Postgres!Store!vars, Postgres!Answer
  <2>4. QED
    BY <1>3, <2>2, <2>3 DEF Postgres!RecordCallRaises
<1>4. ASSUME NEW t \in Tags, Postgres!PersistWinners(t)
      PROVE  [Postgres!Store!Next]_(Postgres!Store!vars)
  BY <1>4 DEF Postgres!PersistWinners, Postgres!Store!vars, Postgres!Answer
<1>5. ASSUME NEW t \in Tags, Postgres!DeleteExperiment(t)
      PROVE  [Postgres!Store!Next]_(Postgres!Store!vars)
  <2>1. /\ Acked' = Acked
        /\ Postgres!Answer' = [k \in Keys |->
             IF Postgres!Answer[k] # NoRow /\ TagOf[Postgres!Answer[k]] = t THEN NoRow ELSE Postgres!Answer[k]]
    BY <1>5 DEF Postgres!DeleteExperiment, Postgres!Answer, Postgres!NoRow, NoRow, Postgres!TypeOK
  <2>2. Postgres!Store!Purge(t)
    BY <2>1 DEF Postgres!Store!Purge, Postgres!Store!NoRow, NoRow
  <2>3. QED
    BY <2>2 DEF Postgres!Store!Next
<1>6. CASE UNCHANGED Postgres!vars
  BY <1>6 DEF Postgres!vars, Postgres!Store!vars, Postgres!Answer
<1>7. QED
  BY <1>2, <1>3, <1>4, <1>5, <1>6 DEF Postgres!Next

\* storage/postgres.py keeps the promise of storage/base.py, replies lost after the
\* server applied the statement included, wherever no response can be merely short:
\* the WHERE of its upsert lets a short row stand as if it were usable, which is
\* the one way in which it drops the usable row of a retry.
THEOREM PostgresImplements ==
    ASSUME "short" \notin Outcomes
    PROVE  BothSpec => PostgresKeepsPromise
<1>1. Postgres!Init => Postgres!Store!Init
  BY DEF Postgres!Init, Postgres!Store!Init, Postgres!Answer, Postgres!NoRow, Postgres!Store!NoRow
<1>2. Postgres!TypeOK /\ [Postgres!Next]_(Postgres!vars) => [Postgres!Store!Next]_(Postgres!Store!vars)
  BY PostgresStepRefines
<1>3. QED
  BY <1>1, <1>2, PostgresTypeCorrect, PostgresSpec, PTL
     DEF Postgres!Spec, PostgresKeepsPromise, Postgres!KeepsPromise, Postgres!Store!Spec

-----------------------------------------------------------------------------
(* The two side by side. *)

\* As long as no connection failed the tables are the dicts.
Twins == pgRaised = {} => rows = pgRows

LEMMA TwinsStay ==
    ASSUME "short" \notin Outcomes, TypeOK, Postgres!TypeOK, Twins, [BothNext]_<<vars, pgVars>>
    PROVE  Twins'
<1>1. ASSUME NEW c \in Calls, RecordBoth(c), pgRaised' = {} PROVE rows' = pgRows'
  <2>1. /\ pgRaised = {} /\ rows = pgRows
        /\ rows' = [rows EXCEPT ![KeyOf[c]] = IF Holds(KeyOf[c]) THEN @ ELSE c]
        /\ pgRows' = [rows EXCEPT ![KeyOf[c]] =
              IF @ = NoRow \/ Postgres!Overwritable(KeyOf[c]) THEN c ELSE @]
    BY <1>1 DEF RecordBoth, RecordCall, Write, Postgres!RecordCall, Postgres!Return, Postgres!Upsert,
       Postgres!NoRow, NoRow, Twins
  <2>2. KeyOf[c] \in Keys /\ rows[KeyOf[c]] \in Calls \cup {NoRow}
    BY RecordingsAssumption DEF TypeOK
  <2>3. rows[KeyOf[c]] # NoRow => outcome[rows[KeyOf[c]]] \in {"usable", "junk", "failed"}
    <3>1. rows[KeyOf[c]] # NoRow => outcome[rows[KeyOf[c]]] \in Outcomes
      BY <2>2 DEF TypeOK
    <3>2. Outcomes \subseteq {"usable", "junk", "failed"}
      BY RecordingsAssumption
    <3>3. QED
      BY <3>1, <3>2
  <2>4. (rows[KeyOf[c]] = NoRow \/ Postgres!Overwritable(KeyOf[c])) <=> ~Holds(KeyOf[c])
    BY <2>1, <2>3 DEF Postgres!Overwritable, Holds, Postgres!NoRow, NoRow
  <2>5. QED
    BY <2>1, <2>4
<1>2. ASSUME NEW c \in Calls, ReplyLost(c) PROVE pgRaised' # {}
  BY <1>2 DEF ReplyLost, Postgres!RecordCallRaises
<1>3. ASSUME NEW t \in Tags, PersistBoth(t), pgRaised' = {} PROVE rows' = pgRows'
  BY <1>3 DEF PersistBoth, PersistWinners, Postgres!PersistWinners, Twins
<1>4. ASSUME NEW t \in Tags, DeleteBoth(t), pgRaised' = {} PROVE rows' = pgRows'
  BY <1>4 DEF DeleteBoth, DeleteExperiment, Postgres!DeleteExperiment, Postgres!NoRow, NoRow, Twins
<1>5. CASE UNCHANGED <<vars, pgVars>>
  BY <1>5 DEF vars, pgVars, Twins
<1>6. QED
  BY <1>1, <1>2, <1>3, <1>4, <1>5 DEF BothNext, Twins

\* A consumer may exchange the backends, under the same hypothesis: the same calls,
\* retries and deletions leave the same rows to rank and the same answers to
\* resume from, as the contract tests of storage/base.py expect of every backend.
THEOREM BackendsAgree ==
    ASSUME "short" \notin Outcomes
    PROVE  BothSpec => []SameAnswers
<1>1. BothInit => Twins
  BY DEF BothInit, Init, Postgres!Init, Twins, NoRow, Postgres!NoRow
<1>2. TypeOK /\ Postgres!TypeOK /\ Twins /\ [BothNext]_<<vars, pgVars>> => Twins'
  BY TwinsStay
<1>3. Twins => SameAnswers
  BY DEF Twins, SameAnswers, Answer, Holds, Postgres!Answer, NoRow, Postgres!NoRow
<1>4. QED
  BY <1>1, <1>2, <1>3, TypeCorrect, PostgresTypeCorrect, PTL DEF BothSpec

===============================================================================
