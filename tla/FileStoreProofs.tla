---------------------------- MODULE FileStoreProofs ----------------------------
(***************************************************************************)
(* The file backend, for any calls, keys, tags and crashes: the committed  *)
(* index implements ResultStore, and query_rows agrees with it.  The lock  *)
(* makes whoever is inside an operation the only one, and what was written *)
(* but is not committed is its own.                                        *)
(***************************************************************************)
EXTENDS FileStore, SequenceTheorems, TLAPS

Line == Calls \cup {Torn, Garbage}

\* The row that query_rows yields for k from these lines is c's.
IsLast(log, k, c) ==
    \E i \in 1 .. Len(log) :
        /\ log[i] = c /\ c \in Calls /\ KeyOf[c] = k
        /\ \A j \in i + 1 .. Len(log) : ~(log[j] \in Calls /\ KeyOf[log[j]] = k)

\* As IndexIsView states of a key that the index answers.
Shows(log, k, c) == IsLast(log, k, c) \/ Contains(log, Garbage)

\* Where the lock is held.
Writing == {"append", "insert", "commit"}
Dropping == {"commit", "rmtree"}

\* The lock is held by whoever is inside an operation, and that is one at most.
LockMatches ==
    /\ \A c \in Calls : pc[c] \in Writing => locked
    /\ \A t \in Tags : dpc[t] \in Dropping => locked
    /\ \A c, d \in Calls : pc[c] \in Writing /\ pc[d] \in Writing => c = d
    /\ \A t, u \in Tags : dpc[t] \in Dropping /\ dpc[u] \in Dropping => t = u
    /\ \A c \in Calls, t \in Tags : ~(pc[c] \in Writing /\ dpc[t] \in Dropping)
    /\ \A t \in Tags : dpc[t] # "idle" => t \in Deletable

\* What the connection sees is what is committed, but for the transaction of the
\* one who is at its commit: the new answer of a key that had none, or the index
\* without a tag.
IndexMatches ==
    /\ \/ index = durable
       \/ \E c \in Calls : pc[c] = "commit"
       \/ \E t \in Tags : dpc[t] = "commit"
    /\ \A c \in Calls : pc[c] \in Writing => durable[KeyOf[c]] = NoRow
    /\ \A c \in Calls : pc[c] \in {"insert", "commit"} => outcome[c] = "usable"
    /\ \A c \in Calls : pc[c] = "commit" => index = [durable EXCEPT ![KeyOf[c]] = c]
    /\ \A t \in Tags : dpc[t] = "commit" =>
          index = [k \in Keys |->
                      IF durable[k] # NoRow /\ TagOf[durable[k]] = t THEN NoRow ELSE durable[k]]
    /\ \A t \in Tags : dpc[t] = "rmtree" =>
          \A k \in Keys : durable[k] # NoRow => TagOf[durable[k]] # t

\* Every committed answer is the row its tag shows, and so is the one that is
\* being committed.
LinesMatch ==
    /\ \A k \in Keys : durable[k] # NoRow => Shows(lines[TagOf[durable[k]]], k, durable[k])
    /\ \A c \in Calls : pc[c] \in {"insert", "commit"} => Shows(lines[TagOf[c]], KeyOf[c], c)

-----------------------------------------------------------------------------
(* Lines. *)

LEMMA LinesDiffer == Torn \notin Calls /\ Garbage \notin Calls /\ Torn # Garbage /\ NoRow \notin Calls
BY FileAssumption DEF Torn, Garbage, Calls, NoRow

\* What an append leaves, element by element.
LEMMA AppendedIs ==
    ASSUME NEW log \in Seq(Line), NEW line \in Calls \cup {Torn}
    PROVE  /\ Appended(log, line) \in Seq(Line)
           /\ Appended(log, line) # <<>>
           /\ \/ /\ Len(Appended(log, line)) = Len(log) + 1
                 /\ Appended(log, line)[Len(log) + 1] = line
                 /\ \A i \in 1 .. Len(log) : Appended(log, line)[i] = log[i]
              \/ /\ Len(log) > 0 /\ log[Len(log)] = Torn
                 /\ Len(Appended(log, line)) = Len(log)
                 /\ Appended(log, line)[Len(log)] = IF line = Torn THEN Torn ELSE Garbage
                 /\ \A i \in 1 .. Len(log) - 1 : Appended(log, line)[i] = log[i]
<1>1. Len(log) \in Nat
  BY LenProperties
<1>2. CASE log # <<>> /\ Last(log) = Torn
  <2> DEFINE new == IF line = Torn THEN Torn ELSE Garbage
  <2>1. Len(log) \in Nat \ {0}
    BY <1>2, EmptySeq
  <2>2. log[Len(log)] = Torn
    BY <1>2 DEF Last
  <2>3. \A i \in 1 .. Len(log) - 1 : log[i] \in Line
    BY <2>1, ElementOfSeq
  <2>4. 1 \in Int /\ Len(log) - 1 \in Int
    BY <2>1
  <2>5. /\ Front(log) \in Seq(Line)
        /\ Len(Front(log)) = Len(log) - 1
        /\ \A i \in 1 .. Len(log) - 1 : Front(log)[i] = log[i]
    <3>1. /\ SubSeq(log, 1, Len(log) - 1) \in Seq(Line)
          /\ Len(SubSeq(log, 1, Len(log) - 1)) =
                IF 1 <= Len(log) - 1 THEN Len(log) - 1 - 1 + 1 ELSE 0
          /\ \A i \in 1 .. Len(log) - 1 - 1 + 1 : SubSeq(log, 1, Len(log) - 1)[i] = log[1 + i - 1]
      BY <2>3, <2>4, SubSeqProperties
    <3>2. Len(log) - 1 - 1 + 1 = Len(log) - 1 /\ \A i \in 1 .. Len(log) - 1 : 1 + i - 1 = i
      BY <2>1
    <3>3. QED
      BY <2>1, <3>1, <3>2 DEF Front
  <2>6. new \in Line
    BY DEF Line
  <2>7. Appended(log, line) = Append(Front(log), new)
    BY <1>2 DEF Appended
  <2> HIDE DEF new
  <2>8. /\ Append(Front(log), new) \in Seq(Line)
        /\ Append(Front(log), new) # <<>>
        /\ Len(Append(Front(log), new)) = Len(Front(log)) + 1
        /\ \A i \in 1 .. Len(Front(log)) : Append(Front(log), new)[i] = Front(log)[i]
        /\ Append(Front(log), new)[Len(Front(log)) + 1] = new
    BY <2>5, <2>6, AppendProperties
  <2>9. Len(Front(log)) + 1 = Len(log)
    BY <2>1, <2>5
  <2>10. QED
    BY <2>1, <2>2, <2>5, <2>7, <2>8, <2>9 DEF new
<1>3. CASE ~(log # <<>> /\ Last(log) = Torn)
  <2>1. Appended(log, line) = Append(log, line) /\ line \in Line
    BY <1>3 DEF Appended, Line
  <2>2. QED
    BY <2>1, AppendProperties
<1>4. QED
  BY <1>2, <1>3

\* An append hides no row of another key, though it may swallow its own line.
LEMMA AppendShows ==
    ASSUME NEW log \in Seq(Line), NEW line \in Calls \cup {Torn}, NEW k, NEW c,
           Shows(log, k, c), line \in Calls => KeyOf[line] # k
    PROVE  Shows(Appended(log, line), k, c)
<1> DEFINE new == Appended(log, line)
<1>1. Len(log) \in Nat
  BY LenProperties
<1>2. \/ /\ Len(new) = Len(log) + 1
         /\ new[Len(log) + 1] = line
         /\ \A i \in 1 .. Len(log) : new[i] = log[i]
      \/ /\ Len(log) > 0 /\ log[Len(log)] = Torn
         /\ Len(new) = Len(log)
         /\ new[Len(log)] = IF line = Torn THEN Torn ELSE Garbage
         /\ \A i \in 1 .. Len(log) - 1 : new[i] = log[i]
  BY AppendedIs
<1> HIDE DEF new
<1>3. CASE Contains(log, Garbage)
  <2>1. PICK i \in 1 .. Len(log) : log[i] = Garbage
    BY <1>3 DEF Contains
  <2>2. i \in 1 .. Len(new) /\ new[i] = Garbage
    BY <1>1, <1>2, <2>1, LinesDiffer
  <2>3. QED
    BY <2>2 DEF Shows, Contains, new
<1>4. CASE IsLast(log, k, c)
  <2>1. PICK i \in 1 .. Len(log) :
           /\ log[i] = c /\ c \in Calls /\ KeyOf[c] = k
           /\ \A j \in i + 1 .. Len(log) : ~(log[j] \in Calls /\ KeyOf[log[j]] = k)
    BY <1>4 DEF IsLast
  <2>2. CASE /\ Len(new) = Len(log) + 1
             /\ new[Len(log) + 1] = line
             /\ \A j \in 1 .. Len(log) : new[j] = log[j]
    <3>1. i \in 1 .. Len(new) /\ new[i] = c
      BY <1>1, <2>1, <2>2
    <3>2. ASSUME NEW j \in i + 1 .. Len(new) PROVE ~(new[j] \in Calls /\ KeyOf[new[j]] = k)
      <4>1. CASE j = Len(log) + 1
        BY <2>2, <4>1
      <4>2. CASE j # Len(log) + 1
        BY <1>1, <2>1, <2>2, <4>2
      <4>3. QED
        BY <4>1, <4>2
    <3>3. QED
      BY <2>1, <3>1, <3>2 DEF Shows, IsLast, new
  <2>3. CASE /\ Len(log) > 0 /\ log[Len(log)] = Torn
             /\ Len(new) = Len(log)
             /\ new[Len(log)] = IF line = Torn THEN Torn ELSE Garbage
             /\ \A j \in 1 .. Len(log) - 1 : new[j] = log[j]
    <3>1. CASE line # Torn
      <4>1. Len(log) \in 1 .. Len(new) /\ new[Len(log)] = Garbage
        BY <1>1, <2>3, <3>1
      <4>2. QED
        BY <4>1 DEF Shows, Contains, new
    <3>2. CASE line = Torn
      <4>1. \A j \in 1 .. Len(log) : new[j] = log[j]
        BY <1>1, <2>3, <3>2
      <4>2. QED
        BY <2>1, <2>3, <4>1 DEF Shows, IsLast, new
    <3>3. QED
      BY <3>1, <3>2
  <2>4. QED
    BY <1>2, <2>2, <2>3
<1>5. QED
  BY <1>3, <1>4 DEF Shows

\* The line of a call is the last of its key, unless it was swallowed.
LEMMA OwnLineShows ==
    ASSUME NEW log \in Seq(Line), NEW c \in Calls
    PROVE  Shows(Appended(log, c), KeyOf[c], c)
<1> DEFINE new == Appended(log, c)
<1>1. Len(log) \in Nat
  BY LenProperties
<1>2. \/ Len(new) = Len(log) + 1 /\ new[Len(log) + 1] = c
      \/ Len(log) > 0 /\ Len(new) = Len(log) /\ new[Len(log)] = Garbage
  BY AppendedIs, LinesDiffer
<1> HIDE DEF new
<1>3. CASE Len(new) = Len(log) + 1 /\ new[Len(log) + 1] = c
  <2>1. Len(log) + 1 \in 1 .. Len(new) /\ (Len(log) + 1) + 1 .. Len(new) = {}
    BY <1>1, <1>3
  <2>2. QED
    BY <1>3, <2>1 DEF Shows, IsLast, new
<1>4. CASE Len(log) > 0 /\ Len(new) = Len(log) /\ new[Len(log)] = Garbage
  <2>1. Len(log) \in 1 .. Len(new)
    BY <1>1, <1>4
  <2>2. QED
    BY <1>4, <2>1 DEF Shows, Contains, new
<1>5. QED
  BY <1>2, <1>3, <1>4

\* The last line is the one that query_rows takes.
LEMMA LastIsRow ==
    ASSUME NEW t \in Tags, NEW k, NEW c, IsLast(lines[t], k, c), lines[t] \in Seq(Line)
    PROVE  Row(t, k) = c
<1> DEFINE I == {i \in 1 .. Len(lines[t]) : lines[t][i] \in Calls /\ KeyOf[lines[t][i]] = k}
<1>1. Len(lines[t]) \in Nat
  BY LenProperties
<1>2. PICK i \in 1 .. Len(lines[t]) :
         /\ lines[t][i] = c /\ c \in Calls /\ KeyOf[c] = k
         /\ \A j \in i + 1 .. Len(lines[t]) : ~(lines[t][j] \in Calls /\ KeyOf[lines[t][j]] = k)
  BY DEF IsLast
<1>3. i \in I /\ \A j \in I : i >= j
  BY <1>1, <1>2
<1>4. Max(I) = i
  <2>1. \A m \in I : (\A j \in I : m >= j) => m = i
    BY <1>1, <1>3
  <2> HIDE DEF I
  <2>2. QED
    BY <1>3, <2>1 DEF Max
<1>5. LastLine(t, k) = IF I # {} THEN Max(I) ELSE 0
  BY DEF LastLine, SelectLastInSeq
<1>6. LastLine(t, k) = i /\ i # 0
  BY <1>2, <1>3, <1>4, <1>5
<1>7. QED
  BY <1>2, <1>6 DEF Row

-----------------------------------------------------------------------------
(* Types. *)

PCs == {"idle", "ready", "append", "insert", "commit", "done", "failed"}
DPCs == {"idle", "commit", "rmtree", "done", "failed", "leftover"}

LEMMA KeysAndTags ==
    ASSUME NEW c \in Calls
    PROVE  KeyOf[c] \in Keys /\ TagOf[c] \in Tags
BY FileAssumption

\* The file of an experiment whose directory exists may hold anything.
LEMMA LogSet ==
    ASSUME lines \in [Tags -> Seq(Line)], \A t \in Tags : lines[t] # <<>> => t \in dirs,
           NEW u \in Tags, u \in dirs, NEW log \in Seq(Line), lines' = [lines EXCEPT ![u] = log]
    PROVE  lines' \in [Tags -> Seq(Line)] /\ \A t \in Tags : lines'[t] # <<>> => t \in dirs
<1>1. lines' \in [Tags -> Seq(Line)]
  OBVIOUS
<1>2. \A t \in Tags : t # u => lines'[t] = lines[t]
  OBVIOUS
<1>3. QED
  BY <1>1, <1>2

LEMMA StepTypes ==
    ASSUME TypeOK, [Next]_vars
    PROVE  TypeOK'
<1> USE DEF Goto, PCs, DPCs
<1>1. /\ outcome \in [Calls -> Outcomes] /\ pc \in [Calls -> PCs] /\ dpc \in [Tags -> DPCs]
      /\ locked \in BOOLEAN /\ dirs \subseteq Tags /\ lines \in [Tags -> Seq(Line)]
      /\ index \in [Keys -> Calls \cup {NoRow}] /\ durable \in [Keys -> Calls \cup {NoRow}]
      /\ crashes \in 0 .. MaxCrashes
      /\ \A t \in Tags : lines[t] # <<>> => t \in dirs
  BY DEF TypeOK, Line
<1>2. \A log \in Seq(Line), line \in Calls \cup {Torn} : Appended(log, line) \in Seq(Line)
  BY AppendedIs
<1>3. <<>> \in Seq(Line)
  BY EmptySeq
<1> SUFFICES /\ outcome' \in [Calls -> Outcomes] /\ pc' \in [Calls -> PCs] /\ dpc' \in [Tags -> DPCs]
             /\ locked' \in BOOLEAN /\ dirs' \subseteq Tags /\ lines' \in [Tags -> Seq(Line)]
             /\ index' \in [Keys -> Calls \cup {NoRow}] /\ durable' \in [Keys -> Calls \cup {NoRow}]
             /\ crashes' \in 0 .. MaxCrashes
             /\ \A t \in Tags : lines'[t] # <<>> => t \in dirs'
  BY DEF TypeOK, Line
<1> DEFINE Goal == /\ outcome' \in [Calls -> Outcomes] /\ pc' \in [Calls -> PCs] /\ dpc' \in [Tags -> DPCs]
                   /\ locked' \in BOOLEAN /\ dirs' \subseteq Tags /\ lines' \in [Tags -> Seq(Line)]
                   /\ index' \in [Keys -> Calls \cup {NoRow}] /\ durable' \in [Keys -> Calls \cup {NoRow}]
                   /\ crashes' \in 0 .. MaxCrashes
                   /\ \A t \in Tags : lines'[t] # <<>> => t \in dirs'
<1>4. ASSUME NEW c \in Calls, MakeDir(c) PROVE Goal
  BY <1>1, <1>4, KeysAndTags DEF MakeDir
<1>5. ASSUME NEW c \in Calls, Found(c) \/ LookUp(c) PROVE Goal
  BY <1>1, <1>5 DEF Found, LookUp
<1>6. ASSUME NEW c \in Calls, AppendLine(c) PROVE Goal
  <2>1. lines' = [lines EXCEPT ![TagOf[c]] = Appended(lines[TagOf[c]], c)] /\ TagOf[c] \in dirs
    BY <1>6 DEF AppendLine, WriteLine
  <2>2. Appended(lines[TagOf[c]], c) \in Seq(Line)
    BY <1>1, <1>2, KeysAndTags
  <2>3. lines' \in [Tags -> Seq(Line)] /\ \A t \in Tags : lines'[t] # <<>> => t \in dirs
    BY <1>1, <2>1, <2>2
  <2>4. QED
    BY <1>1, <1>6, <2>3 DEF AppendLine, WriteLine
<1>7. ASSUME NEW c \in Calls, AppendRaises(c) PROVE Goal
  <2>1. lines' \in [Tags -> Seq(Line)] /\ \A t \in Tags : lines'[t] # <<>> => t \in dirs
    <3>1. CASE UNCHANGED lines
      BY <1>1, <3>1
    <3>2. CASE TagOf[c] \in dirs /\ lines' = [lines EXCEPT ![TagOf[c]] = Appended(lines[TagOf[c]], Torn)]
      <4>1. TagOf[c] \in Tags /\ lines[TagOf[c]] \in Seq(Line)
        BY <1>1, KeysAndTags
      <4>2. Appended(lines[TagOf[c]], Torn) \in Seq(Line)
        BY <1>2, <4>1
      <4>3. QED
        BY <1>1, <3>2, <4>1, <4>2, LogSet
    <3>3. QED
      BY <1>7, <3>1, <3>2 DEF AppendRaises, CutLine
  <2>2. QED
    BY <1>1, <1>7, <2>1 DEF AppendRaises, CutLine
<1>8. ASSUME NEW c \in Calls, Insert(c) \/ Commit(c) \/ IndexRaises(c) PROVE Goal
  <2>1. CASE Insert(c)
    BY <1>1, <2>1, KeysAndTags DEF Insert
  <2>2. CASE Commit(c)
    BY <1>1, <2>2 DEF Commit
  <2>3. CASE IndexRaises(c)
    BY <1>1, <2>3, KeysAndTags DEF IndexRaises
  <2>4. QED
    BY <1>8, <2>1, <2>2, <2>3
<1>9. ASSUME NEW t \in Tags, DropIndex(t) PROVE Goal
  <2>1. index' \in [Keys -> Calls \cup {NoRow}]
    BY <1>1, <1>9 DEF DropIndex, DropEntries, DropFrom
  <2>2. QED
    BY <1>1, <1>9, <2>1 DEF DropIndex, DropEntries
<1>10. ASSUME NEW t \in Tags, CommitDrop(t) \/ RemoveTree(t) PROVE Goal
  <2>1. CASE CommitDrop(t)
    BY <1>1, <2>1 DEF CommitDrop
  <2>2. CASE RemoveTree(t)
    <3>1. lines' \in [Tags -> Seq(Line)] /\ \A u \in Tags : lines'[u] # <<>> => u \in dirs'
      BY <1>1, <1>3, <2>2 DEF RemoveTree
    <3>2. QED
      BY <1>1, <2>2, <3>1 DEF RemoveTree
  <2>3. QED
    BY <1>10, <2>1, <2>2
<1>11. ASSUME NEW t \in Tags, DeleteRaises(t) PROVE Goal
  BY <1>1, <1>3, <1>11 DEF DeleteRaises, CutOff
<1>12. CASE Crash
  <2>1. lines' \in [Tags -> Seq(Line)] /\ \A t \in Tags : lines'[t] # <<>> => t \in dirs
    <3>1. CASE UNCHANGED lines
      BY <1>1, <3>1
    <3>2. ASSUME NEW c \in Calls, TagOf[c] \in dirs,
                 lines' = [lines EXCEPT ![TagOf[c]] = Appended(lines[TagOf[c]], Torn)]
          PROVE  lines' \in [Tags -> Seq(Line)] /\ \A t \in Tags : lines'[t] # <<>> => t \in dirs
      <4>1. TagOf[c] \in Tags /\ lines[TagOf[c]] \in Seq(Line)
        BY <1>1, KeysAndTags
      <4>2. Appended(lines[TagOf[c]], Torn) \in Seq(Line)
        BY <1>2, <4>1
      <4>3. QED
        BY <1>1, <3>2, <4>1, <4>2, LogSet
    <3>3. ASSUME NEW t \in Tags, lines' = [lines EXCEPT ![t] = <<>>]
          PROVE  lines' \in [Tags -> Seq(Line)] /\ \A u \in Tags : lines'[u] # <<>> => u \in dirs
      BY <1>1, <1>3, <3>3
    <3>4. QED
      BY <1>12, <3>1, <3>2, <3>3 DEF Crash
  <2>2. crashes' \in 0 .. MaxCrashes
    BY <1>1, <1>12, FileAssumption DEF Crash
  <2>3. pc' \in [Calls -> PCs] /\ dpc' \in [Tags -> DPCs]
    BY <1>1, <1>12 DEF Crash, CutOff
  <2>4. QED
    BY <1>1, <1>12, <2>1, <2>2, <2>3 DEF Crash
<1>13. CASE UNCHANGED vars
  BY <1>1, <1>13 DEF vars
<1>14. QED
  BY <1>4, <1>5, <1>6, <1>7, <1>8, <1>9, <1>10, <1>11, <1>12, <1>13 DEF Next, RecordCall, DeleteExperiment

\* The lines of a tag are in its directory, and the index answers with calls.
THEOREM TypeCorrect == Spec => []TypeOK
<1>1. Init => TypeOK
  <2> SUFFICES ASSUME Init PROVE TypeOK
    OBVIOUS
  <2>1. /\ \A t \in Tags : lines[t] = <<>> /\ lines = [u \in Tags |-> <<>>]
        /\ <<>> \in Seq(Calls \cup {Torn, Garbage})
    BY EmptySeq DEF Init
  <2>2. crashes \in 0 .. MaxCrashes
    BY FileAssumption DEF Init
  <2>3. lines \in [Tags -> Seq(Calls \cup {Torn, Garbage})]
    BY <2>1 DEF Init
  <2>4. /\ outcome \in [Calls -> Outcomes] /\ locked \in BOOLEAN /\ dirs \subseteq Tags
        /\ index \in [Keys -> Calls \cup {NoRow}] /\ durable \in [Keys -> Calls \cup {NoRow}]
    BY DEF Init
  <2>5. /\ pc \in [Calls -> {"idle", "ready", "append", "insert", "commit", "done", "failed"}]
        /\ dpc \in [Tags -> {"idle", "commit", "rmtree", "done", "failed", "leftover"}]
    BY DEF Init
  <2>6. \A t \in Tags : lines[t] # <<>> => t \in dirs
    BY <2>1
  <2>7. QED
    BY <2>2, <2>3, <2>4, <2>5, <2>6 DEF TypeOK
<1>2. QED
  BY <1>1, StepTypes, PTL DEF Spec

-----------------------------------------------------------------------------
(* The lock. *)

\* The shape that the proofs of the steps rest on.
LEMMA Shapes ==
    ASSUME TypeOK
    PROVE  /\ outcome \in [Calls -> Outcomes] /\ pc \in [Calls -> PCs] /\ dpc \in [Tags -> DPCs]
           /\ lines \in [Tags -> Seq(Line)]
           /\ index \in [Keys -> Calls \cup {NoRow}] /\ durable \in [Keys -> Calls \cup {NoRow}]
BY DEF TypeOK, PCs, DPCs, Line

LEMMA LockHolds == Spec => []LockMatches
<1>1. Init => LockMatches
  BY DEF Init, LockMatches, Writing, Dropping
<1>2. TypeOK /\ LockMatches /\ [Next]_vars => LockMatches'
  <2> SUFFICES ASSUME TypeOK, LockMatches, [Next]_vars PROVE LockMatches'
    OBVIOUS
  <2>0. /\ outcome \in [Calls -> Outcomes] /\ pc \in [Calls -> PCs] /\ dpc \in [Tags -> DPCs]
    BY Shapes
  <2> USE <2>0 DEF LockMatches, Writing, Dropping, Goto
  <2>1. ASSUME NEW c \in Calls, MakeDir(c) PROVE LockMatches'
    BY <2>1 DEF MakeDir
  <2>2. ASSUME NEW c \in Calls, Found(c) PROVE LockMatches'
    BY <2>2 DEF Found
  <2>3. ASSUME NEW c \in Calls, LookUp(c) PROVE LockMatches'
    BY <2>3 DEF LookUp
  <2>4. ASSUME NEW c \in Calls, AppendLine(c) PROVE LockMatches'
    BY <2>4 DEF AppendLine, WriteLine
  <2>5. ASSUME NEW c \in Calls, AppendRaises(c) PROVE LockMatches'
    BY <2>5 DEF AppendRaises, CutLine
  <2>6. ASSUME NEW c \in Calls, Insert(c) PROVE LockMatches'
    BY <2>6 DEF Insert
  <2>7. ASSUME NEW c \in Calls, Commit(c) \/ IndexRaises(c) PROVE LockMatches'
    BY <2>7 DEF Commit, IndexRaises
  <2>8. ASSUME NEW t \in Tags, DropIndex(t) PROVE LockMatches'
    BY <2>8 DEF DropIndex, DropEntries
  <2>9. ASSUME NEW t \in Tags, CommitDrop(t) PROVE LockMatches'
    BY <2>9 DEF CommitDrop
  <2>10. ASSUME NEW t \in Tags, RemoveTree(t) \/ DeleteRaises(t) PROVE LockMatches'
    BY <2>10 DEF RemoveTree, DeleteRaises, CutOff
  <2>11. CASE Crash
    BY <2>11 DEF Crash, CutOff
  <2>12. CASE UNCHANGED vars
    BY <2>12 DEF vars
  <2>13. QED
    BY <2>1, <2>2, <2>3, <2>4, <2>5, <2>6, <2>7, <2>8, <2>9, <2>10, <2>11, <2>12 DEF Next, RecordCall, DeleteExperiment
<1>3. QED
  BY <1>1, <1>2, TypeCorrect, PTL DEF Spec

-----------------------------------------------------------------------------
(* The index. *)

LEMMA IndexHolds == Spec => []IndexMatches
<1>1. Init => IndexMatches
  BY DEF Init, IndexMatches, Writing
<1>2. TypeOK /\ LockMatches /\ IndexMatches /\ [Next]_vars => IndexMatches'
  <2> SUFFICES ASSUME TypeOK, LockMatches, IndexMatches, [Next]_vars PROVE IndexMatches'
    OBVIOUS
  <2>0. /\ outcome \in [Calls -> Outcomes] /\ pc \in [Calls -> PCs] /\ dpc \in [Tags -> DPCs]
        /\ index \in [Keys -> Calls \cup {NoRow}] /\ durable \in [Keys -> Calls \cup {NoRow}]
        /\ \A c \in Calls : KeyOf[c] \in Keys /\ TagOf[c] \in Tags
        /\ \A k \in Keys : durable[k] # NoRow => TagOf[durable[k]] \in Tags
    BY Shapes, KeysAndTags
  <2> USE <2>0 DEF LockMatches, IndexMatches, Writing, Dropping, Goto
  <2>1. ASSUME NEW c \in Calls, MakeDir(c) PROVE IndexMatches'
    BY <2>1 DEF MakeDir
  <2>2. ASSUME NEW c \in Calls, Found(c) PROVE IndexMatches'
    BY <2>2 DEF Found
  <2>3. ASSUME NEW c \in Calls, LookUp(c) PROVE IndexMatches'
    BY <2>3 DEF LookUp
  <2>4. ASSUME NEW c \in Calls, AppendLine(c) PROVE IndexMatches'
    BY <2>4 DEF AppendLine, WriteLine
  <2>5. ASSUME NEW c \in Calls, AppendRaises(c) PROVE IndexMatches'
    BY <2>5 DEF AppendRaises, CutLine
  <2>6. ASSUME NEW c \in Calls, Insert(c) PROVE IndexMatches'
    BY <2>6 DEF Insert
  <2>7. ASSUME NEW c \in Calls, Commit(c) PROVE IndexMatches'
    BY <2>7 DEF Commit
  <2>8. ASSUME NEW c \in Calls, IndexRaises(c) PROVE IndexMatches'
    BY <2>8 DEF IndexRaises
  <2>9. ASSUME NEW t \in Tags, DropIndex(t) PROVE IndexMatches'
    BY <2>9 DEF DropIndex, DropEntries, DropFrom
  <2>10. ASSUME NEW t \in Tags, CommitDrop(t) PROVE IndexMatches'
    BY <2>10 DEF CommitDrop
  <2>11. ASSUME NEW t \in Tags, RemoveTree(t) PROVE IndexMatches'
    BY <2>11 DEF RemoveTree
  <2>12. ASSUME NEW t \in Tags, DeleteRaises(t) PROVE IndexMatches'
    BY <2>12 DEF DeleteRaises, CutOff
  <2>13. CASE Crash
    BY <2>13 DEF Crash, CutOff
  <2>14. CASE UNCHANGED vars
    BY <2>14 DEF vars
  <2>15. QED
    BY <2>1, <2>2, <2>3, <2>4, <2>5, <2>6, <2>7, <2>8, <2>9, <2>10, <2>11, <2>12, <2>13, <2>14
       DEF Next, RecordCall, DeleteExperiment
<1>3. QED
  BY <1>1, <1>2, TypeCorrect, LockHolds, PTL DEF Spec

-----------------------------------------------------------------------------
(* The lines. *)

\* A step that leaves lines and committed index alone.
LEMMA LinesLeft ==
    ASSUME LinesMatch, UNCHANGED <<lines, durable>>,
           \A c \in Calls : pc'[c] \in {"insert", "commit"} => pc[c] \in {"insert", "commit"}
    PROVE  LinesMatch'
BY DEF LinesMatch

\* A line that was cut off hides no row.
LEMMA LinesTorn ==
    ASSUME TypeOK, LinesMatch, NEW t \in Tags, durable' = durable,
           lines' = [lines EXCEPT ![t] = Appended(lines[t], Torn)],
           \A c \in Calls : pc'[c] \in {"insert", "commit"} => pc[c] \in {"insert", "commit"}
    PROVE  LinesMatch'
<1>1. ASSUME NEW u \in Tags, NEW k, NEW c, Shows(lines[u], k, c) PROVE Shows(lines'[u], k, c)
  <2>1. lines[u] \in Seq(Line)
    BY Shapes
  <2>2. Shows(Appended(lines[u], Torn), k, c)
    BY <1>1, <2>1, AppendShows, LinesDiffer
  <2>3. lines'[u] = lines[u] \/ lines'[u] = Appended(lines[u], Torn)
    BY Shapes
  <2>4. QED
    BY <1>1, <2>2, <2>3
<1>2. \A k \in Keys : durable[k] # NoRow => TagOf[durable[k]] \in Tags
  BY Shapes, KeysAndTags
<1>3. QED
  BY <1>1, <1>2, KeysAndTags DEF LinesMatch

\* The lines of a tag go when nothing that is committed, or about to be, is of it.
LEMMA LinesCleared ==
    ASSUME TypeOK, LockMatches, IndexMatches, LinesMatch, NEW t \in Tags, dpc[t] = "rmtree",
           durable' = durable, lines' = [lines EXCEPT ![t] = <<>>],
           \A c \in Calls : pc'[c] \in {"insert", "commit"} => pc[c] \in {"insert", "commit"}
    PROVE  LinesMatch'
<1>1. \A c \in Calls : pc[c] \notin {"insert", "commit"}
  BY DEF LockMatches, Writing, Dropping
<1>2. \A k \in Keys : durable[k] # NoRow => TagOf[durable[k]] # t
  BY DEF IndexMatches
<1>3. \A k \in Keys : durable[k] # NoRow => TagOf[durable[k]] \in Tags
  BY Shapes, KeysAndTags
<1>4. \A u \in Tags \ {t} : lines'[u] = lines[u]
  BY Shapes
<1>5. QED
  BY <1>1, <1>2, <1>3, <1>4 DEF LinesMatch

\* The line of a call is of a key that nobody answers.
LEMMA LineAppended ==
    ASSUME TypeOK, LockMatches, IndexMatches, LinesMatch, NEW c \in Calls, AppendLine(c)
    PROVE  LinesMatch'
<1>1. /\ pc[c] = "append" /\ durable' = durable
      /\ lines' = [lines EXCEPT ![TagOf[c]] = Appended(lines[TagOf[c]], c)]
      /\ TagOf[c] \in Tags /\ lines[TagOf[c]] \in Seq(Line)
      /\ durable[KeyOf[c]] = NoRow
  BY Shapes, KeysAndTags DEF AppendLine, WriteLine, IndexMatches, Writing
<1>2. \A d \in Calls : pc'[d] \in {"insert", "commit"} => d = c
  BY <1>1, Shapes DEF AppendLine, WriteLine, Goto, LockMatches, Writing
<1>3. lines'[TagOf[c]] = Appended(lines[TagOf[c]], c)
      /\ \A u \in Tags \ {TagOf[c]} : lines'[u] = lines[u]
  BY <1>1, Shapes
<1>4. Shows(lines'[TagOf[c]], KeyOf[c], c)
  BY <1>1, <1>3, OwnLineShows
<1>5. ASSUME NEW k \in Keys, durable[k] # NoRow
      PROVE  Shows(lines'[TagOf[durable[k]]], k, durable[k])
  <2>1. /\ k # KeyOf[c] /\ TagOf[durable[k]] \in Tags
        /\ Shows(lines[TagOf[durable[k]]], k, durable[k])
    BY <1>1, <1>5, Shapes, KeysAndTags DEF LinesMatch
  <2>2. CASE TagOf[durable[k]] = TagOf[c]
    BY <1>1, <1>3, <2>1, <2>2, AppendShows
  <2>3. CASE TagOf[durable[k]] # TagOf[c]
    BY <1>3, <2>1, <2>3
  <2>4. QED
    BY <2>2, <2>3
<1>6. QED
  BY <1>1, <1>2, <1>4, <1>5 DEF LinesMatch

LEMMA LinesHold == Spec => []LinesMatch
<1>1. Init => LinesMatch
  BY DEF Init, LinesMatch
<1>2. TypeOK /\ LockMatches /\ IndexMatches /\ LinesMatch /\ [Next]_vars => LinesMatch'
  <2> SUFFICES ASSUME TypeOK, LockMatches, IndexMatches, LinesMatch, [Next]_vars PROVE LinesMatch'
    OBVIOUS
  <2>0. pc \in [Calls -> PCs]
    BY Shapes
  <2> USE <2>0
  <2>1. ASSUME NEW c \in Calls, MakeDir(c) \/ Found(c) \/ LookUp(c) \/ Insert(c) \/ IndexRaises(c)
        PROVE  LinesMatch'
    BY <2>1, LinesLeft DEF MakeDir, Found, LookUp, Insert, IndexRaises, Goto
  <2>2. ASSUME NEW c \in Calls, AppendRaises(c) PROVE LinesMatch'
    <3>1. /\ durable' = durable
          /\ \A d \in Calls : pc'[d] \in {"insert", "commit"} => pc[d] \in {"insert", "commit"}
      BY <2>2 DEF AppendRaises, CutLine, Goto
    <3>2. CASE UNCHANGED lines
      BY <3>1, <3>2, LinesLeft
    <3>3. CASE lines' = [lines EXCEPT ![TagOf[c]] = Appended(lines[TagOf[c]], Torn)]
      BY <3>1, <3>3, LinesTorn, KeysAndTags
    <3>4. QED
      BY <2>2, <3>2, <3>3 DEF AppendRaises, CutLine
  <2>3. ASSUME NEW c \in Calls, Commit(c) PROVE LinesMatch'
    <3>1. /\ pc[c] = "commit" /\ lines' = lines /\ durable' = [durable EXCEPT ![KeyOf[c]] = c]
          /\ \A d \in Calls : pc'[d] \in {"insert", "commit"} => pc[d] \in {"insert", "commit"}
      BY <2>3 DEF Commit, Goto, IndexMatches
    <3>2. Shows(lines[TagOf[c]], KeyOf[c], c)
      BY <3>1 DEF LinesMatch
    <3>3. \A k \in Keys : durable'[k] = IF k = KeyOf[c] THEN c ELSE durable[k]
      BY <3>1, Shapes
    <3>4. QED
      BY <3>1, <3>2, <3>3 DEF LinesMatch
  <2>4. ASSUME NEW t \in Tags, DropIndex(t) PROVE LinesMatch'
    BY <2>4, LinesLeft DEF DropIndex, DropEntries
  <2>5. ASSUME NEW t \in Tags, CommitDrop(t) PROVE LinesMatch'
    <3>1. /\ lines' = lines /\ pc' = pc
          /\ \A k \in Keys : durable'[k] \in {durable[k], NoRow}
      BY <2>5 DEF CommitDrop, IndexMatches
    <3>2. QED
      BY <3>1 DEF LinesMatch
  <2>6. ASSUME NEW t \in Tags, RemoveTree(t) PROVE LinesMatch'
    BY <2>6, LinesCleared DEF RemoveTree
  <2>7. ASSUME NEW t \in Tags, DeleteRaises(t) PROVE LinesMatch'
    BY <2>7, LinesLeft, LinesCleared DEF DeleteRaises
  <2>8. CASE Crash
    <3>1. /\ durable' = durable
          /\ \A d \in Calls : pc'[d] \in {"insert", "commit"} => pc[d] \in {"insert", "commit"}
      BY <2>8 DEF Crash
    <3>2. CASE UNCHANGED lines
      BY <3>1, <3>2, LinesLeft
    <3>3. ASSUME NEW c \in Calls, lines' = [lines EXCEPT ![TagOf[c]] = Appended(lines[TagOf[c]], Torn)]
          PROVE  LinesMatch'
      BY <3>1, <3>3, LinesTorn, KeysAndTags
    <3>4. ASSUME NEW t \in Tags, dpc[t] = "rmtree", lines' = [lines EXCEPT ![t] = <<>>]
          PROVE  LinesMatch'
      BY <3>1, <3>4, LinesCleared
    <3>5. QED
      BY <2>8, <3>2, <3>3, <3>4 DEF Crash
  <2>9. CASE UNCHANGED vars
    BY <2>9, LinesLeft DEF vars
  <2>10. QED
    BY <2>1, <2>2, <2>3, <2>4, <2>5, <2>6, <2>7, <2>8, <2>9, LineAppended DEF Next, RecordCall, DeleteExperiment
<1>3. QED
  BY <1>1, <1>2, TypeCorrect, LockHolds, IndexHolds, PTL DEF Spec

\* The two halves of storage/file.py agree: of a key the index answers, query_rows
\* yields the row that answers, though the index is committed after the line, other
\* calls append to the same file, an append can be cut off by a crash, and a
\* deletion drops the index before the file.
THEOREM IndexShowsRows == Spec => []IndexIsView
<1>1. TypeOK /\ IndexMatches /\ LinesMatch => IndexIsView
  <2> SUFFICES ASSUME TypeOK, IndexMatches, LinesMatch, NEW k \in Keys, index[k] # NoRow
               PROVE  Row(TagOf[index[k]], k) = index[k] \/ Contains(lines[TagOf[index[k]]], Garbage)
    BY DEF IndexIsView
  <2>1. Shows(lines[TagOf[index[k]]], k, index[k])
    <3>1. CASE index[k] = durable[k]
      BY <3>1 DEF LinesMatch
    <3>2. ASSUME NEW c \in Calls, pc[c] = "commit"
          PROVE  Shows(lines[TagOf[index[k]]], k, index[k])
      <4>1. index[k] = IF k = KeyOf[c] THEN c ELSE durable[k]
        BY <3>2, Shapes DEF IndexMatches
      <4>2. Shows(lines[TagOf[c]], KeyOf[c], c)
        BY <3>2 DEF LinesMatch
      <4>3. QED
        BY <3>1, <4>1, <4>2
    <3>3. ASSUME NEW t \in Tags, dpc[t] = "commit" PROVE index[k] = durable[k]
      BY <3>3 DEF IndexMatches
    <3>4. QED
      BY <3>1, <3>2, <3>3 DEF IndexMatches
  <2>2. TagOf[index[k]] \in Tags /\ lines[TagOf[index[k]]] \in Seq(Line)
    BY Shapes, KeysAndTags
  <2>3. QED
    BY <2>1, <2>2, LastIsRow DEF Shows
<1>2. QED
  BY <1>1, TypeCorrect, IndexHolds, LinesHold, PTL

-----------------------------------------------------------------------------
(* The promise. *)

LEMMA StepRefines ==
    ASSUME TypeOK, LockMatches, IndexMatches, [Next]_vars
    PROVE  [Store!Next]_(Store!vars)
<1> DEFINE Acked == {c \in Calls : pc[c] = "done" /\ outcome[c] = "usable"}
<1>0. pc \in [Calls -> PCs] /\ Store!Calls = Calls /\ Store!NoRow = NoRow
  BY Shapes DEF Store!Calls, Calls, Store!NoRow, NoRow
<1>1. CASE durable' = durable /\ Acked' = Acked
  BY <1>1 DEF Store!vars
<1>2. ASSUME NEW c \in Calls, MakeDir(c) \/ LookUp(c) \/ AppendRaises(c) \/ Insert(c) \/ IndexRaises(c)
      PROVE  durable' = durable /\ Acked' = Acked
  BY <1>0, <1>2 DEF MakeDir, LookUp, AppendRaises, CutLine, Insert, IndexRaises, Goto
<1>3. ASSUME NEW c \in Calls, AppendLine(c) PROVE durable' = durable /\ Acked' = Acked
  BY <1>0, <1>3 DEF AppendLine, WriteLine, Goto
<1>4. ASSUME NEW c \in Calls, Found(c) PROVE [Store!Next]_(Store!vars)
  <2>1. /\ durable' = durable /\ outcome' = outcome /\ pc' = [pc EXCEPT ![c] = "done"] /\ pc[c] = "ready"
        /\ index[KeyOf[c]] # NoRow /\ ~locked
    BY <1>4 DEF Found, Goto
  <2>2. durable[KeyOf[c]] # NoRow
    <3>1. index = durable
      BY <2>1 DEF IndexMatches, LockMatches, Writing, Dropping
    <3>2. QED
      BY <2>1, <3>1
  <2>3. Acked' = IF outcome[c] = "usable" THEN Acked \cup {c} ELSE Acked
    BY <1>0, <2>1
  <2>4. CASE outcome[c] = "usable"
    <3>1. Store!Acknowledge(c)
      BY <1>0, <2>1, <2>2, <2>3, <2>4 DEF Store!Acknowledge
    <3>2. QED
      BY <1>0, <3>1 DEF Store!Next
  <2>5. CASE outcome[c] # "usable"
    BY <1>1, <2>1, <2>3, <2>5
  <2>6. QED
    BY <2>4, <2>5
<1>5. ASSUME NEW c \in Calls, Commit(c) PROVE [Store!Next]_(Store!vars)
  <2>1. /\ outcome' = outcome /\ pc' = [pc EXCEPT ![c] = "done"] /\ pc[c] = "commit"
        /\ outcome[c] = "usable" /\ durable[KeyOf[c]] = NoRow
        /\ durable' = [durable EXCEPT ![KeyOf[c]] = c]
    BY <1>5 DEF Commit, Goto, IndexMatches, Writing
  <2>2. Acked' = Acked \cup {c}
    BY <1>0, <2>1
  <2>3. Store!Answer(c)
    BY <1>0, <2>1, <2>2 DEF Store!Answer
  <2>4. QED
    BY <1>0, <2>3 DEF Store!Next
<1>6. ASSUME NEW t \in Tags, DropIndex(t) \/ RemoveTree(t) \/ DeleteRaises(t)
      PROVE  durable' = durable /\ Acked' = Acked
  BY <1>6 DEF DropIndex, DropEntries, RemoveTree, DeleteRaises
<1>7. ASSUME NEW t \in Tags, CommitDrop(t) PROVE [Store!Next]_(Store!vars)
  <2>1. /\ Acked' = Acked /\ t \in Deletable
        /\ durable' = [k \in Keys |->
              IF durable[k] # NoRow /\ TagOf[durable[k]] = t THEN NoRow ELSE durable[k]]
    BY <1>7 DEF CommitDrop, IndexMatches, LockMatches
  <2>2. Store!Purge(t)
    BY <1>0, <2>1 DEF Store!Purge
  <2>3. QED
    BY <2>1, <2>2 DEF Store!Next
<1>8. CASE Crash
  <2>1. durable' = durable /\ Acked' = Acked
    BY <1>0, <1>8 DEF Crash
  <2>2. QED
    BY <1>1, <2>1
<1>9. CASE UNCHANGED vars
  BY <1>9 DEF vars, Store!vars
<1>10. QED
  BY <1>1, <1>2, <1>3, <1>4, <1>5, <1>6, <1>7, <1>8, <1>9 DEF Next, RecordCall, DeleteExperiment

\* The committed index of storage/file.py keeps the promise of storage/base.py
\* across crashes and whatever the file system and SQLite raise: record_call
\* returns from a usable row only when its key is answered for good, by that row
\* or by an earlier one, and only delete_experiment of its tag takes an answer back.
THEOREM FileImplements == Spec => KeepsPromise
<1>1. Init => Store!Init
  BY DEF Init, Store!Init, Store!NoRow, NoRow
<1>2. TypeOK /\ LockMatches /\ IndexMatches /\ [Next]_vars => [Store!Next]_(Store!vars)
  BY StepRefines
<1>3. QED
  BY <1>1, <1>2, TypeCorrect, LockHolds, IndexHolds, PTL DEF Spec, KeepsPromise, Store!Spec

===============================================================================
