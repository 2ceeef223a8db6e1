------------------------------ MODULE FileStore ------------------------------
(***************************************************************************)
(* storage/file.py: per tag a directory with an append-only results.jsonl, *)
(* and one SQLite index of the usable rows of all tags.  One asyncio.Lock  *)
(* is held across the awaits of an operation, so what interleaves is what  *)
(* comes before it (the mkdir) and what a crash or an exception cuts off:  *)
(* the appended line without its index entry, the index insert without its *)
(* commit, the dropped index without the removed directory.                *)
(***************************************************************************)
EXTENDS Integers, Sequences, SequencesExt

CONSTANTS NCalls, Keys, Tags, KeyOf, TagOf,
    Outcomes,     \* how a row can come out
    Deletable,    \* the tags that delete_experiment is called for
    MaxCrashes    \* bound on the crashes explored

Calls == 1 .. NCalls
NoRow == 0

ASSUME FileAssumption ==
    /\ NCalls \in Nat
    /\ KeyOf \in [Calls -> Keys]
    /\ TagOf \in [Calls -> Tags]
    /\ Outcomes \subseteq {"usable", "failed"}
    /\ Deletable \subseteq Tags
    /\ MaxCrashes \in Nat

\* What a line of results.jsonl can be, besides the row of a call: the beginning
\* of a row without its newline, and a line no decoder accepts.
Torn == -1
Garbage == -2

VARIABLES
    outcome,    \* how each call comes out
    pc,         \* where each record_call is
    dpc,        \* where the delete_experiment of each tag is
    locked,     \* _lock is held
    dirs,       \* the tag directories on disk
    lines,      \* tag -> the lines of its results.jsonl
    index,      \* resume_cache as the connection sees it: key -> call
    durable,    \* resume_cache as last committed
    crashes

vars == <<outcome, pc, dpc, locked, dirs, lines, index, durable, crashes>>

Init ==
    /\ outcome \in [Calls -> Outcomes]
    /\ pc = [c \in Calls |-> "idle"]
    /\ dpc = [t \in Tags |-> "idle"]
    /\ locked = FALSE
    /\ dirs = {}
    /\ lines = [t \in Tags |-> <<>>]
    /\ index = [k \in Keys |-> NoRow]
    /\ durable = index
    /\ crashes = 0

Goto(c, label) == pc' = [pc EXCEPT ![c] = label]

\* What an append of a line leaves: a line torn before swallows the new one.
Appended(log, line) ==
    IF log # <<>> /\ Last(log) = Torn
    THEN Append(Front(log), IF line = Torn THEN Torn ELSE Garbage)
    ELSE Append(log, line)

-----------------------------------------------------------------------------
\* record_call up to the lock: the tag's directory exists.
MakeDir(c) ==
    /\ pc[c] = "idle"
    /\ dirs' = dirs \cup {TagOf[c]}
    /\ Goto(c, "ready")
    /\ UNCHANGED <<outcome, dpc, locked, lines, index, durable, crashes>>

\* Under the lock the index answers: a key it knows is left alone.
Found(c) ==
    /\ pc[c] = "ready"
    /\ ~locked
    /\ index[KeyOf[c]] # NoRow
    /\ Goto(c, "done")
    /\ UNCHANGED <<outcome, dpc, locked, dirs, lines, index, durable, crashes>>

\* Slip: the lock is not held from the look-up to the append.
LookUpUnlocked(c) ==
    /\ pc[c] = "ready"
    /\ ~locked
    /\ index[KeyOf[c]] = NoRow
    /\ Goto(c, "append")
    /\ UNCHANGED <<outcome, dpc, locked, dirs, lines, index, durable, crashes>>

LookUp(c) ==
    /\ pc[c] = "ready"
    /\ ~locked
    /\ index[KeyOf[c]] = NoRow
    /\ locked' = TRUE
    /\ Goto(c, "append")
    /\ UNCHANGED <<outcome, dpc, dirs, lines, index, durable, crashes>>

WriteLine(c) ==
    /\ pc[c] = "append"
    /\ lines' = [lines EXCEPT ![TagOf[c]] = Appended(@, c)]
    /\ IF outcome[c] = "usable"
       THEN Goto(c, "insert") /\ UNCHANGED locked
       ELSE Goto(c, "done") /\ locked' = FALSE
    /\ UNCHANGED <<outcome, dpc, dirs, index, durable, crashes>>

\* Slip: the file is taken to be there still.
AppendLineAnywhere(c) == WriteLine(c)

\* The line is appended; only a usable row goes on to the index.
AppendLine(c) == TagOf[c] \in dirs /\ WriteLine(c)

CutLine(c) ==
    /\ pc[c] = "append"
    /\ \/ UNCHANGED lines
       \/ /\ TagOf[c] \in dirs
          /\ lines' = [lines EXCEPT ![TagOf[c]] = Appended(@, Torn)]
    /\ Goto(c, "failed")
    /\ UNCHANGED <<outcome, dpc, dirs, index, durable, crashes>>

\* Slip: an exception leaves the lock held.
AppendRaisesLocked(c) == CutLine(c) /\ UNCHANGED locked

\* The file cannot be opened or written: the directory was deleted since the
\* mkdir, or the disk refuses, perhaps after a part of the line.
AppendRaises(c) == CutLine(c) /\ locked' = FALSE

\* INSERT OR IGNORE, in the connection's open transaction.
Insert(c) ==
    /\ pc[c] = "insert"
    /\ index' = [index EXCEPT ![KeyOf[c]] = IF @ = NoRow THEN c ELSE @]
    /\ Goto(c, "commit")
    /\ UNCHANGED <<outcome, dpc, locked, dirs, lines, durable, crashes>>

Commit(c) ==
    /\ pc[c] = "commit"
    /\ durable' = index
    /\ locked' = FALSE
    /\ Goto(c, "done")
    /\ UNCHANGED <<outcome, dpc, dirs, lines, index, crashes>>

\* The index write raises (the retries on a locked database are used up), or
\* the commit does and SQLite rolls the transaction back.
IndexRaises(c) ==
    /\ pc[c] \in {"insert", "commit"}
    /\ index' = durable
    /\ locked' = FALSE
    /\ Goto(c, "failed")
    /\ UNCHANGED <<outcome, dpc, dirs, lines, durable, crashes>>

-----------------------------------------------------------------------------
DropFrom(kept) ==
    [k \in Keys |-> IF index[k] # NoRow /\ TagOf[index[k]] \notin kept THEN NoRow ELSE index[k]]

DropEntries(t, kept) ==
    /\ dpc[t] = "idle"
    /\ t \in Deletable
    /\ ~locked
    /\ locked' = TRUE
    /\ index' = DropFrom(kept)
    /\ dpc' = [dpc EXCEPT ![t] = "commit"]
    /\ UNCHANGED <<outcome, pc, dirs, lines, durable, crashes>>

\* Slip: the whole index is dropped.
DropIndexWhole(t) == DropEntries(t, {})

\* delete_experiment under the lock, first the index entries of the tag.
DropIndex(t) == DropEntries(t, Tags \ {t})

CommitDrop(t) ==
    /\ dpc[t] = "commit"
    /\ durable' = index
    /\ dpc' = [dpc EXCEPT ![t] = "rmtree"]
    /\ UNCHANGED <<outcome, pc, locked, dirs, lines, index, crashes>>

\* Then the directory, with its lines.
RemoveTree(t) ==
    /\ dpc[t] = "rmtree"
    /\ dirs' = dirs \ {t}
    /\ lines' = [lines EXCEPT ![t] = <<>>]
    /\ locked' = FALSE
    /\ dpc' = [dpc EXCEPT ![t] = "done"]
    /\ UNCHANGED <<outcome, pc, index, durable, crashes>>

\* Where a deletion cut off after its commit or before it is left.
CutOff(label) == IF label = "rmtree" THEN "leftover" ELSE "failed"

\* The delete raises.  rmtree may have removed the results file by then.
DeleteRaises(t) ==
    /\ dpc[t] \in {"commit", "rmtree"}
    /\ index' = durable
    /\ lines' \in {lines, IF dpc[t] = "rmtree" THEN [lines EXCEPT ![t] = <<>>] ELSE lines}
    /\ locked' = FALSE
    /\ dpc' = [dpc EXCEPT ![t] = CutOff(@)]
    /\ UNCHANGED <<outcome, pc, dirs, durable, crashes>>

\* The process dies; an append under way may leave a part of its line.
Crash ==
    /\ crashes < MaxCrashes
    /\ crashes' = crashes + 1
    /\ \/ UNCHANGED lines
       \/ \E c \in Calls :
            /\ pc[c] = "append" /\ TagOf[c] \in dirs
            /\ lines' = [lines EXCEPT ![TagOf[c]] = Appended(@, Torn)]
       \/ \E t \in Tags :
            /\ dpc[t] = "rmtree"
            /\ lines' = [lines EXCEPT ![t] = <<>>]
    /\ index' = durable
    /\ locked' = FALSE
    /\ pc' = [c \in Calls |-> IF pc[c] \in {"idle", "done", "failed"} THEN pc[c] ELSE "failed"]
    /\ dpc' = [t \in Tags |-> IF dpc[t] \in {"commit", "rmtree"} THEN CutOff(dpc[t]) ELSE dpc[t]]
    /\ UNCHANGED <<outcome, dirs, durable>>

RecordCall(c) ==
    \/ MakeDir(c) \/ Found(c) \/ LookUp(c) \/ AppendLine(c) \/ AppendRaises(c)
    \/ Insert(c) \/ Commit(c) \/ IndexRaises(c)

DeleteExperiment(t) ==
    DropIndex(t) \/ CommitDrop(t) \/ RemoveTree(t) \/ DeleteRaises(t)

Next ==
    \/ Crash
    \/ \E c \in Calls : RecordCall(c)
    \/ \E t \in Tags : DeleteExperiment(t)

Spec == Init /\ [][Next]_vars

\* The lock wakes its waiters in order, and every file and index call ends.
Fairness ==
    /\ \A c \in Calls : SF_vars(RecordCall(c))
    /\ \A t \in Deletable : SF_vars(DeleteExperiment(t))
FairSpec == Spec /\ Fairness

-----------------------------------------------------------------------------
(* Properties *)

\* The place of the last line of a key in a tag's file, 0 without one.
LastLine(t, k) ==
    SelectLastInSeq(lines[t], LAMBDA c : c \in Calls /\ KeyOf[c] = k)

\* query_rows: the last decodable line of each key wins.
Row(t, k) == IF LastLine(t, k) = 0 THEN NoRow ELSE lines[t][LastLine(t, k)]

TypeOK ==
    /\ outcome \in [Calls -> Outcomes]
    /\ pc \in [Calls -> {"idle", "ready", "append", "insert", "commit", "done", "failed"}]
    /\ dpc \in [Tags -> {"idle", "commit", "rmtree", "done", "failed", "leftover"}]
    /\ locked \in BOOLEAN
    /\ dirs \subseteq Tags
    /\ lines \in [Tags -> Seq(Calls \cup {Torn, Garbage})]
    /\ index \in [Keys -> Calls \cup {NoRow}]
    /\ durable \in [Keys -> Calls \cup {NoRow}]
    /\ crashes \in 0 .. MaxCrashes
    /\ \A t \in Tags : lines[t] # <<>> => t \in dirs

\* What query_rows yields agrees with the index: the row that answers a key is
\* the last line of that key under its tag.  No line appended by a racing call,
\* left by a crash or added before a deletion hides it; only a line that a torn
\* one swallowed is lost.
IndexIsView ==
    \A k \in Keys : index[k] # NoRow =>
        LET t == TagOf[index[k]] IN
        Row(t, k) = index[k] \/ Contains(lines[t], Garbage)

Store == INSTANCE ResultStore WITH
    answer <- durable, acked <- {c \in Calls : pc[c] = "done" /\ outcome[c] = "usable"}

\* The promise of storage/base.py, kept by the committed index across crashes
\* and index errors.
KeepsPromise == Store!Spec

\* No operation waits for the lock forever, whatever raises while it is held.
OperationsEnd ==
    /\ \A c \in Calls : <>(pc[c] \in {"done", "failed"})
    /\ \A t \in Deletable : <>(dpc[t] \in {"done", "failed", "leftover"})

\* What query_rows yields for a key under a tag is a success.
Succeeded(t, k) == Row(t, k) # NoRow /\ outcome[Row(t, k)] = "usable"

\* base.py:12-18: the stored success is never overwritten: a key that query_rows
\* has succeeded for never turns into a failure, unless its tag is being deleted.
SuccessStays ==
    [][\A t \in Tags, k \in Keys :
          Succeeded(t, k) /\ dpc[t] = "idle" => Succeeded(t, k)']_vars
===============================================================================
