----------------------------- MODULE SharedCache -----------------------------
(***************************************************************************)
(* One Benchmark whose run_phase is called several times at once: the      *)
(* tasks of one event loop share _initialized and the resume cache.  Each  *)
(* finds the flag unset on its own, so that several of them populate the   *)
(* cache, one while another already makes calls and puts their answers in. *)
(* A step is what a task does between two awaits.                          *)
(***************************************************************************)
EXTENDS FiniteSets

CONSTANTS
    Tasks,   \* concurrent run_phase calls
    Keys     \* the cache keys they ask for, each any of them, in any order

Free == "free"

ASSUME SharedCacheAssumption == Free \notin Tasks

VARIABLES
    stored,        \* keys with a usable row in storage
    entries,      \* ResumeCache._entries
    initialized,  \* Benchmark._initialized
    lock,         \* who holds ResumeCache._lock
    pc,
    fetched,      \* what a task's prefetch_resume_cache returned
    asked,        \* the keys a task has asked for, the last one current
    current,
    known         \* history: keys in storage at the start or ever in the cache

cacheVars == <<stored, entries, initialized, lock, pc, fetched, asked, current, known>>

TaskGoes(t, l) == pc' = [pc EXCEPT ![t] = l]

-----------------------------------------------------------------------------
CacheInit ==
    /\ stored \in SUBSET Keys
    /\ entries = {}
    /\ initialized = FALSE
    /\ lock = Free
    /\ pc = [t \in Tasks |-> "start"]
    /\ fetched = [t \in Tasks |-> {}]
    /\ asked = [t \in Tasks |-> {}]
    /\ current = [t \in Tasks |-> Free]
    /\ known = stored

\* Slip: the flag is set before the cache is populated.
BeginInitializeMarked(t) ==
    /\ pc[t] = "start"
    /\ IF initialized THEN TaskGoes(t, "ask") ELSE TaskGoes(t, "connect")
    /\ initialized' = TRUE
    /\ UNCHANGED <<stored, entries, lock, fetched, asked, current, known>>

\* run_phase, initialize: the flag decides, and storage.initialize is awaited.
BeginInitialize(t) ==
    /\ pc[t] = "start"
    /\ IF initialized THEN TaskGoes(t, "ask") ELSE TaskGoes(t, "connect")
    /\ UNCHANGED <<stored, entries, initialized, lock, fetched, asked, current, known>>

\* Slip: the rows are fetched without the lock.
TakeLockLate(t) ==
    /\ pc[t] = "connect"
    /\ TaskGoes(t, "fetch")
    /\ UNCHANGED <<stored, entries, initialized, lock, fetched, asked, current, known>>

\* storage.initialize returns and populate_from_storage takes the lock.
TakeLock(t) ==
    /\ pc[t] = "connect"
    /\ lock = Free
    /\ lock' = t
    /\ TaskGoes(t, "fetch")
    /\ UNCHANGED <<stored, entries, initialized, fetched, asked, current, known>>

\* The backend reads the usable rows.
Fetch(t) ==
    /\ pc[t] = "fetch"
    /\ fetched' = [fetched EXCEPT ![t] = stored]
    /\ TaskGoes(t, "assign")
    /\ UNCHANGED <<stored, entries, initialized, lock, asked, current, known>>

\* They replace the cache, the lock is freed, initialize returns.
Assign(t) ==
    /\ pc[t] = "assign"
    /\ entries' = fetched[t]
    /\ known' = known \cup fetched[t]
    /\ lock' = Free
    /\ initialized' = TRUE
    /\ TaskGoes(t, "ask")
    /\ UNCHANGED <<stored, fetched, asked, current>>

\* storage.initialize or the prefetch raises: run_phase ends, its lock freed.
InitializeRaises(t) ==
    /\ pc[t] \in {"connect", "fetch"}
    /\ lock' = IF lock = t THEN Free ELSE lock
    /\ TaskGoes(t, "ended")
    /\ UNCHANGED <<stored, entries, initialized, fetched, asked, current, known>>

\* get: a hit answers, a miss makes the call.
Ask(t, k) ==
    /\ pc[t] = "ask"
    /\ lock = Free
    /\ k \notin asked[t]
    /\ asked' = [asked EXCEPT ![t] = @ \cup {k}]
    /\ current' = [current EXCEPT ![t] = k]
    /\ IF k \in entries THEN TaskGoes(t, "ask") ELSE TaskGoes(t, "call")
    /\ UNCHANGED <<stored, entries, initialized, lock, fetched, known>>

\* The call came to nothing usable, or record_call raised.
CallFails(t) ==
    /\ pc[t] = "call"
    /\ TaskGoes(t, "ask")
    /\ UNCHANGED <<stored, entries, initialized, lock, fetched, asked, current, known>>

\* record_call has stored the answer.
Record(t) ==
    /\ pc[t] = "call"
    /\ stored' = stored \cup {current[t]}
    /\ TaskGoes(t, "put")
    /\ UNCHANGED <<entries, initialized, lock, fetched, asked, current, known>>

\* put waits for the lock.
Put(t) ==
    /\ pc[t] = "put"
    /\ lock = Free
    /\ entries' = entries \cup {current[t]}
    /\ known' = known \cup {current[t]}
    /\ TaskGoes(t, "ask")
    /\ UNCHANGED <<stored, initialized, lock, fetched, asked, current>>

CacheNext ==
    \E t \in Tasks :
        \/ BeginInitialize(t) \/ TakeLock(t) \/ Fetch(t) \/ Assign(t) \/ InitializeRaises(t)
        \/ \E k \in Keys : Ask(t, k)
        \/ CallFails(t) \/ Record(t) \/ Put(t)

CacheSpec == CacheInit /\ [][CacheNext]_cacheVars

-----------------------------------------------------------------------------
(* Properties *)

Labels == {"start", "connect", "fetch", "assign", "ask", "call", "put", "ended"}

CacheTypeOK ==
    /\ stored \subseteq Keys /\ entries \subseteq Keys /\ known \subseteq Keys
    /\ initialized \in BOOLEAN
    /\ lock \in Tasks \cup {Free}
    /\ pc \in [Tasks -> Labels]
    /\ fetched \in [Tasks -> SUBSET Keys]
    /\ asked \in [Tasks -> SUBSET Keys]
    /\ current \in [Tasks -> Keys \cup {Free}]
    /\ \A t \in Tasks : pc[t] \in {"call", "put"} => current[t] \in Keys

\* A late populate takes nothing out of the cache that another task's put, or
\* an earlier populate, brought in (resume.py, populate_from_storage and put).
Grows == entries \subseteq entries'

\* No task calls for what storage had before the first of them began, or for
\* what any of them found or put in the cache: two tasks may pay for one key
\* only while neither has its answer in (resume.py, get; benchmark.py,
\* initialize).
PaysForUnknown == \A t \in Tasks : pc[t] = "ask" /\ pc'[t] = "call" => current'[t] \notin known

\* What is known is neither forgotten nor paid for.
CacheRemembers == [][Grows /\ PaysForUnknown]_cacheVars
===============================================================================
