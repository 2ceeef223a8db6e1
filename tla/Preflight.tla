------------------------------ MODULE Preflight ------------------------------
(***************************************************************************)
(* Benchmark.preflight: one ping per entry of the candidate list, as many  *)
(* at a time as its semaphore allows, each under a timeout.  An upstream   *)
(* may answer, in full or cut off by the token limit, refuse, or say       *)
(* nothing at all; an answer and the timeout may meet.  A model goes on    *)
(* to round 1 by the verdict of its last entry.                            *)
(***************************************************************************)
EXTENDS Integers, FiniteSets

CONSTANTS
    Entrants,      \* the models of the candidates
    NEntries,      \* len(candidates)
    ModelOf,       \* candidates, a model perhaps more than once
    Concurrency    \* how many pings at a time, 8 by default

Entries == 1 .. NEntries

ASSUME PreflightAssumption ==
    /\ NEntries \in Nat
    /\ Concurrency \in Nat
    /\ ModelOf \in [Entries -> Entrants]

LastEntries == {i \in Entries : \A j \in Entries : j > i => ModelOf[j] # ModelOf[i]}

VARIABLES
    ping,      \* where each _one is; its verdict's error_class at the end
    slots,     \* the semaphore's value
    survivors, \* what run_phase goes on with
    over,      \* gather has returned
    heard      \* history: the entries whose upstream answered in time

preflightVars == <<ping, slots, survivors, over, heard>>

Ended == {"ok", "LLMTruncationError", "ProviderFactoryError", "LLMCallTimeout", "error"}

\* Slip: a truncated ping counts as dead.
AliveIfWhole == {"ok"}

\* The verdicts with ok=True.
AliveVerdicts == {"ok", "LLMTruncationError"}

-----------------------------------------------------------------------------
PreflightInit ==
    /\ ping = [i \in Entries |-> "queued"]
    /\ slots = Concurrency
    /\ survivors = {}
    /\ over = FALSE
    /\ heard = {}

Conclude(i, verdict) == ping' = [ping EXCEPT ![i] = verdict]

\* The tasks start in the order of the list, and so does the semaphore's queue.
NextInLine(i) == slots > 0 /\ ping[i] = "queued" /\ \A j \in 1 .. i - 1 : ping[j] # "queued"

\* `async with sem`, and the factory builds the provider: the ping is out.
Ping(i) ==
    /\ NextInLine(i)
    /\ slots' = slots - 1
    /\ Conclude(i, "calling")
    /\ UNCHANGED <<survivors, over, heard>>

\* The factory raises: the slot is taken and freed without an await.
FactoryRaises(i) ==
    /\ NextInLine(i)
    /\ Conclude(i, "ProviderFactoryError")
    /\ UNCHANGED <<slots, survivors, over, heard>>

\* The upstream answers, or its limit on tokens cuts the answer off.
Answer(i) ==
    /\ ping[i] = "calling"
    /\ \E verdict \in {"ok", "LLMTruncationError"} : Conclude(i, verdict)
    /\ heard' = heard \cup {i}
    /\ slots' = slots + 1
    /\ UNCHANGED <<survivors, over>>

Refuse(i) ==
    /\ ping[i] = "calling"
    /\ Conclude(i, "error")
    /\ slots' = slots + 1
    /\ UNCHANGED <<survivors, over, heard>>

\* Slip: a ping given up keeps its slot.
ExpireUnreleased(i) ==
    /\ ping[i] = "calling"
    /\ Conclude(i, "LLMCallTimeout")
    /\ UNCHANGED <<slots, survivors, over, heard>>

\* Slip: the call is awaited without a timeout.
ExpireNever(i) == FALSE

\* wait_for gives up and cancels the call.
Expire(i) ==
    /\ ping[i] = "calling"
    /\ Conclude(i, "LLMCallTimeout")
    /\ slots' = slots + 1
    /\ UNCHANGED <<survivors, over, heard>>

\* gather has every verdict, and the verdicts are listed by model: of a model's
\* verdicts the last one counts.
Collect ==
    /\ ~over
    /\ \A i \in Entries : ping[i] \in Ended
    /\ over' = TRUE
    /\ survivors' = {ModelOf[i] : i \in {j \in LastEntries : ping[j] \in AliveVerdicts}}
    /\ UNCHANGED <<ping, slots, heard>>

Begin(i) == Ping(i) \/ FactoryRaises(i)

PreflightNext == Collect \/ \E i \in Entries : Begin(i) \/ Answer(i) \/ Refuse(i) \/ Expire(i)

PreflightSpec == PreflightInit /\ [][PreflightNext]_preflightVars

\* The loop runs who may run and its timers go off; no upstream need answer.
FairPreflightSpec ==
    /\ PreflightSpec
    /\ WF_preflightVars(Collect)
    /\ \A i \in Entries : WF_preflightVars(Begin(i)) /\ WF_preflightVars(Expire(i))

-----------------------------------------------------------------------------
(* Properties *)

PreflightTypeOK ==
    /\ ping \in [Entries -> Ended \cup {"queued", "calling"}]
    /\ slots \in 0 .. Concurrency
    /\ survivors \subseteq Entrants
    /\ over \in BOOLEAN
    /\ heard \subseteq Entries

\* Every slot is back, and round 1 gets the models whose last ping was answered in
\* time, cut off or not, and no other (benchmark.py, preflight: a truncated ping is
\* "PROOF the route is alive").
VerdictsAreRight ==
    /\ slots = Concurrency
    /\ survivors = {ModelOf[i] : i \in LastEntries \cap heard}

\* When preflight ends, it ends so, whoever stayed silent or answered late.
EndsRight == over => VerdictsAreRight

\* Preflight ends for good although upstreams may stay silent, and ends right.
EveryoneIsJudged == <>[](over /\ VerdictsAreRight)
===============================================================================
