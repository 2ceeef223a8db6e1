------------------------------ MODULE MCBenchmark -----------------------------
(* Values for the constants of Benchmark. *)
EXTENDS SequencesExt, Benchmark

\* A model twice in the list of candidates.
MCModelOf == LET m == CHOOSE m \in Entrants : TRUE
                 o == CHOOSE o \in Entrants : o # m
             IN [i \in 1 .. NEntries |-> IF i = 2 THEN o ELSE m]

MCProfile == [cached |-> 1, fresh |-> 1, output |-> 1]

Row(id, v, in, answer, read, ctx, pctx, mod, free) ==
    [id |-> id, vendor |-> v, prompt |-> in, completion |-> answer, cacheRead |-> read,
     context |-> ctx, providerContext |-> pctx, moderated |-> mod, free |-> free, fits |-> id # "b/3"]

\* Two builds, and two callers in the first process.
MCBuild == LET p == CHOOSE p \in Processes : TRUE IN [q \in Processes |-> IF q = p THEN 1 ELSE 2]

MCProcessOf ==
    LET c == CHOOSE c \in Callers : TRUE
        p == CHOOSE p \in Processes : TRUE
        q == CHOOSE q \in Processes : q # p
    IN [d \in Callers |-> IF d = c THEN q ELSE p]

Rows == {Row("a/1", "a", 1, 1, 0, 2, 3, FALSE, FALSE), Row("a/2", "a", 0, 0, -99, 2, 2, FALSE, FALSE),
         Row("a/3", "a", 2, 2, 1, 3, 0, TRUE, FALSE), Row("b/1", "b", 2, 1, -99, 2, 0, FALSE, FALSE),
         Row("b/2", "b", -1000000, -1000000, -99, 2, 0, FALSE, FALSE), Row("b/3", "b", 1, 1, -99, 2, 0, TRUE, FALSE),
         Row("c/1", "c", 2, 2, 1, 1, 0, TRUE, FALSE), Row("c/2:free", "c", 0, 0, 1, 2, 0, TRUE, TRUE),
         Row("c/3", "c", 1, 2, 1, 2, 4, FALSE, FALSE)}

Endpoints == [status : {"live", "degraded", "down"}, uptime30 : {-99, 0, 1}, uptime5 : {1},
              latency : {-99, 0, 1}, throughput : {-99, 1}]

MCRequests == [rows : BoundedSeq(Rows, 3), n : 0 .. 3, seats : 0 .. 2, denied : {{}, {"a/1"}}]

MCEndpointLists == BoundedSeq(Endpoints, 2) \ {<<>>}

MCStageOps == [op : BoundedSeq(Words, 2) \ {<<>>}, lang : Words \cup {NoLanguage}]
===============================================================================
