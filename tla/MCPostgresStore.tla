--------------------------- MODULE MCPostgresStore ---------------------------
(* Instances of PostgresStore for TLC: a key tried three times, another once. *)
EXTENDS PostgresStore

MCKeyOf == [c \in Calls |-> IF c <= 3 THEN "k1" ELSE "k2"]
MCTagOf == [c \in Calls |-> IF c % 2 = 0 THEN "A" ELSE "B"]
===============================================================================
