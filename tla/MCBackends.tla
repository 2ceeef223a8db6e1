----------------------------- MODULE MCBackends -----------------------------
(* An instance of Backends for TLC: a key tried three times under two tags, and
   another once. *)
EXTENDS Backends

MCKeyOf == [c \in Calls |-> IF c <= 3 THEN "k1" ELSE "k2"]
MCTagOf == [c \in Calls |-> IF c % 2 = 0 THEN "A" ELSE "B"]
===============================================================================
