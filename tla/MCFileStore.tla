----------------------------- MODULE MCFileStore -----------------------------
(* Instances of FileStore for TLC. *)
EXTENDS FileStore

\* Two calls race on a key under one tag, a third comes under another tag.
MCKeyOf == [c \in Calls |-> "k1"]
MCTagOf == [c \in Calls |-> IF c % 3 = 0 THEN "B" ELSE "A"]
===============================================================================
