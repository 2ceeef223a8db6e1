-------------------------------- MODULE Pairing -------------------------------
(***************************************************************************)
(* halving/pairing.py, allowed_validator_pairs: who judges whom.  From     *)
(* four candidates on the pairs are made greedily, producer after          *)
(* producer: the least used validator first, of those one of another       *)
(* family, and otherwise as the shuffle has it.  The candidates are their  *)
(* places in the list.                                                     *)
(***************************************************************************)
EXTENDS Integers, Sequences, FiniteSets

CONSTANTS
    MaxCandidates,
    Families

ASSUME PairingAssumption == MaxCandidates \in Nat

VARIABLES
    n,            \* len(candidates)
    family,       \* _model_family of each
    validatorOf   \* pairs so far: the validator of producer 1, 2, ...

pairingVars == <<n, family, validatorOf>>

Candidates == 1 .. n

-----------------------------------------------------------------------------
\* Slips: the reverse pair is not looked at; nor is how often one was used.
EligibleAnyone(p) == Candidates \ {p}
RankFamilyOnly(p, v) == IF family[v] = family[p] THEN 1 ELSE 0

\* Not the producer, and not one the producer judges, unless all are.
Eligible(p) ==
    LET fresh == {v \in Candidates \ {p} : v \notin DOMAIN validatorOf \/ validatorOf[v] # p} IN
    IF fresh = {} THEN Candidates \ {p} ELSE fresh

Used(v) == Cardinality({p \in DOMAIN validatorOf : validatorOf[p] = v})

\* The sort key, (used_validators_overall, same family), as one number.
Rank(p, v) == 2 * Used(v) + (IF family[v] = family[p] THEN 1 ELSE 0)

PairingInit ==
    /\ n \in 1 .. MaxCandidates
    /\ family \in [1 .. MaxCandidates -> Families]
    /\ validatorOf = <<>>

\* Three candidates judge in a circle; one or two judge nobody.
PairThree ==
    /\ n = 3
    /\ validatorOf' = <<2, 3, 1>>
    /\ UNCHANGED <<n, family>>

PairNext ==
    /\ n >= 4
    /\ Len(validatorOf) < n
    /\ LET p == Len(validatorOf) + 1 IN
       \E v \in Eligible(p) :
         /\ \A w \in Eligible(p) : Rank(p, v) <= Rank(p, w)
         /\ validatorOf' = Append(validatorOf, v)
    /\ UNCHANGED <<n, family>>

PairingNext == PairThree \/ PairNext

PairingSpec == PairingInit /\ [][PairingNext]_pairingVars

-----------------------------------------------------------------------------
(* Properties *)

\* No two candidates judge each other, and nobody judges itself: the greedy
\* choice never runs out of validators free of the reverse pair (pairing.py,
\* "random non-self / non-symmetric assignment").
NobodyJudgesBack ==
    \A p \in DOMAIN validatorOf :
        LET v == validatorOf[p] IN
        /\ v # p
        /\ v \in DOMAIN validatorOf => validatorOf[v] # p

\* Nobody judges more than two: the work is shared although each choice is made
\* without regard to the producers still to come.
WorkIsShared == \A v \in Candidates : Used(v) <= 2

\* The pairs are those of an independent and fair jury.
PairsAreFair == NobodyJudgesBack /\ WorkIsShared
===============================================================================
