------------------------------ MODULE MCHalving ------------------------------
(***************************************************************************)
(* Three candidates a, b, c (ties break in that order), two stages and two *)
(* rounds of 3 and 1 candidates.                                           *)
(***************************************************************************)
EXTENDS Halving, TLC

CONSTANTS a, b, c

MCCostRank == a :> 1 @@ b :> 2 @@ c :> 3
MCRoundSizes == <<3, 1>>
MCOneUnit == <<1, 1>>
MCTwoUnits == <<2, 1>>
MCPoints == {0, 20}
===============================================================================
