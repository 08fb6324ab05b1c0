------------------------------ MODULE MCLightning ------------------------------
(***************************************************************************)
(* Instance of Lightning for TLC: the outcomes of the event are            *)
(* interchangeable.                                                        *)
(***************************************************************************)
EXTENDS Lightning, TLC

OutcomesAreAlike == Permutations(Outcomes)

================================================================================
