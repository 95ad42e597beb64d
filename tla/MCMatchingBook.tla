--------------------------- MODULE MCMatchingBook ---------------------------
(***************************************************************************)
(* The matching books for TLC.  Order ids are interchangeable: a book      *)
(* only compares them for equality.                                        *)
(***************************************************************************)
EXTENDS MatchingEngine

MCSymmetry == Permutations(Ids)
=============================================================================
