---------------------------- MODULE MCPageTable ----------------------------
(***************************************************************************)
(* Two address spaces with two pages that share the second level and not   *)
(* the third; the address spaces are interchangeable.                      *)
(***************************************************************************)
EXTENDS PageTable, TLC

TableSymmetry == Permutations(Tables)
=============================================================================
