------------------------------ MODULE MCReads -------------------------------
(***************************************************************************)
(* Reads with interchangeable keys.                                        *)
(***************************************************************************)
EXTENDS Reads

Symmetry == Permutations(Keys)
=============================================================================
