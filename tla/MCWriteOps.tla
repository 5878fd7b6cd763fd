----------------------------- MODULE MCWriteOps -----------------------------
(***************************************************************************)
(* WriteOps with two servers and keys on both of them.                     *)
(***************************************************************************)
EXTENDS WriteOps

CONSTANTS k1, k2, s1, s2

HashTwo == [k \in Keys |-> IF k = k1 THEN s1 ELSE s2]
=============================================================================
