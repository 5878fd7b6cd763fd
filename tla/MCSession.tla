----------------------------- MODULE MCSession -----------------------------
(***************************************************************************)
(* Session on small instances.  Session ids and payloads are               *)
(* interchangeable: no action names one, and Init leaves sid free.         *)
(* Workers are not, since they differ in their settings.                   *)
(***************************************************************************)
EXTENDS Session, TLC

Symmetry == Permutations(Sids) \cup Permutations(Values)

\* Every call may fail.
AllCalls == Calls

\* Every call may fail but the two on lock records.
AllButLockCalls == Calls \ {"add_lock", "delete_lock"}
=============================================================================
