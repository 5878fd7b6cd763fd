---------------------------- MODULE MCProtoServer ----------------------------
(***************************************************************************)
(* Constants of the model-checking run of ProtoServer: one peer that       *)
(* pipelines a second command and may stop reading its answers, beside one *)
(* that sends a single command and reads.                                  *)
(***************************************************************************)
EXTENDS ProtoServer, TLC

CONSTANTS c1, c2

MCClients == {c1, c2}
MCMaxSent == c1 :> 2 @@ c2 :> 1
MCSlow    == {c1}
==============================================================================
