------------------------ MODULE MCOperationsHeartbeat ------------------------
(***************************************************************************)
(* Instances of OperationsHeartbeat for TLC.                                *)
(***************************************************************************)
EXTENDS OperationsHeartbeat
==============================================================================
