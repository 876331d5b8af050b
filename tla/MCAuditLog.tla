------------------------------ MODULE MCAuditLog ------------------------------
(***************************************************************************)
(* Instances of AuditLog for TLC: the first two peers record events of one  *)
(* request (a denied retry after an answer), the others of their own.        *)
(***************************************************************************)
EXTENDS AuditLog

RequestOfPeer == [p \in Peers |-> IF p <= 2 THEN 1 ELSE p]
===============================================================================
