-------------------------- MODULE MCPendingDispatch --------------------------
(***************************************************************************)
(* Instances of PendingDispatch for TLC: tasks share requests, two of them  *)
(* a dedupe key; workers are symmetric.                                     *)
(***************************************************************************)
EXTENDS PendingDispatch, TLC

CONSTANTS r1, r2, t1, t2, t3, t4, w1, w2

SharedRequest == (t1 :> r1) @@ (t2 :> r1) @@ (t3 :> r2) @@ (t4 :> r2)
SharedKey == (t1 :> "a") @@ (t2 :> "b") @@ (t3 :> "c") @@ (t4 :> "a")

WorkerSymmetry == Permutations({w1, w2})
==============================================================================
