--------------------------- MODULE MCReplayStore ---------------------------
(***************************************************************************)
(* Instances of ReplayStore for TLC.  The kinds of the requests are chosen  *)
(* per run; owners are symmetric.                                          *)
(***************************************************************************)
EXTENDS ReplayStore, TLC

CONSTANTS r1, r2, r3, p1, p2

\* One current conversation and two generic dispatches competing for a route.
MixedKind == (r1 :> "CONVERSATION_V2") @@ (r2 :> "GENERIC") @@ (r3 :> "GENERIC")
OneRoute == [r \in {r1, r2, r3} |-> "route"]

\* A bare chain next to a conversation bound to the first contract.
BareKind == (r1 :> "BARE") @@ (r2 :> "CONVERSATION_V1")
PairRoute == [r \in {r1, r2} |-> "route"]

OwnerSymmetry == Permutations({p1, p2})
==============================================================================
