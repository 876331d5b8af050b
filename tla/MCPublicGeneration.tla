-------------------------- MODULE MCPublicGeneration --------------------------
(***************************************************************************)
(* Instances of PublicGeneration for TLC: one candidate that changes the       *)
(* launcher and a unit file, one that changes none, and the restoration of    *)
(* the delivered one.                                                       *)
(***************************************************************************)
EXTENDS PublicGeneration, TLC

CONSTANTS i1, i2, i3

ThreeChanged == (i1 :> {1, 2}) @@ (i2 :> {}) @@ (i3 :> {})
ThreeCandidates == (i1 :> i1) @@ (i2 :> i2) @@ (i3 :> Base)
==============================================================================
