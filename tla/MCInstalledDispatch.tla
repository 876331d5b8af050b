------------------------- MODULE MCInstalledDispatch -------------------------
(***************************************************************************)
(* Instances of InstalledDispatch for TLC.                                  *)
(***************************************************************************)
EXTENDS InstalledDispatch, TLC

CONSTANTS r1, r2, ok, f1, f2
==============================================================================
