---------------------------- MODULE MCFirstInstall ----------------------------
(* The instance of FirstInstall the run checks: three targets, one of which the *)
(* plan replaces, in the order of the branches, and a bundle with a piece of    *)
(* each kind: two directories, a link and a file that were there.             *)
EXTENDS FirstInstall

MCOrder == <<"key", "policy", "module">>
MCReplaced == {"policy"}
MCPieces ==
    <<[kind |-> "DIRECTORY", before |-> FALSE, type |-> "DIRECTORY"],
      [kind |-> "OBJECT", before |-> FALSE, type |-> "DIRECTORY"],
      [kind |-> "OBJECT", before |-> TRUE, type |-> "LINK"],
      [kind |-> "FILE", before |-> TRUE, type |-> "REGULAR"]>>
==============================================================================
