------------------------------ MODULE MCDeploy ------------------------------
(***************************************************************************)
(* Deploy with three releases: a good one, one with an unsigned frontend,  *)
(* and one whose topology has drifted.                                     *)
(***************************************************************************)
EXTENDS Deploy, TLC

CONSTANTS good, unsigned, drifted

SomeSigned == (Releases \X Services) \ {<<unsigned, "frontend">>}
Alike == Permutations(Runs)
=============================================================================
