---------------------------- MODULE MCApprovals ----------------------------
(* Instances of Approvals for TLC.                                          *)
EXTENDS Approvals, TLC

Symmetry == Permutations(Approvals) \cup Permutations(Sessions) \cup Permutations(Requests)
Nothing == {}
WritesOnly == {"file.write"}
============================================================================
