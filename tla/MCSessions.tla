----------------------------- MODULE MCSessions -----------------------------
(***************************************************************************)
(* Sessions with model values: requests, ids and secrets are alike.        *)
(***************************************************************************)
EXTENDS Sessions, TLC

Alike == Permutations(Requests) \cup Permutations(Ids) \cup Permutations(Secrets)
=============================================================================
