----------------------------- MODULE MCRelease -----------------------------
(* Constants of the run of Release: two variants stand for the four. *)
EXTENDS Release, TLC

CONSTANTS c1, m1, m2, l1, l2, d1, d2, r1, r2, ka, kb, ks

MCOrder == <<<<"22.04", "ext4">>, <<"24.04", "xfs">>>>

Images(d) == [backend |-> d, frontend |-> d]
Manifest(d) ==
  [fixed_fields |-> TRUE, repository |-> "ours", release_tag |-> "v1", commit_sha |-> c1,
   workflow_ref |-> <<"ours", "v1">>, certificate_identity |-> <<"ours", "v1">>,
   release_digest |-> d, release_digests |-> Images(d), images |-> Images(d),
   tag_signature |-> "verified"]

\* One commit that was built twice, with other images.
MCAbout == (m1 :> Manifest(d1)) @@ (m2 :> Manifest(d2))

MCAboutLlm ==
  (l1 :> [valid |-> TRUE, release_digest |-> d1, commit_sha |-> c1]) @@
  (l2 :> [valid |-> TRUE, release_digest |-> d2, commit_sha |-> c1])

\* dan is also the aggregate's signer.
MCIdentities == {"alice", "bob", "dan"}
MCPerson == [i \in MCIdentities |-> i]
MCKeysOf == [alice |-> {ka}, bob |-> {kb}, dan |-> {ks}]
Hand(i, k, v) == [identity |-> i, key |-> k, verdict |-> v]
MCHands ==
  [architecture |-> {Hand("alice", ka, "CLEAR")},
   security |-> {Hand("bob", kb, "APPROVE"), Hand("dan", ks, "APPROVE")}]

\* The two runs, and the two builds with their evidence, are alike.
Swap(x, y) == (x :> y) @@ (y :> x)
SwapBuilds == Swap(m1, m2) @@ Swap(l1, l2) @@ Swap(d1, d2)
Symmetry == Permutations(Runs) \cup {SwapBuilds}
=============================================================================
