------------------------------ MODULE Release ------------------------------
(***************************************************************************)
(* The release baseline: two reviewers sign statements over the summary of *)
(* the matrix, the release manifest and the LLM evidence                   *)
(* (scripts/assemble-r0-baseline-manifest.py); the assembler checks them   *)
(* against each other and writes the aggregate manifest, which is signed   *)
(* and validated (scripts/validate-ga-manifest.py).                        *)
(*                                                                         *)
(* Both programs read each file several times, at different moments, while *)
(* matrix runs publish and people replace evidence.  Nothing locks.        *)
(***************************************************************************)
EXTENDS Matrix

CONSTANTS
  LlmManifests,  \* evidence of the LLM contract probe
  AboutLlm,      \* LLM evidence -> [valid, release_digest, commit_sha]
  Identities,    \* principals of the reviewers' allowed_signers file
  Person,        \* identity -> what casefold() makes of it
  KeysOf,        \* identity -> its keys in that file
  Hands,         \* role -> who may write its review: [identity, key, verdict]
  SignerKeys,    \* the keys of the aggregate's signer
  Commit,        \* --commit
  MaxEdits,      \* bound on the reviews and replacements of evidence
  MaxAggregates  \* bound on the aggregates written

Roles == {"architecture", "security"}
Expected == [architecture |-> "CLEAR", security |-> "APPROVE"]

ASSUME ReleaseAssumption ==
  /\ DOMAIN AboutLlm = LlmManifests /\ DOMAIN Person = Identities /\ DOMAIN KeysOf = Identities
  /\ \A role \in Roles : \A h \in Hands[role] : h.identity \in Identities
  /\ None \notin LlmManifests /\ MaxEdits \in Nat /\ MaxAggregates \in Nat

VARIABLES
  release,    \* GA-R0-002/manifest.json
  llm,        \* llm.json
  reviews,    \* role -> its entry of review.json, with the statement and the signature
  manifest,   \* manifest.json, the aggregate
  signature,  \* and its detached signature
  assembly,   \* the assembler: where it is, what it read, what it binds and pins
  check,      \* the validator
  edits

evidenceVars == <<release, llm, reviews>>
vars == <<matrixVars, evidenceVars, manifest, signature, assembly, check, edits>>

\* What is on disk, by the name the aggregate gives it.
File == [matrix_summary |-> summary, matrix_status |-> status, release_manifest |-> release,
         llm_manifest |-> llm, reviews |-> reviews]
Pinned == <<"matrix_summary", "matrix_status", "release_manifest", "llm_manifest", "reviews">>
Hashed == <<"llm_manifest", "matrix_status", "matrix_summary", "release_manifest", "reviews">>  \* sort_keys
Bound == <<"matrix_summary", "release_manifest", "llm_manifest">>
NoFiles == [f \in DOMAIN File |-> None]
Missing == None \in {summary, status, release, llm}  \* review.json may lack its entries yet

Idle == [pc |-> "idle", read |-> NoFiles, bind |-> NoFiles, pins |-> NoFiles, disturbed |-> FALSE,
         written |-> 0]
Unchecked == [pc |-> "idle", payload |-> None, hashed |-> 0, key |-> None]

Init ==
  /\ MatrixInit
  /\ release \in Manifests /\ llm \in LlmManifests
  /\ reviews = [role \in Roles |-> None]
  /\ manifest = None /\ signature = None
  /\ assembly = Idle /\ check = Unchecked /\ edits = 0

\* History: some evidence was replaced while the assembler was at work.
Disturb ==
  assembly' = IF assembly.pc = "idle" THEN assembly ELSE [assembly EXCEPT !.disturbed = TRUE]

-----------------------------------------------------------------------------
(* The people, and the runs of the matrix *)
MatrixStep ==
  /\ MatrixNext
  /\ IF UNCHANGED publication THEN UNCHANGED assembly ELSE Disturb
  /\ UNCHANGED <<evidenceVars, manifest, signature, check, edits>>

Replaced ==
  /\ edits < MaxEdits /\ edits' = edits + 1
  /\ Disturb
  /\ UNCHANGED <<matrixVars, manifest, signature, check>>

\* A build brings another release manifest.
ReplaceRelease == Replaced /\ release' \in Manifests \ {release} /\ UNCHANGED <<llm, reviews>>

\* The probe publishes its evidence again.
ReplaceLlm == Replaced /\ llm' \in LlmManifests \ {llm} /\ UNCHANGED <<release, reviews>>

\* A reviewer signs a statement over the three files as they are now.
Review(role, hand) ==
  /\ ~(None \in {summary, release, llm})
  /\ edits < MaxEdits /\ edits' = edits + 1
  /\ reviews' = [reviews EXCEPT ![role] = [hand |-> hand, commit |-> Commit,
       bind |-> [f \in DOMAIN File |-> IF f \in {Bound[i] : i \in DOMAIN Bound}
                                       THEN File[f] ELSE None]]]
  /\ reviews' # reviews
  /\ Disturb
  /\ UNCHANGED <<matrixVars, release, llm, manifest, signature, check>>

Sign(key) ==
  /\ manifest # None
  /\ signature' = [of |-> manifest, key |-> key]
  /\ UNCHANGED <<matrixVars, evidenceVars, manifest, assembly, check, edits>>

-----------------------------------------------------------------------------
(* assemble.  What it has read and does not use again is dropped. *)
Reading == assembly.read
Reached(place) == assembly.pc = place
Assembles == UNCHANGED <<matrixVars, evidenceVars, manifest, signature, check, edits>>
Read(f, next) ==
  /\ assembly' = [assembly EXCEPT !.pc = next, !.read[f] = File[f]]
  /\ Assembles
Proceed(next) == assembly' = [assembly EXCEPT !.pc = next] /\ Assembles

\* canonical_evidence_path, for each argument; then the release manifest, with validate_release
ReadRelease ==
  /\ Reached("idle") /\ assembly.written < MaxAggregates /\ ~Missing
  /\ ValidateReleaseManifest(release) /\ About[release].commit_sha = Commit
  /\ Read("release_manifest", "summary")

ReadSummary == Reached("summary") /\ summary # None /\ Read("matrix_summary", "status")
ReadStatus == Reached("status") /\ status # None /\ Read("matrix_status", "compare_release")

\* Mutant: the hash is taken to say it all.
SameManifest(s, m) == s.context.commit = Commit

\* validate_matrix: the matrix tested what the release manifest names ...
SameRelease(s, m) ==
  /\ s.context.commit = Commit
  /\ About[s.tested].images = About[m].release_digests
  /\ About[s.tested].images = About[m].images
  /\ About[s.tested].release_tag = About[m].release_tag

\* ... and the manifest it stored is, byte for byte, the one that is there (read again)
CompareRelease ==
  /\ Reached("compare_release")
  /\ LET s == Reading.matrix_summary IN
     /\ SameRelease(s, Reading.release_manifest)
     /\ s.release = release /\ copy[s.context.run] = release
  /\ Proceed("compare_status")

\* ... the status is of this summary (its digest is taken from the file, again)
CompareStatus ==
  /\ Reached("compare_status")
  /\ LET s == Reading.matrix_status IN
     /\ s.result = "passed" /\ s.commit = Commit
     /\ s.run = Reading.matrix_summary.context.run
     /\ s.of = summary
  /\ assembly' = [assembly EXCEPT !.pc = "validate_runs", !.read.matrix_status = None]
  /\ Assembles

\* ... the machines' manifests still give that summary ...
RebuildRuns ==
  /\ Reached("validate_runs")
  /\ LET s == Reading.matrix_summary IN
     /\ ValidateRuns(vm, [s.context EXCEPT !.commit = Commit])
     /\ BuildSummary(vm, s.evidence, s.context) = s
  /\ Proceed("rehash")

\* ... and so do their hashes, when they and the receipts are read again.
RebuildHashes ==
  /\ Reached("rehash")
  /\ LET s == Reading.matrix_summary IN
     ReceiptsMatch(s.runs, s.context) /\ EvidenceHashes(vm, s.context) = s.evidence
  /\ assembly' = [assembly EXCEPT !.pc = "llm", !.read.matrix_summary = None]
  /\ Assembles

\* validate_llm
ReadLlm ==
  /\ Reached("llm")
  /\ LET l == AboutLlm[llm] IN
     /\ l.valid /\ l.commit_sha = Commit
     /\ l.release_digest = About[Reading.release_manifest].release_digest
  /\ Proceed("reviews")

ReadReviews == Reached("reviews") /\ Read("reviews", "bind")

\* evidence_bindings: the three digests, one file after the other
Bind ==
  /\ Reached("bind")
  /\ \E i \in DOMAIN Bound :
       /\ \A j \in DOMAIN Bound : assembly.bind[Bound[j]] = None <=> j >= i
       /\ File[Bound[i]] # None
       /\ assembly' = [assembly EXCEPT !.bind[Bound[i]] = File[Bound[i]],
                         !.pc = IF i = Len(Bound) THEN "check_architecture" ELSE "bind"]
  /\ Assembles

\* reviewer_key_fingerprint: exactly one trusted key
KeyOf(identity) == CHOOSE k \in KeysOf[identity] : TRUE

ReviewIsSigned(r, role, bind) ==
  /\ r.hand.verdict = Expected[role] /\ r.commit = Commit /\ r.bind = bind
  /\ Cardinality(KeysOf[r.hand.identity]) = 1 /\ r.hand.key = KeyOf(r.hand.identity)

DistinctReviewers(rs) ==
  LET a == rs["architecture"].hand.identity
      s == rs["security"].hand.identity IN
  Person[a] # Person[s] /\ KeyOf(a) # KeyOf(s)

\* validate_reviews, one role after the other.  The entry is of review.json as it was read; the
\* statement and its signature are read here, at the paths that the entry names: they are the
\* ones of the entry, or what a later review has put there.
EntryIsSigned(role) ==
  LET entry == Reading.reviews[role] IN
  /\ entry # None /\ entry.hand.verdict = Expected[role]
  /\ \E statement \in {entry, reviews[role]} :
       /\ statement.hand.identity = entry.hand.identity
       /\ ReviewIsSigned(statement, role, assembly.bind)

CheckArchitecture ==
  /\ Reached("check_architecture") /\ EntryIsSigned("architecture")
  /\ Proceed("check_security")

CheckSecurity ==
  /\ Reached("check_security") /\ EntryIsSigned("security")
  /\ DistinctReviewers(Reading.reviews)
  /\ assembly' = [assembly EXCEPT !.pc = "pin", !.bind = NoFiles]
  /\ Assembles

\* "evidence" of the aggregate: every file is hashed once more.
Pin ==
  /\ Reached("pin")
  /\ \E i \in DOMAIN Pinned :
       /\ \A j \in DOMAIN Pinned : assembly.pins[Pinned[j]] = None <=> j >= i
       /\ File[Pinned[i]] # None
       /\ assembly' = [assembly EXCEPT !.pins[Pinned[i]] = File[Pinned[i]],
                         !.pc = IF i = Len(Pinned) THEN "write" ELSE "pin"]
  /\ Assembles

\* The payload says what it read first, not what it pinned.  write_atomically.
Write ==
  /\ Reached("write")
  /\ manifest' = [release |-> Reading.release_manifest, commit_sha |-> Commit,
       pins |-> assembly.pins, disturbed |-> assembly.disturbed,
       fingerprints |-> [role \in Roles |-> KeyOf(Reading.reviews[role].hand.identity)]]
  /\ assembly' = [Idle EXCEPT !.written = assembly.written + 1]
  /\ UNCHANGED <<matrixVars, evidenceVars, signature, check, edits>>

\* A condition does not hold, a file is gone, the process ends: nothing is written.
Refuse ==
  /\ ~Reached("idle")
  /\ assembly' = [Idle EXCEPT !.written = assembly.written]
  /\ Assembles

-----------------------------------------------------------------------------
(* validate-ga-manifest.py *)
Validates == UNCHANGED <<matrixVars, evidenceVars, manifest, signature, assembly, edits>>

\* _load and validate_manifest
Load ==
  /\ check.pc = "idle" /\ manifest # None
  /\ manifest.fingerprints["architecture"] # manifest.fingerprints["security"]
  /\ check' = [Unchecked EXCEPT !.pc = "hash", !.payload = manifest]
  /\ Validates

\* validate_g001_evidence_files
Hash ==
  /\ check.pc = "hash"
  /\ LET f == Hashed[check.hashed + 1] IN File[f] # None /\ check.payload.pins[f] = File[f]
  /\ check' = [check EXCEPT !.hashed = @ + 1,
                 !.pc = IF check.hashed + 1 = Len(Hashed) THEN "verify" ELSE "hash"]
  /\ Validates

\* verify_g001_signature: of the manifest as it is now, by the one key of the signer
VerifySignature ==
  /\ check.pc = "verify" /\ signature # None
  /\ signature.of = manifest /\ SignerKeys = {signature.key}
  /\ check' = [check EXCEPT !.pc = "independent", !.key = signature.key]
  /\ Validates

\* Mutant: it is enough that the signer did not review the design.
IndependentOfDesign(payload, key) == key # payload.fingerprints["architecture"]

Independent(payload, key) == key \notin {payload.fingerprints[role] : role \in Roles}

Accept ==
  /\ check.pc = "independent" /\ Independent(check.payload, check.key)
  /\ check' = [check EXCEPT !.pc = "accepted"]
  /\ Validates

Reject ==
  /\ check.pc # "idle"
  /\ check' = Unchecked
  /\ Validates

Next ==
  \/ MatrixStep
  \/ ReplaceRelease \/ ReplaceLlm
  \/ \E role \in Roles : \E hand \in Hands[role] : Review(role, hand)
  \/ \E key \in SignerKeys : Sign(key)
  \/ ReadRelease \/ ReadSummary \/ ReadStatus \/ CompareRelease \/ CompareStatus
  \/ RebuildRuns \/ RebuildHashes
  \/ ReadLlm \/ ReadReviews \/ Bind \/ CheckArchitecture \/ CheckSecurity \/ Pin \/ Write \/ Refuse
  \/ Load \/ Hash \/ VerifySignature \/ Accept \/ Reject

Spec == Init /\ [][Next]_vars

-----------------------------------------------------------------------------
(***************************************************************************)
(* Properties.                                                             *)
(***************************************************************************)

\* Whatever is replaced, published, withdrawn or signed between the assembler's reads: the
\* images and the tag that an aggregate names passed the gate of every variant, in one run, for
\* its commit (validate_matrix: only the summary that was read speaks for the digests that were
\* read; the files may be others by the time they are hashed, and the matrix reads its
\* manifest three times).
ReleaseIsTested ==
  manifest # None =>
    \E r \in Runs :
      /\ run[r].gated = Len(Order) /\ run[r].commit = manifest.commit_sha
      /\ About[run[r].release].images = About[manifest.release].release_digests
      /\ About[run[r].release].release_tag = About[manifest.release].release_tag

\* An aggregate that the validator accepts, and whose evidence lay still while it was
\* assembled, is of one piece: the status is of the summary, the summary of the release
\* manifest, the LLM evidence of its backend image, both statements bind these very files; and
\* three keys, two of them of different people, stand for it (assemble, validate_reviews and main
\* of validate-ga-manifest.py: no check of either program alone gives this).
AcceptedIsCrossBound ==
  check.pc = "accepted" /\ ~check.payload.disturbed =>
    LET p == check.payload.pins
        hand(role) == p.reviews[role].hand IN
    /\ p.matrix_status.result = "passed" /\ p.matrix_status.of = p.matrix_summary
    /\ p.matrix_summary.release = p.release_manifest
    /\ p.release_manifest = check.payload.release
    /\ AboutLlm[p.llm_manifest].release_digest = About[p.release_manifest].release_digest
    /\ \A role \in Roles, i \in DOMAIN Bound : p.reviews[role].bind[Bound[i]] = p[Bound[i]]
    /\ \A role \in Roles : hand(role).verdict = Expected[role]
    /\ Person[hand("architecture").identity] # Person[hand("security").identity]
    /\ Cardinality({check.key, hand("architecture").key, hand("security").key}) = 3
=============================================================================
