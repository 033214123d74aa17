--------------------------------- MODULE Probe ---------------------------------
(***************************************************************************)
(* The live provider contract probe (scripts/probe-llm-contract.py) and    *)
(* the server that trusts what it writes (backend/app/ai/verification.py,  *)
(* backend/app/config.py).                                                 *)
(*                                                                         *)
(* The operator runs the probe in an environment, with a policy file, the  *)
(* snapshot of the provider's policy page and a snapshot of its quota and  *)
(* prices.  The probe checks all of them, bounds what the run may cost,    *)
(* compares the live pages with the snapshots, asks the provider (with     *)
(* retries, each of which may be billed), writes a manifest and prints its *)
(* digest.  The server is started with that digest and looks at the file   *)
(* again whenever it is asked to diagnose: what it answers depends on its  *)
(* settings, the file and the clock only, and so is an operator here.      *)
(*                                                                         *)
(* The clock counts in units that keep the order of the five windows       *)
(* (5 minutes, 1 hour, 72 hours, 30 days, 90 days), not their ratios.      *)
(***************************************************************************)
EXTENDS Evidence, Config

CONSTANTS Cases,          \* [env, docs]: environments, and policy files with their two snapshots
          Servers,        \* environments a server is started in
          Answers,        \* answers to the tool call
          Events,         \* events of the stream
          ToolBytes,      \* bytes of the serialized tool payload: tool_payload_byte_bound
          StreamBytes,    \* stream_payload_byte_bound
          ToolReply,      \* 64, the most output tokens the tool payload asks for
          StreamReply,    \* 32
          MaxInput,       \* 4096, the highest max_input_tokens_per_probe
          MaxOutput,      \* 512, the highest max_output_tokens
          MaxRuns,        \* bound: runs of the probe in a behaviour
          MaxClock,       \* bound: the last instant
          MaxChunks,      \* bound: events of a stream
          NoFile

ASSUME ProbeAssumption ==
  /\ {ToolReply, StreamReply, MaxInput, MaxOutput, MaxRuns, MaxClock, MaxChunks} \subseteq Nat
  /\ {ToolBytes, StreamBytes} \subseteq Nat \ {0}   \* a payload is never empty

IsDigest(d) == d = [of |-> d.of, form |-> d.form]
Usages == [prompt : Int, cached : Int, miss : Int, completion : Int]

\* What is read as a number or a time is one: the code refuses text before it looks at the value.
ASSUME InputsAssumption ==
  /\ \A c \in Cases :
       /\ c.docs.policy.rates \in [{"cache_hit_input", "cache_miss_input", "output"} -> Int]
       /\ {c.docs.policy.max_retries, c.docs.policy.max_output_tokens, c.docs.policy.max_input_tokens_per_probe,
           c.docs.policy.cost_cap_per_probe, c.docs.policy.reviewed_at, c.docs.policy.quota_pricing_reviewed_at,
           c.docs.policy.quota.limits, c.docs.policy.quota.balance_alert_threshold} \subseteq Int
       /\ IsDigest(c.docs.policy.quota_pricing_snapshot_sha256)
       /\ \A r \in DOMAIN c.docs.policy.owner_approvals :
            /\ {"approved", "approver_identity", "approved_at"} \subseteq DOMAIN c.docs.policy.owner_approvals[r]
            /\ c.docs.policy.owner_approvals[r].approved_at \in Int
  /\ \A a \in Answers : a.usage \in Usages
  /\ \A e \in Events : e.usage \in Usages /\ e.marker \in BOOLEAN

\* A variable of an environment is text, or what the code makes of it.
ASSUME EnvironmentsAssumption ==
  \A e \in Servers \cup {c.env : c \in Cases} :
    /\ DOMAIN e = Variables
    /\ e.AIOPS_EVIDENCE_RUNNER_IDENTITY # NotText
    /\ e.AIOPS_LLM_MODEL \in [text : STRING, padded : BOOLEAN]
    /\ e.AIOPS_RELEASE_DIGEST = Unset \/ IsDigest(e.AIOPS_RELEASE_DIGEST)
    /\ LET c == e.AIOPS_COMMIT_SHA IN c = Unset \/ c = [of |-> c.of, form |-> c.form, length |-> c.length]

VARIABLES env,      \* the environment of the operator
          docs,     \* [policy, page, snapshot]: the files the probe is given
          live,     \* [policy, source]: what the two pages hold now
          clock,
          probe,    \* the running probe
          billed,   \* what the provider has billed for this run
          runs,     \* runs started
          output,   \* the evidence file: NoFile or [manifest, writable, trusted_owner]
          printed   \* the manifests whose digest a probe has printed

vars == <<env, docs, live, clock, probe, billed, runs, output, printed>>

Smaller(a, b) == IF a < b THEN a ELSE b
Policy == docs.policy
NoUsage == [prompt |-> 0, cached |-> 0, miss |-> 0, completion |-> Bad]

Idle == [at |-> "idle", attempts |-> [model_discovery |-> 0, tool_call |-> 0, streaming |-> 0],
         tool |-> NoUsage, stream |-> NoUsage, chunks |-> 0, marker |-> FALSE, executed_at |-> NoTime]

-------------------------------------------------------------------------------
(* What the probe demands before it asks anybody: the environment *)

\* _secret_from_environment: only variables that are not empty count.
ProbeSecret(e) ==
  LET direct == {k \in KeyNames : e.keys[k].direct \notin {Unset, ""}}
      files  == {k \in KeyNames : e.keys[k].file # Unset /\ e.keys[k].file.kind # "no path"}
  IN /\ direct = {} /\ Cardinality(files) = 1
     /\ \A k \in files : /\ OwnerOfKey(k) \in {{}, {e.AIOPS_LLM_MODE}}
                         /\ ReadSecretFile(e.keys[k].file, TRUE)

\* _validate_provider_feature_flag
FeatureFlagIsExclusive(e) == e.AIOPS_LLM_ENABLED_PROVIDERS = {e.AIOPS_LLM_MODE}

EnvironmentIsFit(e) ==
  /\ e.AIOPS_LLM_MODE \in LiveProviderIds
  /\ FeatureFlagIsExclusive(e)
  /\ e.AIOPS_LLM_MODEL.text # "" /\ Filled(e.AIOPS_EVIDENCE_RUNNER_IDENTITY)
  /\ e.AIOPS_RELEASE_DIGEST # Unset /\ DigestPattern(Identifier(e.AIOPS_RELEASE_DIGEST))
  /\ e.AIOPS_COMMIT_SHA # Unset /\ CommitPattern(Identifier(e.AIOPS_COMMIT_SHA))
  /\ ValidateBaseUrl(e.AIOPS_LLM_MODE, e.AIOPS_LLM_BASE_URL)
  /\ ProbeSecret(e)

-------------------------------------------------------------------------------
(* _load_policy, in the order of its parts: d are the documents, now the clock *)

PolicyIsFilled(d, provider) ==
  /\ \A f \in {"provider_id", "account_identifier", "region", "retention", "ai_owner", "security_owner",
                "privacy_owner", "provider_policy_url", "quota_pricing_source_url", "account_tier", "currency"} :
       Filled(d.policy[f])
  /\ d.policy.provider_id = provider
  /\ d.policy.training_opt_out_confirmed /\ d.policy.redacted_operational_data_only

ReviewsAreCurrent(d, now) ==
  /\ ReviewedWithin(d.policy.reviewed_at, now, PolicyReviewAge)
  /\ ReviewedWithin(d.policy.quota_pricing_reviewed_at, now, PricingReviewAge)

SnapshotsMatch(d) ==
  /\ Lower(d.policy.provider_policy_sha256) = Digest(d.page)
  /\ HttpsUrl(d.policy.quota_pricing_source_url)
  /\ Lower(d.policy.quota_pricing_snapshot_sha256) = Digest(d.snapshot.bytes)

LimitsAreSane(d) ==
  /\ d.policy.connect_timeout_seconds > 0 /\ d.policy.read_timeout_seconds > 0
  /\ \A r \in DOMAIN d.policy.rates : d.policy.rates[r] >= 0
  /\ d.policy.cost_cap_per_probe >= 0
  /\ d.policy.max_retries \in 0..3
  /\ d.policy.max_output_tokens \in 1..MaxOutput
  /\ d.policy.max_input_tokens_per_probe \in 1..MaxInput
  /\ d.policy.quota.limits >= 0 /\ d.policy.quota.balance_alert_threshold >= 0

SnapshotIsBound(d) ==
  /\ d.snapshot.schema_version = 1
  /\ \A f \in {"provider_id", "account_identifier", "account_tier", "currency"} :
       IsText(d.snapshot[f]) /\ d.snapshot[f] = d.policy[f]
  /\ IsText(d.snapshot.source_url) /\ d.snapshot.source_url = d.policy.quota_pricing_source_url
  /\ DigestPattern(Lower(d.snapshot.source_content_sha256))
  /\ d.snapshot.reviewed_at # NoTime /\ d.snapshot.reviewed_at = d.policy.quota_pricing_reviewed_at

PricesAreBound(d) ==
  /\ DOMAIN d.snapshot.prices = {"cache_hit_input", "cache_miss_input", "output"}
  /\ \A r \in DOMAIN d.snapshot.prices : d.snapshot.prices[r] >= 0 /\ d.snapshot.prices[r] = d.policy.rates[r]

QuotaIsBound(d) ==
  /\ DOMAIN d.snapshot.quota = {"limits", "balance_alert_threshold"}
  /\ \A f \in DOMAIN d.snapshot.quota : d.snapshot.quota[f] = d.policy.quota[f]

\* The text of an identity is compared with the owner as it is: an owner that is a number has no equal.
ApprovalsAreGiven(d, now) ==
  LET a == d.policy.owner_approvals IN
  /\ Roles \subseteq DOMAIN a
  /\ \A r \in Roles :
       /\ a[r].approved /\ a[r].role = r
       /\ Filled(a[r].approver_identity)
       /\ d.policy[OwnerOf[r]] # NotText /\ a[r].approver_identity = d.policy[OwnerOf[r]]
       /\ \A s \in Roles \ {r} : Casefold(a[s].approver_identity) # Casefold(a[r].approver_identity)
       /\ Lower(a[r].provider_policy_sha256) = Digest(d.page)
       /\ Lower(a[r].quota_pricing_snapshot_sha256) = Digest(d.snapshot.bytes)
       /\ a[r].approved_at # NoTime /\ a[r].approved_at <= now + Skew

ApprovalsAreBound(d, now) ==
  /\ ApprovalsAreGiven(d, now)
  /\ \A r \in Roles :
       d.policy.owner_approvals[r].approved_at >= Later(d.policy.reviewed_at, d.policy.quota_pricing_reviewed_at)

LoadPolicy(d, provider, now) ==
  /\ PolicyIsFilled(d, provider) /\ ReviewsAreCurrent(d, now) /\ SnapshotsMatch(d) /\ LimitsAreSane(d)
  /\ SnapshotIsBound(d) /\ PricesAreBound(d) /\ QuotaIsBound(d) /\ ApprovalsAreBound(d, now)

-------------------------------------------------------------------------------
(* The budget.  Cost is _estimated_cost; a million is the unit of a price. *)

Cost(rates, input, cached, out) ==
  (input - cached) * rates.cache_miss_input + cached * rates.cache_hit_input + out * rates.output

\* _probe_payloads: min(64, max_output_tokens) and min(32, max_output_tokens)
ToolTokens(d)   == Smaller(ToolReply, d.policy.max_output_tokens)
StreamTokens(d) == Smaller(StreamReply, d.policy.max_output_tokens)

\* Mutant: the retries are counted, and the first attempt is not.
RetryBudget(d)   == d.policy.max_retries
AttemptBudget(d) == d.policy.max_retries + 1
InputBound(d)    == ToolBytes * AttemptBudget(d) + StreamBytes
PreflightCost(d) ==
  Cost(d.policy.rates, InputBound(d), 0, ToolTokens(d) * AttemptBudget(d) + StreamTokens(d))

WithinBudget(d) ==
  /\ InputBound(d) <= d.policy.max_input_tokens_per_probe
  /\ PreflightCost(d) <= d.policy.cost_cap_per_probe

-------------------------------------------------------------------------------
(* The run *)

Fails == probe' = Idle /\ UNCHANGED <<output, printed>>
Goto(place) == probe' = [probe EXCEPT !.at = place] /\ UNCHANGED <<output, printed>>

\* run_probe up to the first request.
Start ==
  /\ probe.at = "idle" /\ runs < MaxRuns
  /\ EnvironmentIsFit(env) /\ LoadPolicy(docs, env.AIOPS_LLM_MODE, clock) /\ WithinBudget(docs)
  /\ Goto("policy page")
  /\ billed' = 0 /\ runs' = runs + 1
  /\ UNCHANGED <<env, docs, live, clock>>

\* _verify_live_snapshot, for the policy page and then for the source of the prices.
VerifyPage(place, url, page, expected, next) ==
  /\ probe.at = place
  /\ \/ HttpsUrl(url) /\ Digest(page) = Lower(expected) /\ Goto(next)
     \/ Fails   \* not reachable, an HTTP error, or no longer the reviewed page
  /\ UNCHANGED <<env, docs, live, clock, billed, runs>>

VerifyPolicyPage ==
  VerifyPage("policy page", Policy.provider_policy_url, live.policy, Policy.provider_policy_sha256, "source page")

\* The check of a tool call, and the proof that it refuses what it should before it is relied on.
ValidToolCall(call) == call = "probe_echo"
ProveInvalidToolRejection == \A call \in {"unknown_tool", "probe_echo with an extra field"} : ~ValidToolCall(call)

FirstRequest == IF Profile(env.AIOPS_LLM_MODE).lists_models THEN "discovery" ELSE "tool call"

VerifySourcePage ==
  VerifyPage("source page", Policy.quota_pricing_source_url, live.source, docs.snapshot.source_content_sha256,
             IF ProveInvalidToolRejection THEN FirstRequest ELSE "idle")

\* _request_json: one attempt more of a request.
Attempted(request) == [probe EXCEPT !.attempts[request] = @ + 1]

\* A transport error, 429 or 5xx: tried again while attempts are left.
Again(request) ==
  /\ IF probe.attempts[request] < Policy.max_retries THEN probe' = Attempted(request) ELSE probe' = Idle
  /\ UNCHANGED <<output, printed>>

\* The model list is not billed.
Discover ==
  /\ probe.at = "discovery"
  /\ \/ probe' = [Attempted("model_discovery") EXCEPT !.at = "tool call"] /\ UNCHANGED <<output, printed>>
     \/ Again("model_discovery")
     \/ Fails   \* another HTTP error, no JSON, or a list without the model
  /\ UNCHANGED <<env, docs, live, clock, billed, runs>>

\* _usage, in the format of the provider
UsageIsValid(u) ==
  /\ u.prompt >= 0 /\ u.completion >= 0 /\ u.cached >= 0 /\ u.cached <= u.prompt
  /\ Profile(env.AIOPS_LLM_MODE).cache = "deepseek_cache_fields" => u.miss >= 0 /\ u.cached + u.miss = u.prompt

\* What an answered request costs: a provider reports no fewer tokens than it bills, and bills
\* no more of them than the payload has bytes and the request asked for.
AtMost(tokens, limit) == IF tokens < 0 THEN 0 ELSE Smaller(tokens, limit)
Bill(u, bytes, reply) ==
  Cost(Policy.rates, AtMost(u.prompt, bytes), AtMost(u.cached, AtMost(u.prompt, bytes)), AtMost(u.completion, reply))

\* An attempt that brought no answer may have been billed in full all the same.
ToolAttemptCost == Cost(Policy.rates, ToolBytes, 0, ToolTokens(docs))
StreamCost      == Cost(Policy.rates, StreamBytes, 0, StreamTokens(docs))

\* Without a model list this answer is the discovery, too.
AnswerIsValid(a) == a.model = env.AIOPS_LLM_MODEL.text /\ ValidToolCall(a.call) /\ UsageIsValid(a.usage)

ToolAnswered(a) ==
  LET sent == Attempted("tool_call")  n == sent.attempts.tool_call IN
  /\ IF AnswerIsValid(a)
     THEN probe' = [sent EXCEPT !.at = "stream", !.tool = a.usage, !.attempts.streaming = 1,
                                !.attempts.model_discovery = IF @ = 0 THEN n ELSE @]
     ELSE probe' = Idle
  /\ billed' = billed + Bill(a.usage, ToolBytes, ToolTokens(docs))
  /\ UNCHANGED <<output, printed>>

CallTool ==
  /\ probe.at = "tool call"
  /\ \/ \E a \in Answers : ToolAnswered(a)
     \/ \E c \in {0, ToolAttemptCost} : (Again("tool_call") \/ Fails) /\ billed' = billed + c
  /\ UNCHANGED <<env, docs, live, clock, runs>>

\* One data event of the stream: _validate_stream_event.
StreamEvent(e) ==
  /\ probe.at = "stream" /\ probe.chunks < MaxChunks
  /\ e.usage = NoUsage \/ UsageIsValid(e.usage)
  /\ probe' = [probe EXCEPT !.chunks = @ + 1, !.marker = @ \/ e.marker,
                            !.stream = IF e.usage = NoUsage THEN @ ELSE e.usage]
  /\ UNCHANGED <<env, docs, live, clock, billed, runs, output, printed>>

\* [DONE] after at least one event, the marker and a token usage: _validate_stream_contract.
StreamDone ==
  /\ probe.at = "stream"
  /\ probe.chunks > 0 /\ probe.marker /\ probe.stream # NoUsage
  /\ Goto("report")
  /\ billed' = billed + Bill(probe.stream, StreamBytes, StreamTokens(docs))
  /\ UNCHANGED <<env, docs, live, clock, runs>>

\* Not opened, an invalid event, cut off, or [DONE] too early: the stream is not tried again.
StreamBreaks ==
  /\ probe.at = "stream" /\ Fails
  /\ \E c \in {0, StreamCost} : billed' = billed + c
  /\ UNCHANGED <<env, docs, live, clock, runs>>

-------------------------------------------------------------------------------
(* The report *)

InputTokens  == probe.tool.prompt + probe.stream.prompt
CachedTokens == probe.tool.cached + probe.stream.cached
OutputTokens == probe.tool.completion + probe.stream.completion
SuccessCost  == Cost(Policy.rates, InputTokens, CachedTokens, OutputTokens)
PriorAttempts == probe.attempts.tool_call - 1

\* Mutant: only the input of an unanswered attempt is counted.
RetryInputCost == Cost(Policy.rates, ToolBytes * PriorAttempts, 0, 0)
RetryCost ==
  Cost(Policy.rates, ToolBytes * PriorAttempts, 0, ToolTokens(docs) * PriorAttempts)

Report ==
  /\ probe.at = "report"
  /\ IF InputTokens <= InputBound(docs) /\ SuccessCost + RetryCost <= Policy.cost_cap_per_probe
     THEN probe' = [probe EXCEPT !.at = "write", !.executed_at = clock]
     ELSE probe' = Idle
  /\ UNCHANGED <<env, docs, live, clock, billed, runs, output, printed>>

UsageCost ==
  [input_tokens |-> InputTokens, cached_input_tokens |-> CachedTokens,
   cache_miss_input_tokens |-> InputTokens - CachedTokens, output_tokens |-> OutputTokens,
   estimated_cost |-> SuccessCost + RetryCost, successful_responses_estimated_cost |-> SuccessCost,
   retry_cost_upper_bound |-> RetryCost, preflight_worst_case_cost |-> PreflightCost(docs),
   max_input_tokens_per_probe |-> Policy.max_input_tokens_per_probe,
   input_payload_byte_upper_bound |-> InputBound(docs), tool_attempt_budget |-> AttemptBudget(docs),
   currency |-> Policy.currency, approved_cap |-> Policy.cost_cap_per_probe,
   rates_per_million_tokens |-> Policy.rates]

QuotaPricingEvidence ==
  [account_tier |-> Policy.account_tier, source_url |-> Policy.quota_pricing_source_url,
   source_content_sha256 |-> docs.snapshot.source_content_sha256,
   snapshot_sha256 |-> Policy.quota_pricing_snapshot_sha256,
   snapshot_schema_version |-> docs.snapshot.schema_version,
   reviewed_at |-> Policy.quota_pricing_reviewed_at, currency |-> docs.snapshot.currency,
   prices_per_million_tokens |-> docs.snapshot.prices, quota |-> docs.snapshot.quota]

PolicyEvidence ==
  [training_opt_out_confirmed |-> TRUE, redacted_operational_data_only |-> TRUE,
   ai_owner |-> Policy.ai_owner, security_owner |-> Policy.security_owner, privacy_owner |-> Policy.privacy_owner,
   owner_approvals |-> Policy.owner_approvals, provider_policy_url |-> Policy.provider_policy_url,
   provider_policy_sha256 |-> Digest(docs.page), reviewed_at |-> Policy.reviewed_at]

Manifest(hours) ==
  [schema_version |-> 2, result |-> "pass",
   executed_at |-> probe.executed_at, expires_at |-> probe.executed_at + hours,
   runner_identity |-> env.AIOPS_EVIDENCE_RUNNER_IDENTITY, evidence_path |-> "output",
   release_digest |-> Identifier(env.AIOPS_RELEASE_DIGEST), commit_sha |-> Identifier(env.AIOPS_COMMIT_SHA),
   provider_id |-> env.AIOPS_LLM_MODE,
   feature_flag |-> [enabled_provider_id |-> env.AIOPS_LLM_MODE, exclusive |-> TRUE],
   provider_origin |-> env.AIOPS_LLM_BASE_URL.text,
   model |-> [env.AIOPS_LLM_MODEL EXCEPT !.padded = FALSE],
   provider_capabilities |-> {"streaming", "tool_calls", "usage_reporting"},
   account_identifier |-> Policy.account_identifier, region |-> Policy.region,
   model_discovery |->
     [method |-> IF Profile(env.AIOPS_LLM_MODE).lists_models THEN "authenticated_models_endpoint"
                                                              ELSE "authenticated_chat_completion",
      path |-> IF Profile(env.AIOPS_LLM_MODE).lists_models THEN "/models" ELSE "/chat/completions",
      model_confirmed |-> TRUE, response_sha256 |-> Digest("models")],
   tool_call |-> [name |-> "probe_echo", arguments |-> "r0-live-contract-probe", schema_match |-> TRUE],
   invalid_tool_rejection |-> [unknown_tool_rejected |-> TRUE, extra_field_rejected |-> TRUE],
   stream |-> [json_chunks |-> probe.chunks, done_received |-> TRUE, contract_marker_received |-> probe.marker,
               usage_reported |-> TRUE, content_type |-> "text/event-stream",
               normalized_events_sha256 |-> Digest("events")],
   timeout_retry |-> [connect_timeout_seconds |-> Policy.connect_timeout_seconds,
                      read_timeout_seconds |-> Policy.read_timeout_seconds,
                      max_retries |-> Policy.max_retries, attempts |-> probe.attempts],
   redaction_capture |-> [seeded_secret_absent |-> TRUE, replacement_marker_present |-> TRUE,
                          capture_sha256 |-> Digest("capture")],
   usage_cost |-> UsageCost, quota |-> Policy.quota, quota_pricing_evidence |-> QuotaPricingEvidence,
   policy |-> PolicyEvidence, required_checks |-> RequiredChecks]

\* main: a temporary file in the directory of the output is written, made read-only and put in
\* the place of the output in one step; the owner is whoever runs the probe.
Publish ==
  /\ probe.at = "write"
  /\ \E hours \in 1..MaxEvidenceValidity, trusted \in BOOLEAN :
       output' = [manifest |-> Manifest(hours), writable |-> FALSE, trusted_owner |-> trusted]
  /\ probe' = [probe EXCEPT !.at = "print"]
  /\ UNCHANGED <<env, docs, live, clock, billed, runs, printed>>

PrintDigest ==
  /\ probe.at = "print"
  /\ printed' = printed \cup {output.manifest} /\ probe' = Idle
  /\ UNCHANGED <<env, docs, live, clock, billed, runs, output>>

-------------------------------------------------------------------------------
(* The world *)

Tick ==
  /\ clock < MaxClock /\ clock' = clock + 1
  /\ UNCHANGED <<env, docs, live, probe, billed, runs, output, printed>>

\* The provider changes a page the running probe has yet to look at.
PageChanges ==
  /\ \/ probe.at = "policy page" /\ live' = [live EXCEPT !.policy = "changed"]
     \/ probe.at \in {"policy page", "source page"} /\ live' = [live EXCEPT !.source = "changed"]
  /\ UNCHANGED <<env, docs, clock, probe, billed, runs, output, printed>>

\* Somebody lets the evidence live longer (bounded by MaxClock), or opens the file for writing.
EditOutput ==
  /\ probe.at = "idle" /\ output # NoFile
  /\ \/ output.manifest.expires_at <= MaxClock /\ output' = [output EXCEPT !.manifest.expires_at = @ + 1]
     \/ output' = [output EXCEPT !.writable = TRUE]
  /\ UNCHANGED <<env, docs, live, clock, probe, billed, runs, printed>>

\* The probe is killed; a digest it has not printed is lost.
Kill == probe.at # "idle" /\ Fails /\ UNCHANGED <<env, docs, live, clock, billed, runs>>

Init ==
  /\ \E c \in Cases : env = c.env /\ docs = c.docs
  /\ live = [policy |-> "policy page", source |-> "source page"]
  /\ clock = 0
  /\ probe = Idle /\ billed = 0 /\ runs = 0 /\ output = NoFile /\ printed = {}

ProbeStep ==
  \/ VerifyPolicyPage \/ VerifySourcePage \/ Discover \/ CallTool
  \/ (\E e \in Events : StreamEvent(e)) \/ StreamDone \/ StreamBreaks
  \/ Report \/ Publish \/ PrintDigest

Next == Start \/ ProbeStep \/ Kill \/ Tick \/ PageChanges \/ EditOutput

Spec == Init /\ [][Next]_vars

-------------------------------------------------------------------------------
(* The server *)

\* The deployment a manifest has to be about.
Want(s) == [provider_id |-> s.llm_mode, provider_origin |-> s.llm_base_url, model |-> s.llm_model,
            release_digest |-> s.release_digest, commit_sha |-> s.commit_sha]

\* validate_provider_evidence: the file is looked at and read each time.
\* Mutant: the digest of the file is not compared.
ValidateAnyManifest(s, now) ==
  \/ ~s.is_production
  \/ /\ Unset \notin {s.release_digest, s.commit_sha, s.llm_evidence_file, s.llm_evidence_sha256}
     /\ output # NoFile /\ ~output.writable /\ output.trusted_owner
     /\ ProviderManifestValidationError(output.manifest, now, Want(s)) = ""

ValidateProviderEvidence(s, now) ==
  \/ ~s.is_production
  \/ /\ Unset \notin {s.release_digest, s.commit_sha, s.llm_evidence_file, s.llm_evidence_sha256}
     /\ output # NoFile /\ ~output.writable /\ output.trusted_owner
     /\ Digest(output.manifest) = s.llm_evidence_sha256
     /\ ProviderManifestValidationError(output.manifest, now, Want(s)) = ""
     /\ output.manifest.feature_flag.enabled_provider_id \in s.llm_enabled_providers

\* The server started in environment e with the digest a probe printed for manifest m.
Deployed(e, m) == [e EXCEPT !.AIOPS_LLM_EVIDENCE_FILE = "output", !.AIOPS_LLM_EVIDENCE_SHA256 = Digest(m)]
Verified(e, m) ==
  /\ Boots(Deployed(e, m), clock, TRUE)
  /\ ValidateProviderEvidence(Settings(Deployed(e, m)), clock)

-------------------------------------------------------------------------------
(* Properties *)

\* Whatever fails, is retried or is billed without an answer, a run costs no more than the cap
\* the owners approved, if a cached token is not dearer than another (_enforce_cost_cap before
\* the first request, run_probe's attempt budget): nothing in the code checks that price.
CachedIsCheaper == Policy.rates.cache_hit_input <= Policy.rates.cache_miss_input
SpendIsCapped == runs > 0 /\ CachedIsCheaper => billed <= Policy.cost_cap_per_probe

\* The cost a manifest reports covers everything its run was billed, the attempts without an
\* answer included (retry_cost_upper_bound).
ReportCoversSpend ==
  probe.at = "write" /\ CachedIsCheaper => billed <= SuccessCost + RetryCost

\* A production server that takes the evidence as verified runs the provider, origin, model,
\* release and commit a probe passed for, with the manifest that probe wrote, at most 72 hours
\* old, from a review of the policy that was at most 90 days old then.
VerifiedByAProbe ==
  \A e \in Servers, m \in printed :
    e.AIOPS_ENV = "prod" /\ Verified(e, m) =>
      /\ output.manifest = m /\ ~output.writable
      /\ m.provider_id = e.AIOPS_LLM_MODE /\ m.provider_origin = e.AIOPS_LLM_BASE_URL.text
      /\ m.model = e.AIOPS_LLM_MODEL
      /\ m.release_digest.of = e.AIOPS_RELEASE_DIGEST.of /\ m.commit_sha.of = e.AIOPS_COMMIT_SHA.of
      /\ clock < m.executed_at + MaxEvidenceValidity
      /\ clock - m.policy.reviewed_at < PolicyReviewAge + MaxEvidenceValidity
      /\ clock - m.quota_pricing_evidence.reviewed_at < PricingReviewAge + MaxEvidenceValidity

\* What the probe accepts and the server refuses: the probe lower-cases the digests it compares
\* and writes them as it found them; it allows a fourth approval, more fields in the quota and a
\* region that is a number; it strips the model, and takes an empty variable for none; it looks
\* at the age of the reviews when it starts and dates the manifest when it ends.
ReadAlike ==
  /\ \A d \in {Policy.quota_pricing_snapshot_sha256, docs.snapshot.source_content_sha256} : DigestPattern(d)
  /\ \A r \in Roles : /\ DigestPattern(Policy.owner_approvals[r].provider_policy_sha256)
                      /\ DigestPattern(Policy.owner_approvals[r].quota_pricing_snapshot_sha256)
  /\ DOMAIN Policy.owner_approvals = Roles
  /\ DOMAIN Policy.quota = DOMAIN docs.snapshot.quota
  /\ Policy.region # NotText
  /\ ~env.AIOPS_LLM_MODEL.padded
  /\ \A k \in KeyNames : /\ env.keys[k].direct = Unset
                         /\ env.keys[k].file # Unset => env.keys[k].file.kind # "no path"

\* An environment with the provider, the model, the key and the release the probe was run with.
SameProvider(e) ==
  \A f \in {"AIOPS_LLM_MODE", "AIOPS_LLM_ENABLED_PROVIDERS", "AIOPS_LLM_BASE_URL", "AIOPS_LLM_MODEL",
            "AIOPS_RELEASE_DIGEST", "AIOPS_COMMIT_SHA", "keys"} : e[f] = env[f]

\* But for that, a server that boots at all in the environment a probe has passed in verifies the
\* manifest the probe has just published, until it expires: the two programs, written apart,
\* agree on what evidence is.
PassedProbeIsAccepted ==
  /\ probe.at = "print" /\ ReadAlike /\ output.trusted_owner /\ clock < output.manifest.expires_at
  /\ probe.executed_at - Policy.reviewed_at <= PolicyReviewAge
  /\ probe.executed_at - Policy.quota_pricing_reviewed_at <= PricingReviewAge
  => \A e \in Servers : SameProvider(e) /\ ServiceBoots(e, clock, TRUE) => Verified(e, output.manifest)

\* The same person, spelt in another way.
Respelt(identity) == IF identity = "alice" THEN "ALICE" ELSE identity

\* One claim of a manifest made false by hand, in ways no probe writes.
IdentityEdits(m) ==
  {[m EXCEPT !.schema_version = 1], [m EXCEPT !.result = "fail"], [m EXCEPT !.runner_identity = Absent],
   [m EXCEPT !.evidence_path = Absent], [m EXCEPT !.account_identifier = NotText], [m EXCEPT !.region = Absent],
   [m EXCEPT !.feature_flag.enabled_provider_id = "other"], [m EXCEPT !.feature_flag.exclusive = FALSE],
   [m EXCEPT !.commit_sha.length = 12], [m EXCEPT !.provider_origin = "https://other"],
   [m EXCEPT !.model.text = "other"], [m EXCEPT !.release_digest.of = "other"],
   [m EXCEPT !.provider_capabilities = @ \ {"streaming"}]}

RunEdits(m) ==
  {[m EXCEPT !.model_discovery.method = "unauthenticated"], [m EXCEPT !.model_discovery.model_confirmed = FALSE],
   [m EXCEPT !.model_discovery.response_sha256 = Malformed], [m EXCEPT !.tool_call.schema_match = FALSE],
   [m EXCEPT !.tool_call.name = "other"], [m EXCEPT !.stream.done_received = FALSE],
   [m EXCEPT !.stream.contract_marker_received = FALSE], [m EXCEPT !.stream.content_type = "text/html"],
   [m EXCEPT !.stream.json_chunks = 0], [m EXCEPT !.invalid_tool_rejection.extra_field_rejected = FALSE],
   [m EXCEPT !.redaction_capture.seeded_secret_absent = FALSE]}

BudgetEdits(m) ==
  {[m EXCEPT !.timeout_retry.max_retries = @ + 1], [m EXCEPT !.timeout_retry.read_timeout_seconds = 0],
   [m EXCEPT !.timeout_retry.attempts.tool_call = 0], [m EXCEPT !.usage_cost.input_tokens = @ + 1],
   [m EXCEPT !.usage_cost.estimated_cost = @ + 1], [m EXCEPT !.usage_cost.retry_cost_upper_bound = @ + 1],
   [m EXCEPT !.usage_cost.approved_cap = m.usage_cost.preflight_worst_case_cost - 1],
   [m EXCEPT !.usage_cost.max_input_tokens_per_probe = 0], [m EXCEPT !.usage_cost.currency = "other"],
   [m EXCEPT !.usage_cost.rates_per_million_tokens.output = @ + 1], [m EXCEPT !.quota.limits = Bad],
   [m EXCEPT !.quota.limits = @ + 1], [m EXCEPT !.quota.balance_alert_threshold = @ + 1]}

PolicyEdits(m) ==
  {[m EXCEPT !.quota_pricing_evidence.source_url = "http://page"],
   [m EXCEPT !.quota_pricing_evidence.reviewed_at = m.executed_at - PricingReviewAge - 1],
   [m EXCEPT !.quota_pricing_evidence.reviewed_at = m.executed_at + Skew + 1],
   [m EXCEPT !.quota_pricing_evidence.snapshot_sha256.of = "other"],
   [m EXCEPT !.policy.training_opt_out_confirmed = FALSE], [m EXCEPT !.policy.provider_policy_url = Absent],
   [m EXCEPT !.policy.reviewed_at = m.executed_at - PolicyReviewAge - 1],
   [m EXCEPT !.policy.provider_policy_sha256.of = "other"], [m EXCEPT !.policy.security_owner = "alice"],
   [m EXCEPT !.policy.security_owner = Respelt(m.policy.ai_owner),
             !.policy.owner_approvals.security.approver_identity = Respelt(m.policy.ai_owner)],
   [m EXCEPT !.policy.owner_approvals.privacy.approved = FALSE],
   [m EXCEPT !.policy.owner_approvals.privacy.approved_at = NoTime],
   [m EXCEPT !.executed_at = clock + Skew + 1], [m EXCEPT !.expires_at = clock],
   [m EXCEPT !.expires_at = m.executed_at + MaxEvidenceValidity + 1],
   [m EXCEPT !.required_checks = @ \ {"tool_call"}]}

Edits(m) == IdentityEdits(m) \cup RunEdits(m) \cup BudgetEdits(m) \cup PolicyEdits(m)

\* None of them passes, even if the operator gives the server the digest of the edited file: the
\* second reading of the evidence does not lean on the first.
EditIsNoticed ==
  probe.at = "print" => \A forged \in Edits(output.manifest) : forged # output.manifest =>
    ProviderManifestValidationError(forged, clock, Want(Settings(Deployed(env, forged)))) # ""
===============================================================================
