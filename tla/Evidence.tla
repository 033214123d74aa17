------------------------------- MODULE Evidence -------------------------------
(***************************************************************************)
(* What the server demands of the evidence of a live LLM provider          *)
(* (backend/app/ai/verification.py).  The probe writes a manifest, the     *)
(* operator tells the server the digest of the file, and the server reads  *)
(* the file again at every readiness check and before every diagnosis.     *)
(*                                                                         *)
(* A manifest is a record of records.  A text is a string, Absent when it  *)
(* is missing or blank and NotText when the JSON value is not a string; a  *)
(* number that does not parse, is not finite or is negative is Bad; a time *)
(* that does not parse or has no zone is NoTime.  Two digests are equal    *)
(* when they are of the same content and written alike.                    *)
(***************************************************************************)
EXTENDS Integers, FiniteSets

CONSTANTS Skew,                 \* a clock may be ahead: 5 minutes
          MaxEvidenceValidity,  \* 72 hours
          PricingReviewAge,     \* 30 days
          PolicyReviewAge       \* 90 days

ASSUME WindowsAssumption ==
  {Skew, MaxEvidenceValidity, PricingReviewAge, PolicyReviewAge} \subseteq Nat

Absent  == "absent"
NotText == "not a string"
Bad     == -1
NoTime  == -1
Roles   == {"ai", "security", "privacy"}
OwnerOf == [ai |-> "ai_owner", security |-> "security_owner", privacy |-> "privacy_owner"]

\* isinstance(value, str) and value.strip(), and the weaker str(value or "").strip()
IsText(v) == v \notin {Absent, NotText}
Filled(v) == v # Absent

\* A digest is written in lower case or not, or does not have the form at all.
Digest(content)  == [of |-> content, form |-> "lower"]
Shouted(d)       == [d EXCEPT !.form = "upper"]
Malformed        == [of |-> "nothing", form |-> "malformed"]
Lower(d)         == IF d.form = "upper" THEN [d EXCEPT !.form = "lower"] ELSE d
DigestPattern(d) == d.form = "lower"
CommitPattern(c) == c.length = 40 /\ c.form = "lower"

\* scheme https, a host, and neither credentials nor query nor fragment
HttpsUrl(u) == u \notin {Absent, "http://page", "https://user@page", "https://page?q"}

\* casefold(): two spellings of one person
Casefold(identity) == IF identity = "ALICE" THEN "alice" ELSE identity

Later(t, u) == IF t > u THEN t ELSE u

-------------------------------------------------------------------------------
(* provider_manifest_contract_complete, in the order of its parts *)

IdentityComplete(m) ==
  /\ \A f \in {"provider_id", "runner_identity", "evidence_path", "account_identifier", "region"} :
       IsText(m[f])
  /\ CommitPattern(m.commit_sha)
  /\ m.feature_flag.enabled_provider_id = m.provider_id
  /\ m.feature_flag.exclusive

DiscoveryComplete(m) ==
  /\ m.model_discovery.method \in {"authenticated_models_endpoint", "authenticated_chat_completion"}
  /\ m.model_discovery.model_confirmed
  /\ m.model_discovery.path \in {"/models", "/chat/completions"}
  /\ DigestPattern(m.model_discovery.response_sha256)
  /\ {"streaming", "tool_calls", "usage_reporting"} \subseteq m.provider_capabilities

ToolAndStreamComplete(m) ==
  /\ m.tool_call = [name |-> "probe_echo", arguments |-> "r0-live-contract-probe", schema_match |-> TRUE]
  /\ m.stream.done_received /\ m.stream.contract_marker_received /\ m.stream.usage_reported
  /\ m.stream.content_type = "text/event-stream"
  /\ DigestPattern(m.stream.normalized_events_sha256)
  /\ m.stream.json_chunks > 0

RetryComplete(m) ==
  /\ m.timeout_retry.connect_timeout_seconds > 0
  /\ m.timeout_retry.read_timeout_seconds > 0
  /\ m.timeout_retry.max_retries \in 0..3
  /\ DOMAIN m.timeout_retry.attempts # {}
  /\ \A r \in DOMAIN m.timeout_retry.attempts : m.timeout_retry.attempts[r] > 0
  /\ m.invalid_tool_rejection.unknown_tool_rejected /\ m.invalid_tool_rejection.extra_field_rejected
  /\ m.redaction_capture.seeded_secret_absent /\ m.redaction_capture.replacement_marker_present
  /\ DigestPattern(m.redaction_capture.capture_sha256)

UsageComplete(m) ==
  LET u == m.usage_cost IN
  /\ \A f \in {"input_tokens", "output_tokens", "cached_input_tokens", "cache_miss_input_tokens",
                "estimated_cost", "successful_responses_estimated_cost", "retry_cost_upper_bound",
                "approved_cap", "preflight_worst_case_cost"} : u[f] >= 0
  /\ 0 < u.input_payload_byte_upper_bound
  /\ u.input_payload_byte_upper_bound <= u.max_input_tokens_per_probe
  /\ u.tool_attempt_budget = m.timeout_retry.max_retries + 1
  /\ u.cached_input_tokens + u.cache_miss_input_tokens = u.input_tokens
  /\ u.input_tokens <= u.input_payload_byte_upper_bound
  /\ IsText(u.currency)
  /\ u.estimated_cost = u.successful_responses_estimated_cost + u.retry_cost_upper_bound
  /\ u.estimated_cost <= u.approved_cap
  /\ u.preflight_worst_case_cost <= u.approved_cap
  /\ \A r \in {"cache_hit_input", "cache_miss_input", "output"} : u.rates_per_million_tokens[r] >= 0

\* A limit is a positive integer or a marker of the provider (coded 0 here, as is
\* no other limit); the threshold may be any number that is not negative.
QuotaComplete(m) ==
  /\ {"limits", "balance_alert_threshold"} \subseteq DOMAIN m.quota
  /\ m.quota.limits >= 0
  /\ m.quota.balance_alert_threshold >= 0

QuotaPricingComplete(m) ==
  LET q == m.quota_pricing_evidence IN
  /\ IsText(q.account_tier) /\ IsText(q.currency)
  /\ HttpsUrl(q.source_url)
  /\ DigestPattern(q.snapshot_sha256) /\ DigestPattern(q.source_content_sha256)
  /\ q.snapshot_schema_version = 1
  /\ q.currency = m.usage_cost.currency
  /\ \A r \in {"cache_hit_input", "cache_miss_input", "output"} :
       q.prices_per_million_tokens[r] = m.usage_cost.rates_per_million_tokens[r]
  /\ DOMAIN q.quota = DOMAIN m.quota
  /\ \A f \in DOMAIN q.quota : q.quota[f] = m.quota[f]
  /\ q.reviewed_at # NoTime

ApprovalComplete(m, role) ==
  LET a == m.policy.owner_approvals[role] IN
  /\ role \in DOMAIN m.policy.owner_approvals
  /\ a.approved /\ a.role = role
  /\ Filled(a.approver_identity) /\ a.approver_identity = m.policy[OwnerOf[role]]
  /\ a.provider_policy_sha256 = m.policy.provider_policy_sha256
  /\ a.quota_pricing_snapshot_sha256 = m.quota_pricing_evidence.snapshot_sha256
  /\ a.approved_at >= Later(m.policy.reviewed_at, m.quota_pricing_evidence.reviewed_at)

\* Mutant: one person, spelt in two ways, approves for two owners.
DistinctSpellings(m) ==
  Cardinality({m.policy.owner_approvals[r].approver_identity : r \in Roles}) = 3

DistinctApprovers(m) ==
  \A r, s \in Roles : r # s => Casefold(m.policy.owner_approvals[r].approver_identity)
                                 # Casefold(m.policy.owner_approvals[s].approver_identity)

PolicyComplete(m) ==
  /\ m.policy.training_opt_out_confirmed /\ m.policy.redacted_operational_data_only
  /\ DigestPattern(m.policy.provider_policy_sha256)
  /\ HttpsUrl(m.policy.provider_policy_url)
  /\ m.policy.reviewed_at # NoTime
  /\ \A r \in Roles : IsText(m.policy[OwnerOf[r]])
  /\ \A r \in Roles : ApprovalComplete(m, r)
  /\ DistinctApprovers(m)

ProviderManifestContractComplete(m) ==
  /\ IdentityComplete(m) /\ DiscoveryComplete(m) /\ ToolAndStreamComplete(m) /\ RetryComplete(m)
  /\ UsageComplete(m) /\ QuotaComplete(m) /\ QuotaPricingComplete(m) /\ PolicyComplete(m)

-------------------------------------------------------------------------------
(* provider_manifest_validation_error *)

RequiredChecks ==
  {"feature_flag", "model_discovery", "tool_call", "streaming", "invalid_tool_rejection", "timeout_retry",
   "redaction_capture", "usage_cost", "quota_pricing_snapshot", "policy_snapshot", "owner_approvals"}

\* Neither from the future nor older than age when the probe ran.
ReviewedWithin(t, executed, age) == t # NoTime /\ t <= executed + Skew /\ executed - t <= age

EvidenceIsCurrent(m, now) ==
  LET approved == {m.policy.owner_approvals[r].approved_at : r \in DOMAIN m.policy.owner_approvals} IN
  /\ m.executed_at # NoTime /\ m.executed_at <= now + Skew
  /\ m.expires_at # NoTime /\ m.expires_at > now
  /\ m.expires_at > m.executed_at /\ m.expires_at - m.executed_at <= MaxEvidenceValidity
  /\ ReviewedWithin(m.quota_pricing_evidence.reviewed_at, m.executed_at, PricingReviewAge)
  /\ ReviewedWithin(m.policy.reviewed_at, m.executed_at, PolicyReviewAge)
  /\ Cardinality(DOMAIN m.policy.owner_approvals) = 3
  /\ \A t \in approved : t # NoTime /\ t <= m.executed_at + Skew

\* want is the deployment the manifest must be about; "" is None.
ProviderManifestValidationError(m, now, want) ==
  CASE m.schema_version # 2                                -> "llm_evidence_schema_invalid"
    [] m.schema_version = 2 /\ m.result # "pass"           -> "llm_evidence_result_not_pass"
    [] m.schema_version = 2 /\ m.result = "pass"           ->
         IF ~ProviderManifestContractComplete(m)           THEN "llm_evidence_contract_incomplete"
         ELSE IF m.provider_id # want.provider_id          THEN "llm_evidence_provider_id_mismatch"
         ELSE IF m.provider_origin # want.provider_origin  THEN "llm_evidence_provider_mismatch"
         ELSE IF m.model # want.model                      THEN "llm_evidence_model_mismatch"
         ELSE IF m.release_digest # want.release_digest    THEN "llm_evidence_release_mismatch"
         ELSE IF m.commit_sha # want.commit_sha            THEN "llm_evidence_commit_mismatch"
         ELSE IF ~EvidenceIsCurrent(m, now)                THEN "llm_evidence_expired"
         ELSE IF ~(RequiredChecks \subseteq m.required_checks) THEN "llm_evidence_checks_incomplete"
         ELSE ""
===============================================================================
