-------------------------------- MODULE MCProbe --------------------------------
(* Inputs of the probe: a good case, and each good file or variable changed *)
EXTENDS Probe

Secret(text) == [kind |-> "regular", trusted_owner |-> TRUE, private |-> TRUE, text |-> text]
NotSet       == [direct |-> Unset, file |-> Unset]
FromFile(f)  == [direct |-> Unset, file |-> f]

GoodEnv ==
  [AIOPS_ENV |-> "prod",
   AIOPS_SESSION_SECRET |-> FromFile(Secret("32 characters")), AIOPS_BOOTSTRAP_ADMIN_PASSWORD |-> NotSet,
   AIOPS_SETUP_TOKEN |-> NotSet, AIOPS_SETUP_TOKEN_EXPIRES_AT |-> -1,
   AIOPS_TRUSTED_ORIGINS |-> "https origins", AIOPS_COOKIE_SECURE |-> "1", AIOPS_TLS_ENABLED |-> "1",
   AIOPS_DEBUG_SKIP_PASSWORD_CHANGE |-> Unset,
   AIOPS_LLM_MODE |-> "deepseek", AIOPS_LLM_ENABLED_PROVIDERS |-> {"deepseek"},
   AIOPS_LLM_BASE_URL |-> [text |-> "https://api.deepseek.com"],
   AIOPS_LLM_MODEL |-> [text |-> "m1", padded |-> FALSE],
   AIOPS_RELEASE_DIGEST |-> Digest("r1"),
   AIOPS_COMMIT_SHA |-> [of |-> "c1", form |-> "lower", length |-> 40],
   AIOPS_EVIDENCE_RUNNER_IDENTITY |-> "ci",
   AIOPS_LLM_EVIDENCE_FILE |-> Unset, AIOPS_LLM_EVIDENCE_SHA256 |-> Unset,
   keys |-> [k \in KeyNames |-> IF k = "AIOPS_DEEPSEEK_API_KEY" THEN FromFile(Secret("key")) ELSE NotSet]]

Zhipu ==
  [GoodEnv EXCEPT !.AIOPS_LLM_MODE = "zhipu", !.AIOPS_LLM_ENABLED_PROVIDERS = {"zhipu"},
                  !.AIOPS_LLM_BASE_URL.text = "https://open.bigmodel.cn/api/paas/v4",
                  !.keys = [k \in KeyNames |-> IF k = "AIOPS_LLM_API_KEY" THEN FromFile(Secret("key")) ELSE NotSet]]

KeyIs(f) == [GoodEnv EXCEPT !.keys["AIOPS_DEEPSEEK_API_KEY"].file = f]

\* The probe reads no variable of the service itself.
ServiceCases ==
  {[GoodEnv EXCEPT !.AIOPS_ENV = "dev"], [GoodEnv EXCEPT !.AIOPS_ENV = "stage"],
   [GoodEnv EXCEPT !.AIOPS_SESSION_SECRET = NotSet],
   [GoodEnv EXCEPT !.AIOPS_SESSION_SECRET = [direct |-> "32 characters", file |-> Secret("32 characters")]],
   [GoodEnv EXCEPT !.AIOPS_SESSION_SECRET = FromFile(Secret("short"))],
   [GoodEnv EXCEPT !.AIOPS_BOOTSTRAP_ADMIN_PASSWORD.direct = "pw"],
   [GoodEnv EXCEPT !.AIOPS_SETUP_TOKEN.direct = "32 characters", !.AIOPS_SETUP_TOKEN_EXPIRES_AT = 9],
   [GoodEnv EXCEPT !.AIOPS_SETUP_TOKEN_EXPIRES_AT = 9],
   [GoodEnv EXCEPT !.AIOPS_TRUSTED_ORIGINS = "http origins"], [GoodEnv EXCEPT !.AIOPS_COOKIE_SECURE = "0"],
   [GoodEnv EXCEPT !.AIOPS_TLS_ENABLED = "maybe"], [GoodEnv EXCEPT !.AIOPS_DEBUG_SKIP_PASSWORD_CHANGE = "1"]}

EnvCases ==
  {GoodEnv, Zhipu, [GoodEnv EXCEPT !.AIOPS_LLM_MODE = "zhipu"], [GoodEnv EXCEPT !.AIOPS_LLM_MODE = "mock"],
   [GoodEnv EXCEPT !.AIOPS_LLM_ENABLED_PROVIDERS = Unset],
   [GoodEnv EXCEPT !.AIOPS_LLM_ENABLED_PROVIDERS = {"deepseek", "zhipu"}],
   [GoodEnv EXCEPT !.AIOPS_LLM_BASE_URL.text = "https://proxy"],
   [GoodEnv EXCEPT !.AIOPS_LLM_MODEL.text = "m2"], [GoodEnv EXCEPT !.AIOPS_LLM_MODEL.padded = TRUE],
   [GoodEnv EXCEPT !.AIOPS_RELEASE_DIGEST = Digest("r2")],
   [GoodEnv EXCEPT !.AIOPS_RELEASE_DIGEST.form = "upper"], [GoodEnv EXCEPT !.AIOPS_RELEASE_DIGEST = Unset],
   [GoodEnv EXCEPT !.AIOPS_COMMIT_SHA.of = "c2"], [GoodEnv EXCEPT !.AIOPS_COMMIT_SHA.length = 12],
   [GoodEnv EXCEPT !.AIOPS_COMMIT_SHA = Unset],
   [GoodEnv EXCEPT !.AIOPS_RELEASE_DIGEST.form = "malformed"], [GoodEnv EXCEPT !.AIOPS_COMMIT_SHA.form = "malformed"]}
  \cup
  {KeyIs(Unset), KeyIs([Secret("key") EXCEPT !.kind = "symlink"]), KeyIs([Secret("key") EXCEPT !.private = FALSE]),
   KeyIs([Secret("key") EXCEPT !.trusted_owner = FALSE]), KeyIs(Secret("")),
   [GoodEnv EXCEPT !.keys["AIOPS_LLM_API_KEY"].direct = "key"],
   [GoodEnv EXCEPT !.keys["AIOPS_LLM_API_KEY"].direct = ""],
   [GoodEnv EXCEPT !.keys["AIOPS_LLM_API_KEY"].file = Secret("key")],
   [GoodEnv EXCEPT !.keys["AIOPS_ZHIPU_API_KEY"].file = [Secret("") EXCEPT !.kind = "no path"]]}

Approval(r, who) ==
  [approved |-> TRUE, role |-> r, approver_identity |-> who, approved_at |-> 1,
   provider_policy_sha256 |-> Digest("policy page"), quota_pricing_snapshot_sha256 |-> Digest("snapshot")]
Rates == [cache_hit_input |-> 0, cache_miss_input |-> 1, output |-> 2]
Quota == [limits |-> 0, balance_alert_threshold |-> 1]

GoodDocs ==
  [page |-> "policy page",
   snapshot |->
     [bytes |-> "snapshot", schema_version |-> 1, provider_id |-> "deepseek", account_identifier |-> "account",
      account_tier |-> "tier", source_url |-> "https://pricing", source_content_sha256 |-> Digest("source page"),
      reviewed_at |-> 1, currency |-> "CNY", prices |-> Rates, quota |-> Quota],
   policy |->
     [provider_id |-> "deepseek", account_identifier |-> "account", region |-> "region", retention |-> "none",
      ai_owner |-> "alice", security_owner |-> "bob", privacy_owner |-> "carol",
      provider_policy_url |-> "https://policy", provider_policy_sha256 |-> Digest("policy page"),
      reviewed_at |-> 0, quota_pricing_source_url |-> "https://pricing",
      quota_pricing_snapshot_sha256 |-> Digest("snapshot"), quota_pricing_reviewed_at |-> 1,
      account_tier |-> "tier", currency |-> "CNY",
      training_opt_out_confirmed |-> TRUE, redacted_operational_data_only |-> TRUE,
      connect_timeout_seconds |-> 1, read_timeout_seconds |-> 1, rates |-> Rates, cost_cap_per_probe |-> 11,
      max_retries |-> 1, max_output_tokens |-> 2, max_input_tokens_per_probe |-> 5, quota |-> Quota,
      owner_approvals |-> [ai |-> Approval("ai", "alice"), security |-> Approval("security", "bob"),
                           privacy |-> Approval("privacy", "carol")]]]

\* A field of the policy, and the field of the snapshot that repeats it.
Both(d, f, g, v) == [d EXCEPT !.policy[f] = v, !.snapshot[g] = v]

DocCases ==
  {GoodDocs,
   [GoodDocs EXCEPT !.page = "changed"], [GoodDocs EXCEPT !.snapshot.bytes = "changed"],
   [GoodDocs EXCEPT !.policy.provider_id = "zhipu"], [GoodDocs EXCEPT !.policy.region = Absent],
   [GoodDocs EXCEPT !.policy.region = NotText], [GoodDocs EXCEPT !.policy.training_opt_out_confirmed = FALSE],
   [GoodDocs EXCEPT !.policy.reviewed_at = NoTime], [GoodDocs EXCEPT !.policy.reviewed_at = 2],
   Both(GoodDocs, "quota_pricing_reviewed_at", "reviewed_at", 0),
   [GoodDocs EXCEPT !.policy.quota_pricing_reviewed_at = 0],
   [GoodDocs EXCEPT !.policy.provider_policy_sha256 = Shouted(@)],
   [GoodDocs EXCEPT !.policy.provider_policy_sha256 = Malformed],
   [GoodDocs EXCEPT !.policy.quota_pricing_snapshot_sha256 = Shouted(@)],
   [GoodDocs EXCEPT !.snapshot.source_content_sha256 = Shouted(@)],
   [GoodDocs EXCEPT !.policy.owner_approvals.ai.provider_policy_sha256 = Shouted(@)],
   Both(GoodDocs, "quota_pricing_source_url", "source_url", "http://page"),
   [GoodDocs EXCEPT !.policy.provider_policy_url = "https://page?q"]}
  \cup
  {[GoodDocs EXCEPT !.policy.cost_cap_per_probe = 10], [GoodDocs EXCEPT !.policy.cost_cap_per_probe = Bad],
   [GoodDocs EXCEPT !.policy.max_input_tokens_per_probe = 4], [GoodDocs EXCEPT !.policy.max_retries = 4],
   [GoodDocs EXCEPT !.policy.max_retries = 0], [GoodDocs EXCEPT !.policy.max_output_tokens = 0],
   [GoodDocs EXCEPT !.policy.connect_timeout_seconds = 0],
   [GoodDocs EXCEPT !.policy.rates.cache_hit_input = 2, !.snapshot.prices.cache_hit_input = 2],
   [GoodDocs EXCEPT !.policy.rates.output = 1], Both(GoodDocs, "account_tier", "account_tier", NotText),
   [GoodDocs EXCEPT !.snapshot.currency = "USD"], [GoodDocs EXCEPT !.snapshot.schema_version = 2],
   [GoodDocs EXCEPT !.policy.quota.limits = Bad], [GoodDocs EXCEPT !.snapshot.quota.limits = 3],
   [GoodDocs EXCEPT !.policy.quota = [limits |-> 0, balance_alert_threshold |-> 1, note |-> 1]]}
  \cup
  {[GoodDocs EXCEPT !.policy.owner_approvals.security.approved = FALSE],
   [GoodDocs EXCEPT !.policy.owner_approvals.security = Approval("ai", "bob")],
   [GoodDocs EXCEPT !.policy.owner_approvals.security.approver_identity = "carol"],
   [GoodDocs EXCEPT !.policy.owner_approvals.security.approver_identity = "ALICE", !.policy.security_owner = "ALICE"],
   [GoodDocs EXCEPT !.policy.owner_approvals.security.approver_identity = NotText, !.policy.security_owner = NotText],
   [GoodDocs EXCEPT !.policy.owner_approvals.privacy.approved_at = 0],
   [GoodDocs EXCEPT !.policy.owner_approvals.privacy.approved_at = 3],
   [GoodDocs EXCEPT !.policy.owner_approvals =
      [r \in Roles \cup {"legal"} |-> IF r = "legal" THEN Approval("legal", "dave") ELSE GoodDocs.policy.owner_approvals[r]]]}

ForZhipu == [Both(GoodDocs, "provider_id", "provider_id", "zhipu") EXCEPT !.policy.max_retries = 1]

MCCases ==
  {[env |-> e, docs |-> GoodDocs] : e \in EnvCases} \cup {[env |-> GoodEnv, docs |-> d] : d \in DocCases}
  \cup {[env |-> Zhipu, docs |-> ForZhipu]}

MCServers == EnvCases \cup ServiceCases

Usage(p, c, o) == [prompt |-> p, cached |-> c, miss |-> p - c, completion |-> o]

MCAnswers ==
  {[model |-> "m1", call |-> "probe_echo", usage |-> u] : u \in {Usage(2, 1, 1), Usage(5, 0, 1), [Usage(2, 1, 1) EXCEPT !.miss = 2]}}
  \cup {[model |-> "m2", call |-> "probe_echo", usage |-> Usage(2, 0, 1)],
        [model |-> "m1", call |-> "unknown_tool", usage |-> Usage(2, 0, 1)]}

MCEvents ==
  {[marker |-> TRUE, usage |-> NoUsage], [marker |-> FALSE, usage |-> Usage(1, 1, 1)]}
===============================================================================
