-------------------------------- MODULE Config --------------------------------
(***************************************************************************)
(* How the server reads its configuration (backend/app/config.py): the     *)
(* environment it is started with, the files that hold its secrets, what   *)
(* load_settings(validate=True) refuses, and the settings it hands to the  *)
(* rest of the program.                                                    *)
(*                                                                         *)
(* An environment is a record with a field per variable.  A secret has a   *)
(* variable and a ..._FILE variable, and the file is a record of what the  *)
(* checks look at.  Text the code strips or lower-cases before it looks at *)
(* it is modelled stripped, and with its spelling where that is kept.      *)
(***************************************************************************)
EXTENDS Integers, FiniteSets

CONSTANTS MaxSetupTtl,   \* MAX_SETUP_TTL: one hour
          Unset          \* a variable that is not in the environment

ASSUME SetupTtlAssumption == MaxSetupTtl \in Nat

(* backend/app/ai/provider_profiles.py *)
LiveProviderIds == {"deepseek", "moonshot", "zhipu", "openai_compatible"}

Profile(p) ==
  CASE p = "deepseek" ->
         [url |-> "https://api.deepseek.com", key |-> "AIOPS_DEEPSEEK_API_KEY", lists_models |-> TRUE,
          cache |-> "deepseek_cache_fields"]
    [] p = "moonshot" ->
         [url |-> "https://api.moonshot.ai/v1", key |-> "AIOPS_MOONSHOT_API_KEY", lists_models |-> TRUE,
          cache |-> "kimi_cached_tokens"]
    [] p = "zhipu" ->
         [url |-> "https://open.bigmodel.cn/api/paas/v4", key |-> "AIOPS_ZHIPU_API_KEY", lists_models |-> FALSE,
          cache |-> "prompt_tokens_details"]
    [] OTHER ->
         [url |-> Unset, key |-> Unset, lists_models |-> TRUE, cache |-> "prompt_tokens_details"]

KeyNames      == {"AIOPS_LLM_API_KEY", "AIOPS_DEEPSEEK_API_KEY", "AIOPS_MOONSHOT_API_KEY", "AIOPS_ZHIPU_API_KEY"}
OwnerOfKey(k) == {p \in LiveProviderIds : Profile(p).key = k}

CleanUrl(u) == u \notin {Unset, "", "http://llm", "https://user@llm", "https://llm?q"}

\* LLMProviderProfile.validate_base_url(production=True); the slash at the end is not compared.
ValidateBaseUrl(p, url) ==
  /\ CleanUrl(url.text)
  /\ Profile(p).url = Unset \/ url.text = Profile(p).url

-------------------------------------------------------------------------------
(* Reading one variable *)

\* _read_secret_file: a protected file is opened without following a link and its owner,
\* mode and size are checked; any other has to be a file, behind a link or not.
ReadSecretFile(f, protected) ==
  /\ IF protected
     THEN f.kind = "regular" /\ f.trusted_owner /\ f.private
     ELSE f.kind \in {"regular", "symlink"}
  /\ f.text # ""

\* _secret_value: not both; a file is read now, an empty variable counts as configured.
SecretLoads(s, protected) ==
  /\ s.direct = Unset \/ s.file = Unset
  /\ s.file = Unset \/ ReadSecretFile(s.file, protected)
Configured(s) == s.direct # Unset \/ s.file # Unset
SecretText(s) == IF s.file # Unset THEN s.file.text ELSE s.direct

\* _parse_bool
BoolLoads(raw) == raw \in {Unset, "1", "0"}
ParseBool(raw, default) == IF raw = Unset THEN default ELSE raw = "1"

\* _release_identifier: stripped and lower-cased, then matched with a pattern.
DigestLoads(d) == d = Unset \/ d.form \in {"lower", "upper"}
CommitLoads(c) == c = Unset \/ (c.form \in {"lower", "upper"} /\ c.length \in 7..64)
Identifier(x)  == IF x # Unset /\ x.form = "upper" THEN [x EXCEPT !.form = "lower"] ELSE x

Variables ==
  {"AIOPS_ENV", "AIOPS_SESSION_SECRET", "AIOPS_BOOTSTRAP_ADMIN_PASSWORD", "AIOPS_SETUP_TOKEN",
   "AIOPS_SETUP_TOKEN_EXPIRES_AT", "AIOPS_TRUSTED_ORIGINS", "AIOPS_COOKIE_SECURE", "AIOPS_TLS_ENABLED",
   "AIOPS_DEBUG_SKIP_PASSWORD_CHANGE", "AIOPS_LLM_MODE", "AIOPS_LLM_ENABLED_PROVIDERS", "AIOPS_LLM_BASE_URL",
   "AIOPS_LLM_MODEL", "AIOPS_RELEASE_DIGEST", "AIOPS_COMMIT_SHA", "AIOPS_EVIDENCE_RUNNER_IDENTITY",
   "AIOPS_LLM_EVIDENCE_FILE", "AIOPS_LLM_EVIDENCE_SHA256", "keys"}

\* _parse_datetime: -1 is an empty variable, Unzoned a time that is refused.
Unzoned == -2

-------------------------------------------------------------------------------
(* load_settings *)

EnabledProviders(env) ==
  IF env.AIOPS_LLM_ENABLED_PROVIDERS = Unset THEN {env.AIOPS_LLM_MODE} \cap LiveProviderIds
                                             ELSE env.AIOPS_LLM_ENABLED_PROVIDERS

\* In production a variable that is set at all, even to nothing, is refused.
KeysLoad(env) ==
  LET sources == {k \in KeyNames : Configured(env.keys[k])} IN
  /\ env.AIOPS_ENV = "prod" => \A k \in KeyNames : env.keys[k].direct = Unset
  /\ \A k \in KeyNames : SecretLoads(env.keys[k], env.AIOPS_ENV = "prod")
  /\ Cardinality(sources) <= 1
  /\ \A k \in sources : OwnerOfKey(k) \in {{}, {env.AIOPS_LLM_MODE}}

\* The part of the environment that is about the service itself, and the part about its model.
ServiceLoads(env) ==
  /\ env.AIOPS_ENV \in {Unset, "dev", "test", "prod"}
  /\ \A s \in {"AIOPS_SESSION_SECRET", "AIOPS_BOOTSTRAP_ADMIN_PASSWORD", "AIOPS_SETUP_TOKEN"} :
       SecretLoads(env[s], FALSE)
  /\ \A b \in {"AIOPS_COOKIE_SECURE", "AIOPS_TLS_ENABLED", "AIOPS_DEBUG_SKIP_PASSWORD_CHANGE"} :
       BoolLoads(env[b])
  /\ env.AIOPS_SETUP_TOKEN_EXPIRES_AT # Unzoned

ModelLoads(env) ==
  /\ EnabledProviders(env) \subseteq LiveProviderIds
  /\ KeysLoad(env)
  /\ DigestLoads(env.AIOPS_RELEASE_DIGEST) /\ DigestLoads(env.AIOPS_LLM_EVIDENCE_SHA256)
  /\ CommitLoads(env.AIOPS_COMMIT_SHA)

\* The settings validate_provider_evidence uses.  Origin and model keep their spelling.
Settings(env) ==
  [is_production         |-> env.AIOPS_ENV = "prod",
   release_digest        |-> Identifier(env.AIOPS_RELEASE_DIGEST),
   commit_sha            |-> Identifier(env.AIOPS_COMMIT_SHA),
   llm_mode              |-> env.AIOPS_LLM_MODE,
   llm_base_url          |-> env.AIOPS_LLM_BASE_URL.text,
   llm_model             |-> env.AIOPS_LLM_MODEL,
   llm_enabled_providers |-> EnabledProviders(env),
   llm_evidence_file     |-> env.AIOPS_LLM_EVIDENCE_FILE,
   llm_evidence_sha256   |-> Identifier(env.AIOPS_LLM_EVIDENCE_SHA256)]

-------------------------------------------------------------------------------
(* Settings.validate_static in production, in the order of its parts *)

SessionIsSafe(env) ==
  Configured(env.AIOPS_SESSION_SECRET) /\ SecretText(env.AIOPS_SESSION_SECRET) = "32 characters"

OriginsAreSafe(env) == env.AIOPS_TRUSTED_ORIGINS = "https origins"

CookiesAreSafe(env) ==
  /\ env.AIOPS_COOKIE_SECURE = "1" /\ env.AIOPS_TLS_ENABLED = "1"
  /\ ~ParseBool(env.AIOPS_DEBUG_SKIP_PASSWORD_CHANGE, FALSE)
  /\ ~Configured(env.AIOPS_BOOTSTRAP_ADMIN_PASSWORD)

EnrollmentIsShort(env, now) ==
  LET token == env.AIOPS_SETUP_TOKEN  until == env.AIOPS_SETUP_TOKEN_EXPIRES_AT IN
  IF Configured(token)
  THEN /\ SecretText(token) = "32 characters"
       /\ until >= 0 /\ until > now /\ until - now <= MaxSetupTtl
  ELSE until < 0

ProviderIsLive(env) ==
  /\ env.AIOPS_LLM_MODE \in LiveProviderIds
  /\ ValidateBaseUrl(env.AIOPS_LLM_MODE, env.AIOPS_LLM_BASE_URL)
  /\ env.AIOPS_LLM_MODEL.text # ""
  /\ env.AIOPS_LLM_ENABLED_PROVIDERS = {env.AIOPS_LLM_MODE}

KeyIsFromFile(env) == \E k \in KeyNames : env.keys[k].file # Unset

EvidenceIsPaired(env) ==
  (env.AIOPS_LLM_EVIDENCE_FILE = Unset) = (env.AIOPS_LLM_EVIDENCE_SHA256 = Unset)

\* validate_initialization: the token is there exactly while nobody is enrolled.
EnrollmentIsOver(env, initialized) == initialized # Configured(env.AIOPS_SETUP_TOKEN)

ServiceBoots(env, now, initialized) ==
  /\ ServiceLoads(env)
  /\ env.AIOPS_ENV = "prod" =>
       /\ SessionIsSafe(env) /\ OriginsAreSafe(env) /\ CookiesAreSafe(env)
       /\ EnrollmentIsShort(env, now) /\ EnrollmentIsOver(env, initialized)

Boots(env, now, initialized) ==
  /\ ServiceBoots(env, now, initialized) /\ ModelLoads(env)
  /\ env.AIOPS_ENV = "prod" => ProviderIsLive(env) /\ KeyIsFromFile(env) /\ EvidenceIsPaired(env)
===============================================================================
