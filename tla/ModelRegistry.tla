----------------------------- MODULE ModelRegistry ------------------------------
(***************************************************************************)
(* src/src/config/loader.py and src/src/model/: which model clients the    *)
(* role "evaluation" gets from the configuration and the environment, and  *)
(* with which exception it may get none, as operators.                     *)
(*                                                                         *)
(* A model config is a function of its keys, the environment a function of *)
(* the names of variables; an empty variable is an unset one.              *)
(***************************************************************************)
EXTENDS Integers, Sequences

CONSTANTS
  Null,           (* no value *)
  Models,         (* the entries of configs/llm.yaml, by name *)
  DefaultModel,   (* models.evaluation of configs/pipeline.yaml *)
  FallbackModel   (* fallback_models.evaluation, or Null *)

\* What provider classes supply where a config is silent.
ProviderDefaults ==
  [ollama |-> [base_url |-> "localhost", api_key |-> "ollama"],
   openai_compatible |-> [base_url |-> Null, api_key |-> Null]]

EnvKey == [base_url |-> "base_url_env", api_key |-> "api_key_env"]

KnownKeys ==
  {"provider", "model", "temperature"} \cup DOMAIN EnvKey
    \cup {EnvKey[key] : key \in DOMAIN EnvKey}

Get(config, key, default) == IF key \in DOMAIN config THEN config[key] ELSE default

\* load_pipeline_model_names
ModelName(env) == IF env["MODEL_EVALUATION"] # Null THEN env["MODEL_EVALUATION"] ELSE DefaultModel

\* _resolve_with_env: a literal wins over the variable.
Resolved(config, key, env) ==
  IF Get(config, key, Null) # Null THEN config[key]
  ELSE IF EnvKey[key] \in DOMAIN config THEN env[config[EnvKey[key]]]
  ELSE Null

\* The variable is named because its value is needed.
IsUnset(config, key, env) == EnvKey[key] \in DOMAIN config /\ Resolved(config, key, env) = Null

Provider(config) == Get(config, "provider", "openai_compatible")

\* The value a provider's client is built with.
Supplied(config, key, env) ==
  IF Resolved(config, key, env) # Null THEN Resolved(config, key, env)
  ELSE ProviderDefaults[Provider(config)][key]

\* client_from_config: the exception that is raised, or "".
ClientError(name, env) ==
  IF name \notin DOMAIN Models THEN "KeyError"
  ELSE LET config == Models[name]
       IN  IF Provider(config) \notin DOMAIN ProviderDefaults \/ "model" \notin DOMAIN config
             THEN "KeyError"
           ELSE IF \/ \E key \in DOMAIN EnvKey :
                        IsUnset(config, key, env) \/ Supplied(config, key, env) = Null
                   \/ ~(DOMAIN config \subseteq KnownKeys)
             THEN "ValueError"
           ELSE ""

\* client_for_role: the primary's exception comes first; a fallback that
\* cannot be built leaves the role without a client, too.
RoleError(env) ==
  IF ClientError(ModelName(env), env) # "" \/ FallbackModel = Null
  THEN ClientError(ModelName(env), env)
  ELSE ClientError(FallbackModel, env)

\* endpoint_for_role: the primary's base_url, or Null where it raises or has
\* none.  The defaults of providers are not asked.
Endpoint(env) ==
  IF ModelName(env) \notin DOMAIN Models THEN Null
  ELSE LET config == Models[ModelName(env)]
       IN  IF \E key \in DOMAIN EnvKey : IsUnset(config, key, env) THEN Null
           ELSE Resolved(config, "base_url", env)
===============================================================================
