-------------------------------- MODULE MCWebApi --------------------------------
(***************************************************************************)
(* Model checking WebApi: the committed entries of configs/llm.yaml that   *)
(* matter, processes that are and are not set up as they should be, and    *)
(* one request of each kind that is treated differently.                   *)
(***************************************************************************)
EXTENDS WebApi

\* A model beside the process, one behind an address in the environment, and
\* a hosted one.
MCModels ==
  [local |-> [provider |-> "ollama", model |-> "v2", base_url |-> "localhost", api_key |-> "ollama"],
   modal |-> [model |-> "v2", base_url_env |-> "MODAL_INFERENCE_URL", api_key_env |-> "MODAL_API_KEY"],
   hosted |-> [model |-> "flash", base_url |-> "hosted", api_key_env |-> "GOOGLE_API_KEY"]]

MCEnv(name, url) ==
  [MODEL_EVALUATION |-> name, MODAL_INFERENCE_URL |-> url, MODAL_API_KEY |-> "key",
   GOOGLE_API_KEY |-> "key"]

\* Uploads are taken, and one part of the configuration is wrong: nothing, a
\* default criterion with a misspelt name, or one of the scores.
MCMisconfigured ==
  LET sound == [key |-> FALSE, upload |-> TRUE, serving |-> TRUE, env |-> MCEnv(Null, Null),
                invalid |-> {}, unreadable |-> {}]
  IN  {[sound EXCEPT !.invalid = parts] :
         parts \in {{}, {"scoring"}, {"detectors"}, {"detector name"}, {"bucket"}}}
      \cup {[sound EXCEPT !.unreadable = {name}] : name \in {"max_atempts", "min_skills_match"}}

\* A sound configuration, and what is set up otherwise.
MCDeployment(key, upload, serving, env) ==
  [key |-> key, upload |-> upload, serving |-> serving, env |-> env,
   invalid |-> {}, unreadable |-> {}]

MCDeployments ==
  {MCDeployment(TRUE, FALSE, TRUE, MCEnv("modal", "url")),
   MCDeployment(TRUE, TRUE, TRUE, MCEnv("modal", Null)),
   MCDeployment(FALSE, TRUE, FALSE, MCEnv(Null, Null)),
   MCDeployment(TRUE, FALSE, TRUE, MCEnv("misspelt", "url"))}
  \cup MCMisconfigured

MCKind(route, credentials, uploads) ==
  [route |-> route, credentials |-> credentials, weights |-> TRUE, files |-> uploads]

MCKinds ==
  {MCKind("warm", "none", <<>>), MCKind("warm", "right", <<>>),
   MCKind("match", "wrong", <<"text">>), MCKind("match", "right", <<"pdf">>),
   MCKind("match", "right", <<"missing">>), MCKind("ingest", "right", <<"unreadable pdf">>),
   MCKind("compare", "right", <<"pdf", "text">>), MCKind("compare", "right", <<"text", "refused">>),
   MCKind("ingest", "right", <<"text">>),
   [MCKind("match", "right", <<"text">>) EXCEPT !.weights = FALSE]}
===============================================================================
