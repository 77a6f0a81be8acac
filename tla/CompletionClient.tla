---------------------------- MODULE CompletionClient ---------------------------
(***************************************************************************)
(* src/src/services/llm_client.py: the client the agents complete prompts  *)
(* with.  A FallbackInstructorClient tries its models in order, the        *)
(* primary first, each through an InstructorClient that counts its         *)
(* attempts with a hook registered around the call; with one model it is   *)
(* a plain InstructorClient.                                               *)
(*                                                                         *)
(* This module gives the steps of one complete() call; the modules that    *)
(* use a client say when a caller opens a call.  Callers may share a       *)
(* client object, which is what its attempt counting does not support.     *)
(***************************************************************************)
EXTENDS Naturals

CONSTANTS
  Callers,      (* threads that call complete() *)
  Clients,      (* client objects *)
  NumModels,    (* models behind each client; model 1 is the primary *)
  MaxAttempts   (* attempts Instructor makes before it gives a model up *)

ASSUME NumModelsAssumption == NumModels \in Nat \ {0}
ASSUME MaxAttemptsAssumption == MaxAttempts \in Nat \ {0}

VARIABLES
  call,         (* the caller's complete() in progress *)
  active,       (* _active: the model of the client's last served call *)
  lastAttempts  (* last_attempts of the client, 0 for None *)

clientVars == <<call, active, lastAttempts>>

Models == 1 .. NumModels

\* made: attempts of this call on the current model.  counted: how often its
\* hook fired.  client is meaningful while the call is open.
Call == [open : BOOLEAN, client : Clients, model : Models, made : Nat, counted : Nat]

ClientTypeOK ==
  /\ call \in [Callers -> Call]
  /\ active \in [Clients -> Models]
  /\ lastAttempts \in [Clients -> Nat]

ClientInit ==
  /\ call \in [Callers -> [open : {FALSE}, client : {CHOOSE c \in Clients : TRUE},
                           model : {1}, made : {0}, counted : {0}]]
  /\ active = [c \in Clients |-> 1]
  /\ lastAttempts = [c \in Clients |-> 0]

Begun(c, m) == [open |-> TRUE, client |-> c, model |-> m, made |-> 0, counted |-> 0]

\* complete() is entered: the primary is tried first, its hook registered.
OpenCall(t, c) ==
  /\ ~call[t].open
  /\ call' = [call EXCEPT ![t] = Begun(c, 1)]
  /\ UNCHANGED <<active, lastAttempts>>

\* The hooks of all calls in progress on one InstructorClient fire together.
SameInstructorClient(t, u) ==
  /\ call[t].open /\ call[u].open
  /\ call[t].client = call[u].client
  /\ call[t].model = call[u].model

\* One request to the model: the "completion:kwargs" hook fires.
Attempt(t) ==
  /\ call[t].open
  /\ call[t].made < MaxAttempts
  /\ call' = [u \in Callers |->
       [call[u] EXCEPT !.made = IF u = t THEN @ + 1 ELSE @,
                       !.counted = IF SameInstructorClient(t, u) THEN @ + 1 ELSE @]]
  /\ UNCHANGED <<active, lastAttempts>>

\* Mutant: a client that fell back never says that its primary served again.
ServeWithoutReturn(t) ==
  /\ call[t].open /\ call[t].made > 0
  /\ call' = [call EXCEPT ![t].open = FALSE]
  /\ active' = [active EXCEPT ![call[t].client] = IF call[t].model = 1 THEN @ ELSE call[t].model]
  /\ lastAttempts' = [lastAttempts EXCEPT ![call[t].client] = call[t].counted]

\* The answer validates: the model becomes the active one, and its attempt
\* count the client's.
Serve(t) ==
  /\ call[t].open /\ call[t].made > 0
  /\ call' = [call EXCEPT ![t].open = FALSE]
  /\ active' = [active EXCEPT ![call[t].client] = call[t].model]
  /\ lastAttempts' = [lastAttempts EXCEPT ![call[t].client] = call[t].counted]

\* Mutant: the last model is followed by another one.
FallBackPastLast(t) ==
  /\ call[t].open
  /\ call[t].model <= NumModels
  /\ call' = [call EXCEPT ![t] = Begun(@.client, @.model + 1)]
  /\ UNCHANGED <<active, lastAttempts>>

\* InstructorRetryException or APIError with a model left: try the next one.
FallBack(t) ==
  /\ call[t].open
  /\ call[t].model < NumModels
  /\ call' = [call EXCEPT ![t] = Begun(@.client, @.model + 1)]
  /\ UNCHANGED <<active, lastAttempts>>

\* complete() raises: every model failed, or the exception is not one a
\* fallback answers.  A plain client still notes its attempts; a fallback
\* client keeps what it says of its last served call.
CallRaises(t) ==
  /\ call[t].open
  /\ call' = [call EXCEPT ![t].open = FALSE]
  /\ lastAttempts' = IF NumModels = 1
       THEN [lastAttempts EXCEPT ![call[t].client] = call[t].counted]
       ELSE lastAttempts
  /\ UNCHANGED active
===============================================================================
