------------------------- MODULE ExternalModuleLoad -------------------------
(***************************************************************************)
(* Loading an external module (src/lib/src/external_module.cc, the two     *)
(* constructors and the private loading functions): run "<path> metadata", *)
(* validate the document against the metadata schema, register the         *)
(* configuration schema (constructor with a configuration only), then one  *)
(* input and one results schema per action, in metadata order.  A          *)
(* constructor that throws leaves no module.  validateConfiguration is     *)
(* called on a loaded module.                                              *)
(*                                                                         *)
(* The metadata the executable prints is chosen in Init: whether stderr is *)
(* empty, whether stdout is JSON, whether it has the required fields, the  *)
(* configuration entry, and the actions, each with a name and whether its  *)
(* input and results schemas parse (PCPClient::Schema does not throw).     *)
(***************************************************************************)
EXTENDS Naturals, Sequences

CONSTANTS
  ActionNames,       \* the names an action can have
  MaxActions,        \* the longest actions array the metadata can hold
  RedefinitionPolicy \* what PCPClient::Validator::registerSchema does with a
                     \* name it already holds: "reject" or "overwrite"

ASSUME LoadAssumption ==
  /\ MaxActions \in Nat
  /\ RedefinitionPolicy \in {"reject", "overwrite"}

VARIABLES
  lpc,            \* where loading is: probe, configuration, actions, loaded, failed
  ctor,           \* which constructor runs: with or without a configuration
  meta,           \* what "<path> metadata" prints
  configValid,    \* whether the agent's configuration for the module fits its schema
  actions,        \* the actions vector
  inputSchemas,   \* names held by input_validator_
  resultsSchemas, \* names held by results_validator_
  configSchema,   \* config_validator_ holds the module's configuration schema
  next,           \* the index of the action registerActions handles next
  error,          \* the exception the constructor threw, "none" if none
  cstate          \* validateConfiguration: unchecked, ok, rejected

loadVars == <<lpc, ctor, meta, configValid, actions, inputSchemas,
              resultsSchemas, configSchema, next, error, cstate>>

\* One entry of the actions array
ActionDocs ==
  [fields : BOOLEAN, name : ActionNames, input : BOOLEAN, results : BOOLEAN]

\* What the metadata probe can print
MetadataProbes ==
  [stderr : BOOLEAN, json : BOOLEAN, required : BOOLEAN, hasConfig : BOOLEAN,
   configSchemaOK : BOOLEAN,
   actions : UNION {[1..n -> ActionDocs] : n \in 0..MaxActions}]

\* Exceptions a constructor can throw
LoadErrors == {"none", "LoadingError", "validator_error"}

(***************************************************************************)
(* getMetadataValidator: description and actions are required; each action *)
(* requires name, input and results.                                       *)
(***************************************************************************)
MetadataValid(md) ==
  /\ md.required
  /\ \A i \in DOMAIN md.actions : md.actions[i].fields

LoadTypeOK ==
  /\ lpc \in {"probe", "configuration", "actions", "loaded", "failed"}
  /\ ctor \in {"with_config", "without_config"}
  /\ meta \in MetadataProbes
  /\ configValid \in BOOLEAN
  /\ actions \in Seq(ActionNames)
  /\ inputSchemas \subseteq ActionNames
  /\ resultsSchemas \subseteq ActionNames
  /\ configSchema \in BOOLEAN
  /\ next \in 1..(Len(meta.actions) + 1)
  /\ error \in LoadErrors
  /\ cstate \in {"unchecked", "ok", "rejected"}

LoadInit ==
  /\ lpc = "probe"
  /\ ctor \in {"with_config", "without_config"}
  /\ meta \in MetadataProbes
  /\ configValid \in BOOLEAN
  /\ actions = <<>>
  /\ inputSchemas = {}
  /\ resultsSchemas = {}
  /\ configSchema = FALSE
  /\ next = 1
  /\ error = "none"
  /\ cstate = "unchecked"

\* The constructor throws e: the half-built module is destroyed
Fail(e) ==
  /\ lpc' = "failed"
  /\ error' = e

(***************************************************************************)
(* getMetadata: a non-empty stderr, stdout that is not JSON, or a document *)
(* the metadata validator rejects is a LoadingError.  The constructor with *)
(* a configuration goes on to the configuration entry, the other one       *)
(* straight to registerActions.                                            *)
(***************************************************************************)
GetMetadata ==
  /\ lpc = "probe"
  /\ IF meta.stderr \/ ~meta.json \/ ~MetadataValid(meta)
       THEN Fail("LoadingError")
       ELSE /\ lpc' = IF ctor = "with_config" THEN "configuration" ELSE "actions"
            /\ UNCHANGED error
  /\ UNCHANGED <<ctor, meta, configValid, actions, inputSchemas,
                 resultsSchemas, configSchema, next, cstate>>

\* Mutant: the schema_error of a bad configuration schema is not caught
RegisterConfigurationUncaughtMutant ==
  /\ lpc = "configuration"
  /\ \/ /\ ~meta.hasConfig
        /\ lpc' = "actions"
        /\ UNCHANGED <<configSchema, error>>
     \/ /\ meta.hasConfig /\ meta.configSchemaOK
        /\ configSchema' = TRUE
        /\ lpc' = "actions"
        /\ UNCHANGED error
     \/ /\ meta.hasConfig /\ ~meta.configSchemaOK
        /\ Fail("schema_error")
        /\ UNCHANGED configSchema
  /\ UNCHANGED <<ctor, meta, configValid, actions, inputSchemas,
                 resultsSchemas, next, cstate>>

(***************************************************************************)
(* Constructor with a configuration: if the metadata has a configuration   *)
(* entry, registerConfiguration parses it as a schema and registers it     *)
(* under the module name; a schema_error becomes a LoadingError.           *)
(***************************************************************************)
RegisterConfiguration ==
  /\ lpc = "configuration"
  /\ \/ /\ ~meta.hasConfig
        /\ lpc' = "actions"
        /\ UNCHANGED <<configSchema, error>>
     \/ /\ meta.hasConfig /\ meta.configSchemaOK
        /\ configSchema' = TRUE
        /\ lpc' = "actions"
        /\ UNCHANGED error
     \/ /\ meta.hasConfig /\ ~meta.configSchemaOK
        /\ Fail("LoadingError")
        /\ UNCHANGED configSchema
  /\ UNCHANGED <<ctor, meta, configValid, actions, inputSchemas,
                 resultsSchemas, next, cstate>>

\* PCPClient::Validator::registerSchema on a name it already holds
Redefines(held, n) == n \in held /\ RedefinitionPolicy = "reject"

\* Mutant: registerAction's catch logs the schema_error and carries on
RegisterActionSkipMutant ==
  /\ lpc = "actions"
  /\ next <= Len(meta.actions)
  /\ LET a == meta.actions[next] IN
       \/ /\ ~(a.input /\ a.results)
          /\ UNCHANGED <<lpc, actions, inputSchemas, resultsSchemas, error>>
       \/ /\ a.input /\ a.results
          /\ actions' = Append(actions, a.name)
          /\ IF Redefines(inputSchemas, a.name)
               THEN Fail("validator_error")
                    /\ UNCHANGED <<inputSchemas, resultsSchemas>>
               ELSE /\ inputSchemas' = inputSchemas \cup {a.name}
                    /\ resultsSchemas' = resultsSchemas \cup {a.name}
                    /\ UNCHANGED <<lpc, error>>
  /\ next' = next + 1
  /\ UNCHANGED <<ctor, meta, configValid, configSchema, cstate>>

(***************************************************************************)
(* registerAction for the next entry: both schemas are parsed first (a     *)
(* schema_error is a LoadingError), then the name is pushed on actions and *)
(* the schemas registered.  The validator's error for a name it already    *)
(* holds is neither a schema_error nor a data_error, so neither catch      *)
(* clause stops it.  data_error cannot occur: the metadata validator has   *)
(* checked that name, input and results are present.                      *)
(***************************************************************************)
RegisterAction ==
  /\ lpc = "actions"
  /\ next <= Len(meta.actions)
  /\ LET a == meta.actions[next] IN
       \/ /\ ~(a.input /\ a.results)
          /\ Fail("LoadingError")
          /\ UNCHANGED <<actions, inputSchemas, resultsSchemas>>
       \/ /\ a.input /\ a.results
          /\ actions' = Append(actions, a.name)
          /\ IF Redefines(inputSchemas, a.name)
               THEN Fail("validator_error")
                    /\ UNCHANGED <<inputSchemas, resultsSchemas>>
               ELSE /\ inputSchemas' = inputSchemas \cup {a.name}
                    /\ resultsSchemas' = resultsSchemas \cup {a.name}
                    /\ UNCHANGED <<lpc, error>>
  /\ next' = next + 1
  /\ UNCHANGED <<ctor, meta, configValid, configSchema, cstate>>

\* registerActions has handled every entry: the constructor returns
Loaded ==
  /\ lpc = "actions"
  /\ next > Len(meta.actions)
  /\ lpc' = "loaded"
  /\ UNCHANGED <<ctor, meta, configValid, actions, inputSchemas,
                 resultsSchemas, configSchema, next, error, cstate>>

(***************************************************************************)
(* validateConfiguration: with a registered configuration schema the       *)
(* configuration is validated (a validation_error if it does not fit);     *)
(* without one it is accepted unvalidated.                                 *)
(***************************************************************************)
ValidateConfiguration ==
  /\ lpc = "loaded"
  /\ cstate = "unchecked"
  /\ cstate' = IF configSchema /\ ~configValid THEN "rejected" ELSE "ok"
  /\ UNCHANGED <<lpc, ctor, meta, configValid, actions, inputSchemas,
                 resultsSchemas, configSchema, next, error>>

\* Loading is over: the constructor threw, or the module is validated
LoadDone ==
  /\ lpc = "failed" \/ cstate # "unchecked"
  /\ UNCHANGED loadVars

LoadNext ==
  \/ GetMetadata
  \/ RegisterConfiguration
  \/ RegisterAction
  \/ Loaded
  \/ ValidateConfiguration
  \/ LoadDone

LoadSpec == LoadInit /\ [][LoadNext]_loadVars

-----------------------------------------------------------------------------
(* Properties *)

\* The names of the metadata's actions, in order
MetadataActionNames == [i \in DOMAIN meta.actions |-> meta.actions[i].name]

(***************************************************************************)
(* Spec section 8: a loaded module advertises exactly the metadata's       *)
(* actions, in order, and holds an input and a results schema for each;    *)
(* it holds the configuration schema exactly when it was built with a      *)
(* configuration and the metadata has one (the constructors and            *)
(* registerAction, lines 69-109 and 221-251).                              *)
(***************************************************************************)
LoadedModuleMatchesMetadata ==
  lpc = "loaded" =>
    /\ actions = MetadataActionNames
    /\ \A i \in DOMAIN actions :
         actions[i] \in inputSchemas /\ actions[i] \in resultsSchemas
    /\ configSchema = (ctor = "with_config" /\ meta.hasConfig)

(***************************************************************************)
(* Spec section 4.1, step 7: action names are unique within a loaded       *)
(* module.                                                                 *)
(***************************************************************************)
ActionNamesUnique ==
  lpc = "loaded" =>
    \A i, j \in DOMAIN actions : i # j => actions[i] # actions[j]

(***************************************************************************)
(* Spec section 7: a module that cannot be loaded fails with a            *)
(* LoadingError, which the agent skips to carry on starting up; a         *)
(* schema-registration failure is one of them.                             *)
(***************************************************************************)
FailuresAreLoadingErrors ==
  lpc = "failed" => error = "LoadingError"

=============================================================================
