--------------------- MODULE ExternalModuleLoad_proofs ----------------------
(***************************************************************************)
(* Proofs about ExternalModuleLoad for every set of action names and every *)
(* bound on the metadata's actions: the type invariant, that a loaded      *)
(* module matches its metadata, and that with a validator that rejects     *)
(* redefinitions a loaded module's action names are unique.                *)
(***************************************************************************)
EXTENDS ExternalModuleLoad, SequenceTheorems, TLAPS

\* The names of the first k entries of the metadata's actions array
NamesUpTo(k) == [i \in 1..k |-> meta.actions[i].name]

\* The same names as a set: what both validators hold after k entries
NameSetUpTo(k) == {meta.actions[i].name : i \in 1..k}

(***************************************************************************)
(* What the constructor has built by each stage: nothing before            *)
(* registerActions; during it and after it, exactly the first next - 1     *)
(* entries, pushed in order and registered in both validators; the whole   *)
(* array once loaded; and the configuration schema exactly when the        *)
(* constructor with a configuration got past an entry the metadata has.    *)
(***************************************************************************)
BuiltInv ==
  /\ lpc = "configuration" => ctor = "with_config"
  /\ lpc \in {"probe", "configuration"} =>
       /\ next = 1 /\ actions = <<>>
       /\ inputSchemas = {} /\ resultsSchemas = {}
  /\ lpc \in {"configuration", "actions", "loaded"} => MetadataValid(meta)
  /\ lpc \in {"actions", "loaded"} =>
       /\ actions = NamesUpTo(next - 1)
       /\ inputSchemas = NameSetUpTo(next - 1)
       /\ resultsSchemas = NameSetUpTo(next - 1)
  /\ lpc = "loaded" => next = Len(meta.actions) + 1
  /\ lpc # "failed" =>
       (configSchema <=> /\ ctor = "with_config" /\ meta.hasConfig
                         /\ lpc \in {"actions", "loaded"})

LoadInv == LoadTypeOK /\ BuiltInv

-----------------------------------------------------------------------------
(* Lemmas about the metadata and the prefixes of its actions *)

\* The actions array of a probe is a sequence of action documents.
LEMMA ProbeActions ==
  ASSUME NEW md \in MetadataProbes
  PROVE  md.actions \in Seq(ActionDocs)
<1>1. PICK n \in 0..MaxActions : md.actions \in [1..n -> ActionDocs]
  BY DEF MetadataProbes
<1>2. n \in Nat
  BY LoadAssumption
<1>3. QED
  BY <1>1, <1>2

\* A prefix of the names is a sequence of names of its length.
LEMMA NamesUpToTyped ==
  ASSUME meta \in MetadataProbes, NEW k \in 0..Len(meta.actions)
  PROVE  /\ NamesUpTo(k) \in Seq(ActionNames)
         /\ Len(NamesUpTo(k)) = k
<1>1. meta.actions \in Seq(ActionDocs)
  BY ProbeActions
<1>2. \A i \in 1..k : meta.actions[i] \in ActionDocs
  BY <1>1
<1>3. \A i \in 1..k : meta.actions[i].name \in ActionNames
  BY <1>2 DEF ActionDocs
<1>4. QED
  BY <1>3 DEF NamesUpTo

\* Pushing entry k + 1's name extends the prefix of k names by one.
LEMMA NamesUpToAppend ==
  ASSUME meta \in MetadataProbes, NEW k \in 0..(Len(meta.actions) - 1)
  PROVE  /\ Append(NamesUpTo(k), meta.actions[k + 1].name) = NamesUpTo(k + 1)
         /\ NameSetUpTo(k) \cup {meta.actions[k + 1].name} = NameSetUpTo(k + 1)
<1>1. Len(NamesUpTo(k)) = k /\ NamesUpTo(k) \in Seq(ActionNames)
  BY NamesUpToTyped
<1>2. Append(NamesUpTo(k), meta.actions[k + 1].name) = NamesUpTo(k + 1)
  BY <1>1 DEF NamesUpTo
<1>3. NameSetUpTo(k) \cup {meta.actions[k + 1].name} = NameSetUpTo(k + 1)
  BY DEF NameSetUpTo
<1>4. QED
  BY <1>2, <1>3

-----------------------------------------------------------------------------
(* The inductive invariant *)

LEMMA LoadInitInv ==
  ASSUME LoadInit
  PROVE  LoadInv
<1>1. meta.actions \in Seq(ActionDocs)
  BY ProbeActions DEF LoadInit
<1>2. LoadTypeOK
  <2>1. next \in 1..(Len(meta.actions) + 1)
    BY <1>1 DEF LoadInit
  <2>2. actions \in Seq(ActionNames)
    BY DEF LoadInit
  <2>3. QED
    BY <2>1, <2>2, Zenon DEF LoadInit, LoadTypeOK, LoadErrors
<1>3. lpc = "probe" /\ next = 1 /\ actions = <<>> /\ inputSchemas = {}
      /\ resultsSchemas = {} /\ configSchema = FALSE
  BY DEF LoadInit
<1>4. BuiltInv
  BY <1>3 DEF BuiltInv
<1>5. QED
  BY <1>2, <1>4 DEF LoadInv

\* Every step keeps the probe's output.
LEMMA MetaConstant ==
  ASSUME LoadNext
  PROVE  meta' = meta
BY DEF LoadNext, GetMetadata, RegisterConfiguration, RegisterAction, Loaded,
   ValidateConfiguration, LoadDone, loadVars

\* Building is in registerActions with the first next' - 1 entries done.
LEMMA BuiltAtActions ==
  ASSUME meta' = meta, lpc' = "actions", MetadataValid(meta),
         actions' = NamesUpTo(next' - 1),
         inputSchemas' = NameSetUpTo(next' - 1),
         resultsSchemas' = NameSetUpTo(next' - 1),
         configSchema' <=> (ctor' = "with_config" /\ meta.hasConfig)
  PROVE  BuiltInv'
<1>1. MetadataValid(meta')
  BY DEF MetadataValid
<1>2. (NamesUpTo(next - 1))' = NamesUpTo(next' - 1)
      /\ (NameSetUpTo(next - 1))' = NameSetUpTo(next' - 1)
  BY DEF NamesUpTo, NameSetUpTo
<1>3. QED
  BY <1>1, <1>2 DEF BuiltInv

\* The constructor throwing keeps the invariant: a failed load holds nothing
\* the invariant speaks of.
LEMMA FailInv ==
  ASSUME LoadTypeOK, NEW e \in LoadErrors, Fail(e), meta' = meta,
         UNCHANGED <<ctor, configValid, cstate>>,
         actions' \in Seq(ActionNames), inputSchemas' \subseteq ActionNames,
         resultsSchemas' \subseteq ActionNames, configSchema' \in BOOLEAN,
         next' \in 1..(Len(meta.actions) + 1)
  PROVE  LoadInv'
<1>1. LoadTypeOK'
  BY Zenon DEF Fail, LoadTypeOK
<1>2. BuiltInv'
  BY DEF Fail, BuiltInv
<1>3. QED
  BY <1>1, <1>2 DEF LoadInv

\* getMetadata: the probe fails, or the metadata is valid and loading moves on
\* with nothing built yet.
LEMMA GetMetadataInv ==
  ASSUME LoadInv, GetMetadata
  PROVE  LoadInv'
<1>1. /\ lpc = "probe" /\ next = 1 /\ actions = <<>> /\ inputSchemas = {}
      /\ resultsSchemas = {} /\ configSchema = FALSE
      /\ UNCHANGED <<ctor, meta, configValid, actions, inputSchemas,
                     resultsSchemas, configSchema, next, cstate>>
  BY DEF LoadInv, BuiltInv, GetMetadata
<1>2. meta.actions \in Seq(ActionDocs) /\ LoadTypeOK
  BY ProbeActions DEF LoadInv, LoadTypeOK
<1>3. CASE meta.stderr \/ ~meta.json \/ ~MetadataValid(meta)
  <2>1. Fail("LoadingError")
    BY <1>3 DEF GetMetadata
  <2>2. QED
    BY <1>1, <1>2, <2>1, FailInv DEF LoadTypeOK, LoadErrors
<1>4. CASE ~(meta.stderr \/ ~meta.json \/ ~MetadataValid(meta))
  <2>1. /\ lpc' = IF ctor = "with_config" THEN "configuration" ELSE "actions"
        /\ UNCHANGED error
    BY <1>4 DEF GetMetadata
  <2>2. MetadataValid(meta)
    BY <1>4
  <2>3. NamesUpTo(0) = <<>> /\ NameSetUpTo(0) = {}
    BY DEF NamesUpTo, NameSetUpTo
  <2>4. LoadTypeOK'
    BY <1>1, <1>2, <2>1 DEF LoadTypeOK
  <2>5. BuiltInv'
    <3>1. CASE ctor = "with_config"
      BY <1>1, <2>1, <2>2, <3>1 DEF BuiltInv, MetadataValid
    <3>2. CASE ctor # "with_config"
      BY <1>1, <2>1, <2>2, <2>3, <3>2, BuiltAtActions
    <3>3. QED
      BY <3>1, <3>2
  <2>6. QED
    BY <2>4, <2>5 DEF LoadInv
<1>5. QED
  BY <1>3, <1>4

\* registerConfiguration: the constructor with a configuration registers the
\* metadata's configuration schema, if it has one, or throws.
LEMMA RegisterConfigurationInv ==
  ASSUME LoadInv, RegisterConfiguration
  PROVE  LoadInv'
<1>1. /\ lpc = "configuration" /\ ctor = "with_config" /\ MetadataValid(meta)
      /\ next = 1 /\ actions = <<>> /\ inputSchemas = {}
      /\ resultsSchemas = {} /\ configSchema = FALSE
      /\ UNCHANGED <<ctor, meta, configValid, actions, inputSchemas,
                     resultsSchemas, next, cstate>>
  BY DEF LoadInv, BuiltInv, RegisterConfiguration
<1>2. LoadTypeOK /\ NamesUpTo(0) = <<>> /\ NameSetUpTo(0) = {}
  BY DEF LoadInv, NamesUpTo, NameSetUpTo
<1>3. CASE ~meta.hasConfig /\ lpc' = "actions" /\ UNCHANGED <<configSchema, error>>
  <2>1. LoadTypeOK'
    BY <1>1, <1>2, <1>3 DEF LoadTypeOK
  <2>2. BuiltInv'
    BY <1>1, <1>2, <1>3, BuiltAtActions
  <2>3. QED
    BY <2>1, <2>2 DEF LoadInv
<1>4. CASE meta.hasConfig /\ meta.configSchemaOK /\ configSchema' = TRUE
           /\ lpc' = "actions" /\ UNCHANGED error
  <2>1. LoadTypeOK'
    BY <1>1, <1>2, <1>4 DEF LoadTypeOK
  <2>2. BuiltInv'
    BY <1>1, <1>2, <1>4, BuiltAtActions
  <2>3. QED
    BY <2>1, <2>2 DEF LoadInv
<1>5. CASE Fail("LoadingError") /\ UNCHANGED configSchema
  BY <1>1, <1>2, <1>5, FailInv DEF LoadTypeOK, LoadErrors
<1>6. QED
  BY <1>3, <1>4, <1>5 DEF RegisterConfiguration

\* registerAction: the next entry is pushed and registered, or the
\* constructor throws.
LEMMA RegisterActionInv ==
  ASSUME LoadInv, RegisterAction
  PROVE  LoadInv'
<1> DEFINE a == meta.actions[next]
<1>1. /\ lpc = "actions" /\ next <= Len(meta.actions) /\ MetadataValid(meta)
      /\ actions = NamesUpTo(next - 1)
      /\ inputSchemas = NameSetUpTo(next - 1)
      /\ resultsSchemas = NameSetUpTo(next - 1)
      /\ configSchema <=> (ctor = "with_config" /\ meta.hasConfig)
      /\ next' = next + 1
      /\ UNCHANGED <<ctor, meta, configValid, configSchema, cstate>>
  BY DEF LoadInv, BuiltInv, RegisterAction
<1>2. /\ LoadTypeOK /\ meta.actions \in Seq(ActionDocs)
      /\ next \in 1..Len(meta.actions)
  BY <1>1, ProbeActions DEF LoadInv, LoadTypeOK
<1>3. a \in ActionDocs /\ a.name \in ActionNames
  <2>1. a \in ActionDocs
    BY <1>2
  <2>2. QED
    BY <2>1 DEF ActionDocs
<1>4. /\ Append(actions, a.name) = NamesUpTo(next)
      /\ inputSchemas \cup {a.name} = NameSetUpTo(next)
  <2>1. next - 1 \in 0..(Len(meta.actions) - 1) /\ (next - 1) + 1 = next
    BY <1>2
  <2>2. meta \in MetadataProbes
    BY <1>2 DEF LoadTypeOK
  <2>3. /\ Append(NamesUpTo(next - 1), meta.actions[(next - 1) + 1].name)
           = NamesUpTo((next - 1) + 1)
        /\ NameSetUpTo(next - 1) \cup {meta.actions[(next - 1) + 1].name}
           = NameSetUpTo((next - 1) + 1)
    BY <2>1, <2>2, NamesUpToAppend
  <2>4. QED
    BY <1>1, <2>1, <2>3
<1>5. /\ Append(actions, a.name) \in Seq(ActionNames)
      /\ next' \in 1..(Len(meta.actions) + 1)
  BY <1>1, <1>2, <1>3 DEF LoadTypeOK
<1>6. CASE ~(a.input /\ a.results)
  <2>1. Fail("LoadingError") /\ UNCHANGED <<actions, inputSchemas, resultsSchemas>>
    BY <1>6 DEF RegisterAction
  <2>2. QED
    BY <1>1, <1>2, <1>5, <2>1, FailInv DEF LoadTypeOK, LoadErrors
<1>7. CASE a.input /\ a.results /\ Redefines(inputSchemas, a.name)
  <2>1. /\ Fail("validator_error") /\ actions' = Append(actions, a.name)
        /\ UNCHANGED <<inputSchemas, resultsSchemas>>
    BY <1>7 DEF RegisterAction
  <2>2. QED
    BY <1>1, <1>2, <1>5, <2>1, FailInv DEF LoadTypeOK, LoadErrors
<1>8. CASE a.input /\ a.results /\ ~Redefines(inputSchemas, a.name)
  <2>1. /\ actions' = Append(actions, a.name)
        /\ inputSchemas' = inputSchemas \cup {a.name}
        /\ resultsSchemas' = resultsSchemas \cup {a.name}
        /\ UNCHANGED <<lpc, error>>
    BY <1>8 DEF RegisterAction
  <2>2. LoadTypeOK'
    BY <1>1, <1>2, <1>3, <1>5, <2>1 DEF LoadTypeOK
  <2>3. BuiltInv'
    <3>1. next' - 1 = next
      BY <1>1, <1>2
    <3>2. /\ actions' = NamesUpTo(next' - 1)
          /\ inputSchemas' = NameSetUpTo(next' - 1)
          /\ resultsSchemas' = NameSetUpTo(next' - 1)
      BY <1>1, <1>4, <2>1, <3>1
    <3>3. /\ meta' = meta /\ lpc' = "actions" /\ MetadataValid(meta)
          /\ configSchema' <=> (ctor' = "with_config" /\ meta.hasConfig)
      BY <1>1, <2>1
    <3>4. QED
      BY <3>2, <3>3, BuiltAtActions
  <2>4. QED
    BY <2>2, <2>3 DEF LoadInv
<1>9. QED
  BY <1>6, <1>7, <1>8

\* registerActions returns after the last entry; validateConfiguration and
\* the end of loading change nothing the invariant speaks of.
LEMMA LoadedInv ==
  ASSUME LoadInv, Loaded \/ ValidateConfiguration \/ LoadDone
  PROVE  LoadInv'
<1>1. LoadTypeOK /\ meta.actions \in Seq(ActionDocs)
  BY ProbeActions DEF LoadInv, LoadTypeOK
<1>2. CASE Loaded
  <2>1. next = Len(meta.actions) + 1
    BY <1>1, <1>2 DEF Loaded, LoadTypeOK
  <2>2. LoadTypeOK'
    BY <1>1, <1>2 DEF Loaded, LoadTypeOK
  <2>3. BuiltInv'
    BY <1>2, <2>1 DEF Loaded, LoadInv, BuiltInv, NamesUpTo, NameSetUpTo,
       MetadataValid
  <2>4. QED
    BY <2>2, <2>3 DEF LoadInv
<1>3. CASE ValidateConfiguration
  <2>1. LoadTypeOK'
    BY <1>1, <1>3 DEF ValidateConfiguration, LoadTypeOK
  <2>2. BuiltInv'
    BY <1>3 DEF ValidateConfiguration, LoadInv, BuiltInv, NamesUpTo,
       NameSetUpTo, MetadataValid
  <2>3. QED
    BY <2>1, <2>2 DEF LoadInv
<1>4. CASE LoadDone
  BY <1>4 DEF LoadDone, loadVars, LoadInv, LoadTypeOK, BuiltInv, NamesUpTo,
     NameSetUpTo, MetadataValid
<1>5. QED
  BY <1>2, <1>3, <1>4

\* Every step, and every stutter, keeps LoadInv.
LEMMA LoadStep ==
  ASSUME LoadInv, [LoadNext]_loadVars
  PROVE  LoadInv'
<1>1. CASE UNCHANGED loadVars
  BY <1>1 DEF loadVars, LoadInv, LoadTypeOK, BuiltInv, NamesUpTo,
     NameSetUpTo, MetadataValid
<1>2. QED
  BY <1>1, GetMetadataInv, RegisterConfigurationInv, RegisterActionInv,
     LoadedInv DEF LoadNext

\* LoadInv holds in every reachable state of loading.
LEMMA LoadInvariant == LoadSpec => []LoadInv
BY LoadInitInv, LoadStep, PTL DEF LoadSpec

(***************************************************************************)
(* For any action names and any bound on the metadata's actions, every     *)
(* reachable state of the constructors is well typed.                     *)
(***************************************************************************)
THEOREM LoadTypeCorrect == LoadSpec => []LoadTypeOK
BY LoadInvariant, PTL DEF LoadInv

(***************************************************************************)
(* For any action names, any bound on the metadata's actions and either    *)
(* validator policy, a module the constructors return advertises exactly   *)
(* the metadata's actions in order, holds an input and a results schema    *)
(* for each, and holds the configuration schema exactly when it was built  *)
(* with a configuration that the metadata has (registerActions and         *)
(* registerAction run every entry in order).                               *)
(***************************************************************************)
THEOREM LoadedMatchesMetadata == LoadSpec => []LoadedModuleMatchesMetadata
<1>1. LoadInv => LoadedModuleMatchesMetadata
  <2> SUFFICES ASSUME LoadInv, lpc = "loaded"
               PROVE  /\ actions = MetadataActionNames
                      /\ \A i \in DOMAIN actions :
                           actions[i] \in inputSchemas
                           /\ actions[i] \in resultsSchemas
                      /\ configSchema = (ctor = "with_config" /\ meta.hasConfig)
    BY DEF LoadedModuleMatchesMetadata
  <2>1. meta.actions \in Seq(ActionDocs)
    BY ProbeActions DEF LoadInv, LoadTypeOK
  <2>2. /\ actions = NamesUpTo(Len(meta.actions))
        /\ inputSchemas = NameSetUpTo(Len(meta.actions))
        /\ resultsSchemas = NameSetUpTo(Len(meta.actions))
        /\ configSchema <=> (ctor = "with_config" /\ meta.hasConfig)
    BY DEF LoadInv, BuiltInv
  <2>3. actions = MetadataActionNames
    BY <2>1, <2>2 DEF NamesUpTo, MetadataActionNames
  <2>4. \A i \in DOMAIN actions :
          actions[i] \in inputSchemas /\ actions[i] \in resultsSchemas
    BY <2>1, <2>2 DEF NamesUpTo, NameSetUpTo
  <2>5. QED
    BY <2>2, <2>3, <2>4
<1>2. QED
  BY <1>1, LoadInvariant, PTL
=============================================================================
