# TLA+ models of pxp-agent's action execution path

This directory models the part of pxp-agent that carries out one action request. The request processor receives the request and calls an external module, which here is the Puppet module (`pxp-module-puppet`). The child process runs the action and writes its results on a pipe or in a results directory. The processor then sends a response through the `PXPConnector`.

## 1. Inventory

| Part | Source | State | Operations |
|---|---|---|---|
| Puppet module, the child | `src/unnamed/part_001` | stdin arguments; `$stdout` redirected or not; Ruby's `$stdout` buffer; the stdout pipe; the `stdout` and `exitcode` files; the registered `at_exit` hook; the exit status | read stdin; reopen `$stdout`/`$stderr` on the output files, or fail and `exit 5`; run and `print` the result; `at_exit` writes `exitcode`, or prints an error and exits 5; interpreter exit flushes the buffer |
| ExternalModule call | `src/lib/src/external_module.cc` 124-152, 253-394 | the stage of `callAction`; the `pid` file; the returned outcome | `callAction`; `lth_exec::execute` (fork, then the pid callback for non-blocking calls, then write stdin, then wait); `callBlockingAction`; `callNonBlockingAction` (exit 5 check, `readNonBlockingOutcome`); `processRequestOutcome` |
| ExternalModule loading | same file, 41-118 and 159-251 | the constructor's stage; the metadata printed; the actions vector; the names held by the input, results and configuration validators; the exception thrown | `getMetadata` (stderr, JSON parse, metadata schema); `registerConfiguration`; `registerActions`/`registerAction`; `validateConfiguration` |
| PXPConnector | `src/lib/src/pxp_connector.cc` | the link (messages sent, in order) | `sendPCPError`, `sendPXPError`, `sendBlockingResponse`, `sendNonBlockingResponse`, `sendProvisionalResponse`, each best-effort with a `connection_error` handler |
| Request processor | not under `src/` (spec §4.4, §5, §7) | one worker per request | validate, then answer with an error or call the module and send the response |
| Cthun FileUtils | `src/unnamed/part_000` | none | stateless file helpers, not called by the parts above |

How the parts interact:

- Requests are handled concurrently, one worker each.
- Each worker's module call runs concurrently with its own child process.
- The agent and the child interact through the child's stdin, its exit status, the stdout pipe and the files of the results directory (`pid`, `stdout`, `exitcode`).
- Everything the worker answers goes through the connector.

The behaviours that are hard to test:

- the pid callback running while the child is alive;
- reading output only after the wait;
- partial failures when opening the output files;
- the order of the `at_exit` hook and the flush of Ruby's `$stdout` buffer;
- send failures that are logged and not retried;
- empty stdout;
- the guarantee that every request ends answered.

## 2. Modules

- **`PuppetModule.tla`** models the child, one per request.
  - `cpc` is the program counter: none, spawned, running, exiting, exited.
  - `outBuf` is Ruby's IO buffer. `pipeOut` is the request's pipe. `stdoutF` and `exitcodeF` are the files, indexed by results directory (`Dirs`).
  - The constant `ResultsDir` maps each request to the directory its `output_files` name (`DirAssumption`). Requests of one transaction share a directory.
  - Documents are abstracted to `"ok"` and `"err"`. A stream is the sequence of documents printed to it, so two prints give two concatenated JSON texts, which the agent cannot parse.
  - Actions:
    - `ChildReadArgsBlocking` and `ChildOpenOutputFiles` model `action_run`. The latter has three disjuncts: the stdout open fails, the stderr open fails, or both opens succeed.
    - `ChildRun` models `run` and the main program's `print`/`exit 1`. An escaping exception prints nothing and exits 1.
    - `ChildAtExit` models the hook.
    - `ChildExit` models the interpreter's exit. The buffer is flushed there, after the hooks have run.
- **`ExternalModule.tla`** (EXTENDS PuppetModule) models the agent side of one call.
  - `epc` is the stage: idle, spawn, callback, input, wait, returned.
  - `Spawn`, `PidCallback` and `WriteInput` split `lth_exec::execute` in its real order. The child blocks reading stdin until `WriteInput`.
  - `CallBlockingAction` and `CallNonBlockingAction` model the code after the wait. For a non-blocking call, a failure to read the stdout file is a nondeterministic disjunct.
  - `ProcessRequestOutcome` maps the output to an outcome: `<<>>` gives `null`, one document gives itself, and more than one is invalid JSON.
- **`PXPConnector.tla`** models the connector.
  - `wire` is the link. `lost` holds the sends whose failure was logged. `escaped` holds the requests whose send failure left the connector as an exception.
  - `FailingKinds` is a constant: the message kinds whose send may fail.
  - Each send is `Delivered` or `LoggedFailure`. For `sendPCPError` the failure is `escaped` instead (see findings).
- **`RequestProcessor.tla`** composes the parts above and the workers (`ppc`). `Receive` and `Respond` are modelled from the spec.
  - `Next` lets any request's worker, module call or child take a step.
  - `Terminated` is the idle agent once every request is done, so deadlock checking stays on.
- **`Transaction.tla`** is the abstract specification of what the agent promises about one request, written from the spec (§4.4, §5, §7). A request is `new`, then rejected (`Reject`: a PCP or PXP error) or accepted (`AcceptBlocking`, or `AcceptNonBlocking` with a provisional response), then `Close`d by one PXP error or one response of its own type whose results are in `Results`. Every message may be lost, and the loss is logged (`Emit`).
  - `RequestProcessor.tla` maps onto it with `TxState`: an idle worker is `new`, a calling one holds its request type, and a done one is `closed`. `TX == INSTANCE Transaction WITH ts <- TxState, Results <- ResultsSchema`, and `TransactionRefinement == TX!TxSpec` is checked as a PROPERTY.
- **`ExternalModuleLoad.tla`** models the two `ExternalModule` constructors (external_module.cc 41-118, 159-251).
  - `lpc` is the constructor's stage: probe, configuration, actions, loaded or failed. `error` is the exception thrown.
  - What `<path> metadata` prints is chosen in `LoadInit` from `MetadataProbes`: stderr empty or not, JSON or not, the required fields present or not, a configuration entry, and up to `MaxActions` actions, each with a name from `ActionNames` and with schemas that parse or not.
  - `GetMetadata` covers the stderr check, the parse and the metadata validator. `RegisterConfiguration` runs only in the constructor with a configuration. `RegisterAction` handles one metadata entry: it parses both schemas, pushes the name, and registers them. `Loaded` returns from the constructor. `ValidateConfiguration` runs on a loaded module.
  - `PCPClient::Validator::registerSchema` is not under `src/`. What it does with a name it already holds is the constant `RedefinitionPolicy`, either `"reject"` (it throws) or `"overwrite"`.
- **`MCRequestProcessor.tla`** instantiates the model with two requests, `r1` and `r2`, as model values. It also defines the failing-kind sets and the symmetry set. It defines two directory layouts: `MCOwnDir` gives each request its own directory, and `MCSharedDir` puts both in the one directory `d1`, as two deliveries of one transaction would be.
- **`MCExternalModuleLoad.tla`** instantiates the loading model with two action names, `a1` and `a2`, as model values, and defines their symmetry set.
- **`RequestProcessor_proofs.tla`** holds the TLAPS proofs about the composed request processor.
- **`ExternalModuleLoad_proofs.tla`** holds the TLAPS proofs about loading.

## 3. Runs

All runs use 2 requests. Every run except duplicate_transaction gives each its own results directory. Two are enough for every interleaving of two workers and their children. Each request can be blocking or non-blocking, so the case of one blocking and one non-blocking request is covered. Every request can take every error path. The child's outcomes, the file failures and the send failures are all enumerated.

| Run | cfg | Result | What it shows |
|---|---|---|---|
| core_safety | `MCRequestProcessor.cfg` | pass, about 11k distinct states with symmetry | All of these hold: `TypeOK`; `ResultsPassThrough` (a response carries the child's one document, and for a non-blocking job the exitcode file agrees with the outcome); `PidWrittenBeforeWork`; `AnsweredOnce` (each request has at most one final message, delivered or logged as failed, never both); `AnswerIsFinal` (the pipe, files and pid file never change after the answer). Every kind of send may fail. |
| liveness_settled | `_liveness.cfg` | pass | `EveryRequestSettled` holds under weak fairness, when the PCP error send cannot fail. |
| pcp_error_send_failure | `_pcp.cfg` | violation | `EveryRequestSettled` fails once the PCP error send can fail. |
| provisional_lost | `_provisional.cfg` | violation | `ProvisionalPrecedesFinal` fails. |
| empty_stdout_null | `_emptystdout.cfg` | violation | `EmptyStdoutFailureIsError` fails. |
| exitcode_before_stdout | `_exitcode.cfg` | violation | `JobRecordCompleteAtExitcode` fails. |
| duplicate_transaction | `_shareddir.cfg` | violation | `AnswerIsFinal` fails when both requests share one results directory: after the first non-blocking job is answered, the second child truncates its stdout file. |
| transaction_refinement | `_refinement.cfg` | pass, about 11k distinct states | `TransactionRefinement`: the composed model implements `Transaction` when every send except the PCP error's may fail. |
| load_safety | `MCExternalModuleLoad.cfg` | pass, about 36k distinct states | `LoadTypeOK`; `LoadedModuleMatchesMetadata` (a loaded module holds exactly the metadata's actions in order, an input and a results schema for each, and the configuration schema exactly when built with a configuration that the metadata has). The validator rejects redefinitions. |
| load_duplicate_overwrite | `MCExternalModuleLoad_unique.cfg` | violation | `ActionNamesUnique` fails: with a validator that overwrites, metadata naming one action twice loads with a duplicated action. |
| load_duplicate_reject | `MCExternalModuleLoad_error.cfg` | violation | `FailuresAreLoadingErrors` fails: with a validator that rejects, the duplicate escapes the constructor as a validator error, not a `LoadingError`. |

The loading runs use 2 action names and metadata of up to 2 actions. That is enough for a duplicated name, for a failure on the second entry after the first was registered, and for every combination of the probe's outcomes. Symmetry over the action names is sound, because no definition distinguishes them.

The refinement run keeps `"pcp_error"` out of the failing kinds. With it in, `sendPCPError`'s escaping failure (finding 1) leaves a worker done with nothing sent or logged, which `Transaction` does not allow.

Fairness (the `FairSpec` definition):

- The workers and the child processes are scheduled by the OS, so each has weak fairness.
- The call uses timeout 0, so there is no timeout. The liveness result therefore assumes that the Puppet run terminates.
- The broker's delivery of requests (`Receive`) is not fair.

Each property of a passing run has a mutant in `PROJECT.json`: a plausible bug in the mapped code under which TLC finds that property violated.

## 4. Findings

1. **`sendPCPError` (pxp_connector.cc:57).** The log format uses `%3%` but gets only two arguments. `boost::format` therefore throws `too_few_args` inside the `connection_error` handler, and a failed PCP error send escapes the connector.
2. **Lost provisional response (pxp_connector.cc:140).** It is logged and not retried, and the non-blocking response is still sent. The spec's ordering of the two messages then does not hold.
3. **Empty stdout (external_module.cc:296).** It parses as `null` for every exit code. The "no output on stdout" ProcessingError branch is unreachable, which contradicts the spec's error section.
4. **Exitcode file written too early (part_001:268).** The `at_exit` hook writes the exitcode file before Ruby flushes `$stdout`. A status reader can see the exitcode file next to an empty stdout file.

5. **Duplicate action names (external_module.cc:235).** `registerAction` checks no uniqueness of the action's name, though spec §4.1 says action names are unique within a module. Whether a duplicate is caught depends entirely on the validator's `registerSchema`.
6. **The duplicate's exception is not a LoadingError (external_module.cc:236).** If the validator rejects the redefinition, its exception is neither a `schema_error` nor a `data_error`, so neither catch clause converts it. The constructor then throws something the module loader does not expect to skip (spec §7).
7. **A re-delivered transaction overwrites an answered job (external_module.cc:344).** `callNonBlockingAction` uses `request.resultsDir()` as given and starts a new child on its `stdout`, `exitcode` and `pid` files. Spec §3 makes the directory unique to a transaction id, but nothing says what happens to a second request with the same id. A duplicate then destroys the record of a job whose answer was already sent.

## 5. Proofs (TLAPS)

### The request processor (`RequestProcessor_proofs.tla`)

The proofs hold for any finite or infinite set of requests and any set of failing kinds.

The assumptions used are:

- `NoneAssumption`: the sentinel `None` is not a document sequence, an exit code or an arguments document.
- `FailingKindsAssumption`: every failing kind is a message kind.
- `ReqAssumption`: there is at least one request. No proof uses it.
- `DirAssumption`: each request names a results directory in `Dirs`.
- `DistinctDirs`, a hypothesis of `ResultsPassThroughHolds` and `AnswerFinal` only: no two requests share a results directory. Run duplicate_transaction shows that `AnswerIsFinal` fails without it.

The theorems:

- **`TypeCorrect`: `Spec => []TypeOK`.** `TypeOK` is not inductive as it stands. `ChildExit` appends the buffer to the stdout file, and that is only well typed if the file exists. The inductive invariant is therefore `TypeInv == TypeOK /\ StdoutFileExists`, where `StdoutFileExists` says that a redirected `$stdout` has an existing stdout file.
  - The proof has one lemma per component: `ChildStepTyped`, `ModuleStepTyped`, `SendTyped` and `PCPErrorTyped`.
  - `ProcessRequestOutcomeTyped` is a lemma about the outcome mapping.
  - `TypeInvariant` proves `Spec => []TypeInv`.
- **`PidWrittenFirst`: `Spec => []PidWrittenBeforeWork`.** The proof goes through the inductive invariant `PidInv`. `PidInv` ties each stage of `callAction` to what the child can have done: before the stdin write the child has at most been forked and has not read its arguments. A non-blocking call passes the pid callback before `WriteInput`. A child that has left `spawned` has had its stdin written. TLC checked `PidInv` and `TypeInv` as invariants of the core model before they were proved.
  - The proof has one lemma per kind of step: `PidReceiveStep`, `PidModuleStep` and `PidChildStep`.
  - The final step combines these with `TypeInvariant` by PTL.

- **`TransactionRefined`: `Spec => TransactionRefinement`, assuming `"pcp_error" \notin FailingKinds`.** The initial state maps to `TxInit`. Each step maps to a `Transaction` step or a stutter:
  - `Receive` maps to `Reject`, `AcceptBlocking` or `AcceptNonBlocking`.
  - Module and child steps leave `ppc`, `rtype` and the connector alone, so they map to stutters (`TxStateUnchanged`).
  - `Respond` maps to `Close`.
  - `SendIsEmit` shows that a non-escaping send is an `Emit`.

  Only `TypeOK` is needed as an invariant. The assumption cannot be dropped: run pcp_error_send_failure shows the behaviour that breaks it.
- **`ResultsPassThroughHolds`: `DistinctDirs => (Spec => []ResultsPassThrough)`.** The inductive invariant is `RPInv`, which has two parts:
  - `RPAt(r)` records, per request, what the child and the call have produced by each stage:
    - the written arguments ask for output files exactly for a non-blocking request;
    - a non-blocking child keeps its `at_exit` hook until it runs;
    - after the hook, the exitcode file holds the child's status, unless that status is 5;
    - a returned call has an exited child;
    - a returned outcome whose results are a document came from exactly that one document, on the pipe or in the stdout file. For a non-blocking call, the exitcode file also holds the outcome's exit code.
  - `WireInv` says that every response on the link carries the results of its request's returned call, with the message type matching the request type.

  `ResultsPassThrough` alone is not inductive. It says nothing about calls not yet answered, and it says nothing about the exitcode file before the hook runs. The proof has one lemma per kind of step (`RPChildStep`, `RPModuleStep`, `RPReceiveStep`, `WireStep`), combined in `RPStep`. It also needs `PidInv`, because the child has not started before the stdin write. The lemmas about the link are `WireExtend`, `WireKept`, `SendExtends` and `RespOKKept`. `OutcomeFromOneDoc` says that an outcome carrying a document came from a stdout of exactly that document.
- **`AnswerFinal`: `DistinctDirs => (Spec => AnswerIsFinal)`, an action property.** `WorkerInv` ties each worker's stage to its call's:
  - an idle worker has an idle call;
  - a calling worker's call has started;
  - a done worker's call is idle or returned.

  With `PidInv` and `RPInv`, a done request's child was therefore never forked or has exited (`DoneIsQuiet`), so no step of any component touches its pipe, files or pid file (`AnswerStep`). The frame lemmas `ChildFrame` and `ModuleFrame` need `DistinctDirs`: a step of another request's child writes only that request's directory.

- **`AnsweredOnceHolds`: `Spec => []AnsweredOnce`.** `AnsweredOnce` is not inductive: it allows a calling worker with an answer already out, whose `Respond` would add a second. The inductive invariant `AnsInv` adds that a worker that is not done has no final message on the link or in the log. Only the steps that make a worker done send a final message (`Receive`'s error branches and `Respond`); the provisional response is not final; module and child steps leave the connector alone. The lemmas are about what one connector move (`ConnectorMoves`: nothing, one delivery, one logged failure) does to a request's final messages: `FinalsOther` (a message not final for `s` leaves them unchanged) and `FinalsFirst` (the first final message is the only one). `AnsReceiveStep` and `AnsRespondStep` are the step lemmas. Only `TypeOK` is needed besides. No assumption on the failing kinds is needed: an escaped PCP error sends nothing.

TLC checked `PidInv`, `RPInv`, `WorkerInv`, `TypeInv` and `AnsInv` as invariants of the core model (22413 distinct states) before they were proved.

### Loading (`ExternalModuleLoad_proofs.tla`)

These proofs hold for every `MaxActions` and every set of action names. The only assumption is `LoadAssumption`: `MaxActions` is a natural number and the policy is one of the two.

- **`LoadTypeCorrect`: `LoadSpec => []LoadTypeOK`.** The proof goes through `LoadInv == LoadTypeOK /\ BuiltInv`. `RegisterAction` indexes `meta.actions[next]`, and that is only well typed when the loop counter stays within the metadata. `BuiltInv` gives that bound.
- **`LoadedMatchesMetadata`: `LoadSpec => []LoadedModuleMatchesMetadata`.** `BuiltInv` says what the constructor has built after each entry of `registerActions`:
  - before the actions loop, nothing is built;
  - inside it, `actions` and both schema sets hold exactly the names of entries `1..next-1` (`NamesUpTo`, `NameSetUpTo`);
  - when loaded, `next` is past the last entry;
  - outside a failure, the configuration schema is registered exactly when built with a configuration that the metadata has and the loop has started.

  The lemmas are `NamesUpToAppend` (one more entry appends its name) and `BuiltAtActions`, which re-establishes `BuiltInv` on entering the loop. `GetMetadataInv`, `RegisterConfigurationInv`, `RegisterActionInv` and `LoadedInv` are the step lemmas. A failure is covered by `FailInv`.

Uniqueness of action names is not stated as a theorem. Under a rejecting validator it would follow from the modelled `registerSchema` (`Redefines`), not from `registerAction`, which checks nothing. What the code does with a duplicate is shown by runs load_duplicate_overwrite and load_duplicate_reject.

### Only model-checked

- Liveness (`EveryRequestSettled`) needs fairness and ENABLED, which the prover cannot handle.
- The violation runs need no proof: each one exhibits a behaviour.

## 6. Not modelled

- **`PCPClient::Validator` and `PCPClient::Schema`** (cpp-pcp-client) are not under `src/`. Schema parsing is a Boolean per schema. The validator's handling of a name it already holds is the constant `RedefinitionPolicy`. The metadata schema's contents are reduced to "required fields present".
- **The loader that calls the constructors** (the module directory scan) is not under `src/`.
- **Whether the request processor drops a duplicate transaction id.** That code is not under `src/`. Run duplicate_transaction shows what `callNonBlockingAction` does if it does not.
- **Agent crash or restart during a non-blocking job, and transaction status queries.** That code is not under `src/`.
- **Puppet's own run.** It is abstracted to three outcomes: a result, an error result, or an exception.
- **stderr contents and logging.**
- **FileUtils.** These are stateless helpers that the modelled code does not call.

## 7. Plan

1. Model agent restarts against the results directory.
2. Prove `ProvisionalPrecedesFinal` restricted to delivered provisional responses.
3. Check the refinement with larger instances (3 requests) when time allows.
