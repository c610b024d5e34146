--------------------------- MODULE ExternalModule ---------------------------
(***************************************************************************)
(* ExternalModule::callAction (src/lib/src/external_module.cc): the agent  *)
(* side of running one action of an external module.  The worker builds   *)
(* the action arguments, starts the executable (for a non-blocking request *)
(* with a pid callback that writes the pid file), writes the arguments on  *)
(* the child's stdin, waits for the child to exit and turns (exit code,    *)
(* stdout) into an ActionOutcome or a ProcessingError.  For a non-blocking *)
(* request stdout is read back from the results directory.                 *)
(***************************************************************************)
EXTENDS PuppetModule

VARIABLES
  rtype,      \* request.type() of the request the module was called with
  epc,        \* where callAction is: idle, spawn, callback, input, wait, returned
  pidF,       \* each results directory's pid file
  outcome     \* what callAction returned: an ActionOutcome or a ProcessingError

moduleVars == <<rtype, epc, pidF, outcome>>

RequestTypes == {"blocking", "nonblocking"}

\* JSON values an outcome's results can hold
Json == Docs \cup {"null"}

\* ProcessingError messages, by the place that raises them
ErrorKinds == {"write_output", "read_output", "invalid_json"}

NoOutcome == [kind |-> "none"]

Outcomes ==
  {NoOutcome}
  \cup [kind : {"outcome"}, ec : ExitCodes, results : Json]
  \cup [kind : {"error"}, what : ErrorKinds]

ActionOutcome(ec, res) == [kind |-> "outcome", ec |-> ec, results |-> res]
ProcessingError(w) == [kind |-> "error", what |-> w]

ModuleTypeOK ==
  /\ rtype \in [Req -> RequestTypes]
  /\ epc \in [Req -> {"idle", "spawn", "callback", "input", "wait", "returned"}]
  /\ pidF \in [Dirs -> {Absent, "pid"}]
  /\ outcome \in [Req -> Outcomes]

ModuleInit ==
  /\ rtype = [r \in Req |-> "blocking"]
  /\ epc = [r \in Req |-> "idle"]
  /\ pidF = [d \in Dirs |-> Absent]
  /\ outcome = [r \in Req |-> NoOutcome]

\* getActionArguments: output_files only for a non-blocking request
GetActionArguments(r) == [outputFiles |-> rtype[r] = "nonblocking"]

(***************************************************************************)
(* processRequestOutcome: an empty stdout is parsed as the text "null";    *)
(* one document parses to itself; two concatenated documents are not JSON. *)
(***************************************************************************)
ProcessRequestOutcome(ec, out) ==
  IF out = <<>> THEN ActionOutcome(ec, "null")
  ELSE IF Len(out) = 1 THEN ActionOutcome(ec, out[1])
  ELSE ProcessingError("invalid_json")

\* readNonBlockingOutcome: a missing stdout file reads as empty text
StdoutFileText(r) ==
  IF stdoutF[ResultsDir[r]] = Absent THEN <<>> ELSE stdoutF[ResultsDir[r]]

(***************************************************************************)
(* callAction(request), entered from the request processor: remember the   *)
(* request's type and start the call.                                      *)
(***************************************************************************)
CallAction(r, t) ==
  /\ epc[r] = "idle"
  /\ rtype' = [rtype EXCEPT ![r] = t]
  /\ epc' = [epc EXCEPT ![r] = "spawn"]
  /\ UNCHANGED <<pidF, outcome>>
  /\ UNCHANGED childVars

\* Mutant: execute is called without the pid callback
SpawnWithoutCallbackMutant(r) ==
  /\ epc[r] = "spawn"
  /\ cpc' = [cpc EXCEPT ![r] = "spawned"]
  /\ epc' = [epc EXCEPT ![r] = "input"]
  /\ UNCHANGED <<rtype, pidF, outcome, cstatus, atExit, reopened, outBuf,
                 pipeOut, stdoutF, exitcodeF, stdinArgs>>

(***************************************************************************)
(* lth_exec::execute forks and execs the module with the action name; a    *)
(* non-blocking call has a pid callback still to run.                      *)
(***************************************************************************)
Spawn(r) ==
  /\ epc[r] = "spawn"
  /\ cpc' = [cpc EXCEPT ![r] = "spawned"]
  /\ epc' = [epc EXCEPT ![r] =
               IF rtype[r] = "nonblocking" THEN "callback" ELSE "input"]
  /\ UNCHANGED <<rtype, pidF, outcome, cstatus, atExit, reopened, outBuf,
                 pipeOut, stdoutF, exitcodeF, stdinArgs>>

\* The pid callback: atomic_write_to_file("<pid>\n", <results_dir>/pid)
PidCallback(r) ==
  /\ epc[r] = "callback"
  /\ pidF' = [pidF EXCEPT ![ResultsDir[r]] = "pid"]
  /\ epc' = [epc EXCEPT ![r] = "input"]
  /\ UNCHANGED <<rtype, outcome>>
  /\ UNCHANGED childVars

\* execute writes the action arguments on the child's stdin and closes it
WriteInput(r) ==
  /\ epc[r] = "input"
  /\ stdinArgs' = [stdinArgs EXCEPT ![r] = GetActionArguments(r)]
  /\ epc' = [epc EXCEPT ![r] = "wait"]
  /\ UNCHANGED <<rtype, pidF, outcome, cpc, cstatus, atExit, reopened,
                 outBuf, pipeOut, stdoutF, exitcodeF>>

Returns(r, o) ==
  /\ outcome' = [outcome EXCEPT ![r] = o]
  /\ epc' = [epc EXCEPT ![r] = "returned"]
  /\ UNCHANGED <<rtype, pidF>>
  /\ UNCHANGED childVars

\* Mutant: the captured output is used without waiting for the child's exit
CallBlockingActionNoWaitMutant(r) ==
  /\ epc[r] = "wait"
  /\ rtype[r] = "blocking"
  /\ Returns(r, ProcessRequestOutcome(cstatus[r], pipeOut[r]))

(***************************************************************************)
(* callBlockingAction, after execute returns: the captured stdout pipe and *)
(* exit code go to processRequestOutcome.                                  *)
(***************************************************************************)
CallBlockingAction(r) ==
  /\ epc[r] = "wait"
  /\ rtype[r] = "blocking"
  /\ cpc[r] = "exited"
  /\ Returns(r, ProcessRequestOutcome(cstatus[r], pipeOut[r]))

\* Mutant: the reserved exit code 5 is not checked
CallNonBlockingActionNoFileErrorMutant(r) ==
  /\ epc[r] = "wait"
  /\ rtype[r] = "nonblocking"
  /\ cpc[r] = "exited"
  /\ \/ /\ stdoutF[ResultsDir[r]] # Absent
        /\ Returns(r, ProcessingError("read_output"))
     \/ Returns(r, ProcessRequestOutcome(cstatus[r], StdoutFileText(r)))

(***************************************************************************)
(* callNonBlockingAction, after execute returns: exit code 5 is a          *)
(* ProcessingError and the files are not read; otherwise the stdout file   *)
(* is read (a read failure is a ProcessingError) and parsed.               *)
(***************************************************************************)
CallNonBlockingAction(r) ==
  /\ epc[r] = "wait"
  /\ rtype[r] = "nonblocking"
  /\ cpc[r] = "exited"
  /\ \/ /\ cstatus[r] = FileErrorEC
        /\ Returns(r, ProcessingError("write_output"))
     \/ /\ cstatus[r] # FileErrorEC
        /\ stdoutF[ResultsDir[r]] # Absent        \* lth_file::read fails
        /\ Returns(r, ProcessingError("read_output"))
     \/ /\ cstatus[r] # FileErrorEC
        /\ Returns(r, ProcessRequestOutcome(cstatus[r], StdoutFileText(r)))

ModuleNext(r) ==
  \/ Spawn(r)
  \/ PidCallback(r)
  \/ WriteInput(r)
  \/ CallBlockingAction(r)
  \/ CallNonBlockingAction(r)

=============================================================================
