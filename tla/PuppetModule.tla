---------------------------- MODULE PuppetModule ----------------------------
(***************************************************************************)
(* The pxp-module-puppet executable (src/unnamed/part_001) as the child     *)
(* process the agent starts for one action request.  The child reads its   *)
(* action arguments on stdin; for a non-blocking request it redirects      *)
(* $stdout and $stderr to the output files named in the arguments and      *)
(* registers an at_exit hook that writes the exitcode file; it runs Puppet *)
(* and prints one result document.                                         *)
(*                                                                         *)
(* Documents are abstracted to "ok" (last_run_result) and "err"            *)
(* (make_error_result); a stream or file is the sequence of documents      *)
(* printed to it, so two prints are two concatenated JSON texts.  Ruby's   *)
(* $stdout is write-buffered: what is printed sits in outBuf until the     *)
(* process exits, after the at_exit hooks have run.                        *)
(***************************************************************************)
EXTENDS Integers, Sequences

CONSTANTS
  Req,        \* the action requests; each gets its own child
  None,       \* a file that does not exist, stdin not yet written
  Dirs,       \* the results directories
  ResultsDir  \* the results directory the output_files of each request name

VARIABLES
  cpc,        \* where the child is: none, spawned, running, exiting, exited
  cstatus,    \* the status the child will exit with
  atExit,     \* the at_exit hook is registered and has not run yet
  reopened,   \* $stdout has been redirected to the stdout file
  outBuf,     \* printed to $stdout, still in Ruby's IO buffer
  pipeOut,    \* flushed to the stdout pipe the agent captures
  stdoutF,    \* each results directory's stdout file
  exitcodeF,  \* each results directory's exitcode file
  stdinArgs   \* the action arguments the agent wrote and closed on stdin

childVars == <<cpc, cstatus, atExit, reopened, outBuf, pipeOut, stdoutF,
               exitcodeF, stdinArgs>>

Absent == None          \* a file that does not exist
NoArgs == None          \* stdin not yet written and closed by the agent

\* last_run_result / make_error_result: the documents the child prints
Docs == {"ok", "err"}

\* Reserved exit code for "could not open the output files" (line 254)
FileErrorEC == 5

ExitCodes == {0, 1, FileErrorEC}

\* The action-arguments document, abstracted to whether it has output_files
ArgsDocs == [outputFiles : BOOLEAN]

\* What Puppet's run yields in action_run: a result, an error result, or an
\* exception escaping action_run (check_config_print fails on a non-zero
\* exit of `puppet agent --configprint`).
RunResults == {"ok", "err", "raised"}

ASSUME NoneAssumption == None \notin Seq(Docs) \cup ExitCodes \cup ArgsDocs

\* The request processor derives a request's directory from its
\* transaction id (spec section 3); two deliveries of one transaction share it.
ASSUME DirAssumption == ResultsDir \in [Req -> Dirs]

ChildTypeOK ==
  /\ cpc \in [Req -> {"none", "spawned", "running", "exiting", "exited"}]
  /\ cstatus \in [Req -> ExitCodes]
  /\ atExit \in [Req -> BOOLEAN]
  /\ reopened \in [Req -> BOOLEAN]
  /\ outBuf \in [Req -> Seq(Docs)]
  /\ pipeOut \in [Req -> Seq(Docs)]
  /\ stdoutF \in [Dirs -> Seq(Docs) \cup {Absent}]
  /\ exitcodeF \in [Dirs -> ExitCodes \cup {Absent}]
  /\ stdinArgs \in [Req -> ArgsDocs \cup {NoArgs}]

ChildInit ==
  /\ cpc = [r \in Req |-> "none"]
  /\ cstatus = [r \in Req |-> 0]
  /\ atExit = [r \in Req |-> FALSE]
  /\ reopened = [r \in Req |-> FALSE]
  /\ outBuf = [r \in Req |-> <<>>]
  /\ pipeOut = [r \in Req |-> <<>>]
  /\ stdoutF = [d \in Dirs |-> Absent]
  /\ exitcodeF = [d \in Dirs |-> Absent]
  /\ stdinArgs = [r \in Req |-> NoArgs]

PrintDoc(r, d) == outBuf' = [outBuf EXCEPT ![r] = Append(@, d)]

ExitWith(r, s) ==
  /\ cstatus' = [cstatus EXCEPT ![r] = s]
  /\ cpc' = [cpc EXCEPT ![r] = "exiting"]

(***************************************************************************)
(* Blocking request: the arguments have no output_files, so action_run     *)
(* goes straight to the run and $stdout stays the pipe.                    *)
(***************************************************************************)
ChildReadArgsBlocking(r) ==
  /\ cpc[r] = "spawned"
  /\ stdinArgs[r] \in ArgsDocs
  /\ ~stdinArgs[r].outputFiles
  /\ cpc' = [cpc EXCEPT ![r] = "running"]
  /\ UNCHANGED <<cstatus, atExit, reopened, outBuf, pipeOut, stdoutF,
                 exitcodeF, stdinArgs>>

(***************************************************************************)
(* Non-blocking request: reopen $stdout, then $stderr, on the output       *)
(* files.  If either File.open fails the error document is printed on the  *)
(* current $stdout (the pipe, or already the stdout file) and the child    *)
(* exits 5 before any at_exit hook exists.  Otherwise the hook is set.     *)
(***************************************************************************)
ChildOpenOutputFiles(r) ==
  /\ cpc[r] = "spawned"
  /\ stdinArgs[r] \in ArgsDocs
  /\ stdinArgs[r].outputFiles
  /\ \/ /\ PrintDoc(r, "err")                       \* stdout file cannot be opened
        /\ ExitWith(r, FileErrorEC)
        /\ UNCHANGED <<reopened, stdoutF, atExit>>
     \/ /\ stdoutF' = [stdoutF EXCEPT ![ResultsDir[r]] = <<>>] \* stderr file cannot be opened
        /\ reopened' = [reopened EXCEPT ![r] = TRUE]
        /\ PrintDoc(r, "err")
        /\ ExitWith(r, FileErrorEC)
        /\ UNCHANGED atExit
     \/ /\ stdoutF' = [stdoutF EXCEPT ![ResultsDir[r]] = <<>>] \* both reopened
        /\ reopened' = [reopened EXCEPT ![r] = TRUE]
        /\ atExit' = [atExit EXCEPT ![r] = TRUE]
        /\ cpc' = [cpc EXCEPT ![r] = "running"]
        /\ UNCHANGED <<outBuf, cstatus>>
  /\ UNCHANGED <<pipeOut, exitcodeF, stdinArgs>>

\* Mutant: an escaping exception is recorded with DEFAULT_EXITCODE (-1)
ChildRunExceptionStatusMutant(r) ==
  /\ cpc[r] = "running"
  /\ \E res \in RunResults :
       /\ IF res = "raised" THEN UNCHANGED outBuf ELSE PrintDoc(r, res)
       /\ ExitWith(r, CASE res = "ok" -> 0 [] res = "err" -> 1 [] OTHER -> -1)
  /\ UNCHANGED <<atExit, reopened, pipeOut, stdoutF, exitcodeF, stdinArgs>>

(***************************************************************************)
(* run/start_run, then the main program prints the result and exits 1 when *)
(* the result carries an error.  An escaping exception prints nothing and  *)
(* ends the interpreter with status 1.                                     *)
(***************************************************************************)
ChildRun(r) ==
  /\ cpc[r] = "running"
  /\ \E res \in RunResults :
       /\ IF res = "raised" THEN UNCHANGED outBuf ELSE PrintDoc(r, res)
       /\ ExitWith(r, IF res = "ok" THEN 0 ELSE 1)
  /\ UNCHANGED <<atExit, reopened, pipeOut, stdoutF, exitcodeF, stdinArgs>>

(***************************************************************************)
(* The at_exit hook writes the status to the exitcode file; if that file   *)
(* cannot be opened it prints an error document and turns the exit into 5. *)
(***************************************************************************)
ChildAtExit(r) ==
  /\ cpc[r] = "exiting"
  /\ atExit[r]
  /\ \/ /\ exitcodeF' = [exitcodeF EXCEPT ![ResultsDir[r]] = cstatus[r]]
        /\ UNCHANGED <<outBuf, cstatus>>
     \/ /\ PrintDoc(r, "err")
        /\ cstatus' = [cstatus EXCEPT ![r] = FileErrorEC]
        /\ UNCHANGED exitcodeF
  /\ atExit' = [atExit EXCEPT ![r] = FALSE]
  /\ UNCHANGED <<cpc, reopened, pipeOut, stdoutF, stdinArgs>>

(***************************************************************************)
(* Interpreter shutdown after the hooks: the buffered $stdout is flushed   *)
(* to wherever it points and the process terminates with its status.       *)
(***************************************************************************)
ChildExit(r) ==
  /\ cpc[r] = "exiting"
  /\ ~atExit[r]
  /\ IF reopened[r]
       THEN /\ stdoutF' = [stdoutF EXCEPT ![ResultsDir[r]] = @ \o outBuf[r]]
            /\ UNCHANGED pipeOut
       ELSE /\ pipeOut' = [pipeOut EXCEPT ![r] = @ \o outBuf[r]]
            /\ UNCHANGED stdoutF
  /\ outBuf' = [outBuf EXCEPT ![r] = <<>>]
  /\ cpc' = [cpc EXCEPT ![r] = "exited"]
  /\ UNCHANGED <<cstatus, atExit, reopened, exitcodeF, stdinArgs>>

ChildNext(r) ==
  \/ ChildReadArgsBlocking(r)
  \/ ChildOpenOutputFiles(r)
  \/ ChildRun(r)
  \/ ChildAtExit(r)
  \/ ChildExit(r)

=============================================================================
