----------------------- MODULE RequestProcessor_proofs -----------------------
(***************************************************************************)
(* Proofs about RequestProcessor for every set of requests: the type       *)
(* invariant; that a non-blocking job's pid file exists before its child   *)
(* does any work; that the request processor implements Transaction; that  *)
(* results pass through unchanged; and that an answer is final.            *)
(***************************************************************************)
EXTENDS RequestProcessor, SequenceTheorems, TLAPS

MsgSet == [kind : MsgKinds, req : Req, results : Json \cup {NoResults}]

\* Once $stdout is redirected, the stdout file exists: the flush at exit
\* appends to a file, never to a missing one.
StdoutFileExists ==
  \A r \in Req : reopened[r] => stdoutF[ResultsDir[r]] \in Seq(Docs)

\* The type invariant strengthened so that it is inductive.
TypeInv == TypeOK /\ StdoutFileExists

\* Every request has a results directory of its own: no two requests share a
\* transaction id (the hypothesis of the theorems about the results files).
DistinctDirs == \A r, s \in Req : r # s => ResultsDir[r] # ResultsDir[s]

-----------------------------------------------------------------------------
(* Type correctness, one component at a time *)

\* Printing a document keeps the buffer a sequence of documents.
LEMMA PrintDocTyped ==
  ASSUME outBuf \in [Req -> Seq(Docs)], NEW r \in Req, NEW d \in Docs,
         PrintDoc(r, d)
  PROVE  outBuf' \in [Req -> Seq(Docs)]
BY DEF PrintDoc

\* A child step keeps the child's state well typed.
LEMMA ChildStepTyped ==
  ASSUME ChildTypeOK, StdoutFileExists, NEW r \in Req, ChildNext(r)
  PROVE  ChildTypeOK' /\ StdoutFileExists'
<1> USE DirAssumption DEF ChildTypeOK, StdoutFileExists
<1>1. CASE ChildReadArgsBlocking(r)
  BY <1>1 DEF ChildReadArgsBlocking
<1>2. CASE ChildOpenOutputFiles(r)
  <2>1. "err" \in Docs /\ FileErrorEC \in ExitCodes
    BY DEF Docs, ExitCodes
  <2>2. CASE PrintDoc(r, "err") /\ ExitWith(r, FileErrorEC)
             /\ UNCHANGED <<reopened, stdoutF, atExit>>
    BY <1>2, <2>1, <2>2, PrintDocTyped DEF ChildOpenOutputFiles, ExitWith
  <2>3. CASE stdoutF' = [stdoutF EXCEPT ![ResultsDir[r]] = <<>>]
             /\ reopened' = [reopened EXCEPT ![r] = TRUE]
             /\ PrintDoc(r, "err") /\ ExitWith(r, FileErrorEC)
             /\ UNCHANGED atExit
    BY <1>2, <2>1, <2>3, PrintDocTyped DEF ChildOpenOutputFiles, ExitWith
  <2>4. CASE stdoutF' = [stdoutF EXCEPT ![ResultsDir[r]] = <<>>]
             /\ reopened' = [reopened EXCEPT ![r] = TRUE]
             /\ atExit' = [atExit EXCEPT ![r] = TRUE]
             /\ cpc' = [cpc EXCEPT ![r] = "running"]
             /\ UNCHANGED <<outBuf, cstatus>>
    BY <1>2, <2>4 DEF ChildOpenOutputFiles
  <2>5. QED
    BY <1>2, <2>2, <2>3, <2>4 DEF ChildOpenOutputFiles
<1>3. CASE ChildRun(r)
  <2>1. PICK res \in RunResults :
          /\ IF res = "raised" THEN UNCHANGED outBuf ELSE PrintDoc(r, res)
          /\ ExitWith(r, IF res = "ok" THEN 0 ELSE 1)
    BY <1>3 DEF ChildRun
  <2>2. outBuf' \in [Req -> Seq(Docs)]
    <3>1. CASE res = "raised"
      BY <2>1, <3>1
    <3>2. CASE res # "raised"
      BY <2>1, <3>2, PrintDocTyped DEF RunResults, Docs
    <3>3. QED
      BY <3>1, <3>2
  <2>3. QED
    BY <1>3, <2>1, <2>2 DEF ChildRun, ExitWith, ExitCodes
<1>4. CASE ChildAtExit(r)
  <2>1. CASE exitcodeF' = [exitcodeF EXCEPT ![ResultsDir[r]] = cstatus[r]]
             /\ UNCHANGED <<outBuf, cstatus>>
    BY <1>4, <2>1 DEF ChildAtExit
  <2>2. CASE PrintDoc(r, "err") /\ cstatus' = [cstatus EXCEPT ![r] = FileErrorEC]
             /\ UNCHANGED exitcodeF
    <3>1. "err" \in Docs /\ FileErrorEC \in ExitCodes
      BY DEF Docs, ExitCodes
    <3>2. QED
      BY <1>4, <2>2, <3>1, PrintDocTyped DEF ChildAtExit
  <2>3. QED
    BY <1>4, <2>1, <2>2 DEF ChildAtExit
<1>5. CASE ChildExit(r)
  <2>1. /\ outBuf' = [outBuf EXCEPT ![r] = <<>>]
        /\ cpc' = [cpc EXCEPT ![r] = "exited"]
        /\ UNCHANGED <<cstatus, atExit, reopened, exitcodeF, stdinArgs>>
    BY <1>5 DEF ChildExit
  <2>2. CASE reopened[r]
    <3>1. stdoutF[ResultsDir[r]] \o outBuf[r] \in Seq(Docs)
      BY <2>2, ConcatProperties
    <3>2. stdoutF' = [stdoutF EXCEPT ![ResultsDir[r]] =
                        stdoutF[ResultsDir[r]] \o outBuf[r]]
          /\ UNCHANGED pipeOut
      BY <1>5, <2>2 DEF ChildExit
    <3>3. QED
      BY <2>1, <3>1, <3>2
  <2>3. CASE ~reopened[r]
    <3>1. pipeOut[r] \o outBuf[r] \in Seq(Docs)
      BY ConcatProperties
    <3>2. pipeOut' = [pipeOut EXCEPT ![r] = pipeOut[r] \o outBuf[r]]
          /\ UNCHANGED stdoutF
      BY <1>5, <2>3 DEF ChildExit
    <3>3. QED
      BY <2>1, <3>1, <3>2
  <2>4. QED
    BY <2>2, <2>3
<1>6. QED
  BY <1>1, <1>2, <1>3, <1>4, <1>5 DEF ChildNext

\* processRequestOutcome of a well-typed exit code and stdout is an outcome.
LEMMA ProcessRequestOutcomeTyped ==
  ASSUME NEW ec \in ExitCodes, NEW out \in Seq(Docs)
  PROVE  ProcessRequestOutcome(ec, out) \in Outcomes
<1>1. CASE out = <<>>
  BY <1>1 DEF ProcessRequestOutcome, ActionOutcome, Outcomes, Json
<1>2. CASE out # <<>> /\ Len(out) = 1
  <2>1. out[1] \in Docs
    BY <1>2
  <2>2. QED
    BY <1>2, <2>1 DEF ProcessRequestOutcome, ActionOutcome, Outcomes, Json
<1>3. CASE out # <<>> /\ Len(out) # 1
  BY <1>3 DEF ProcessRequestOutcome, ProcessingError, Outcomes, ErrorKinds
<1>4. QED
  BY <1>1, <1>2, <1>3

\* A step of callAction keeps the call's and the child's state well typed,
\* and never touches the redirection or the stdout file.
LEMMA ModuleStepTyped ==
  ASSUME ModuleTypeOK, ChildTypeOK, NEW r \in Req, ModuleNext(r)
  PROVE  ModuleTypeOK' /\ ChildTypeOK' /\ UNCHANGED <<reopened, stdoutF>>
<1> USE DirAssumption DEF ModuleTypeOK, ChildTypeOK, Returns, childVars
<1>1. CASE Spawn(r)
  BY <1>1 DEF Spawn
<1>2. CASE PidCallback(r)
  BY <1>2 DEF PidCallback
<1>3. CASE WriteInput(r)
  BY <1>3 DEF WriteInput, GetActionArguments, ArgsDocs
<1>4. CASE CallBlockingAction(r)
  <2>1. ProcessRequestOutcome(cstatus[r], pipeOut[r]) \in Outcomes
    BY ProcessRequestOutcomeTyped
  <2>2. QED
    BY <1>4, <2>1 DEF CallBlockingAction
<1>5. CASE CallNonBlockingAction(r)
  <2>1. ProcessingError("write_output") \in Outcomes
        /\ ProcessingError("read_output") \in Outcomes
    BY DEF ProcessingError, Outcomes, ErrorKinds
  <2>2. StdoutFileText(r) \in Seq(Docs)
    BY DEF StdoutFileText
  <2>3. ProcessRequestOutcome(cstatus[r], StdoutFileText(r)) \in Outcomes
    BY <2>2, ProcessRequestOutcomeTyped
  <2>4. \E o \in Outcomes : Returns(r, o)
    BY <1>5, <2>1, <2>3 DEF CallNonBlockingAction
  <2>5. QED
    BY <2>4
<1>6. QED
  BY <1>1, <1>2, <1>3, <1>4, <1>5 DEF ModuleNext

\* A send of a well-formed message keeps the connector's state well typed.
LEMMA SendTyped ==
  ASSUME ConnectorTypeOK(Req, Json), NEW m \in MsgSet, Send(m)
  PROVE  ConnectorTypeOK(Req, Json)'
<1>1. CASE Delivered(m)
  BY <1>1, AppendProperties DEF ConnectorTypeOK, MsgSet, Delivered
<1>2. CASE LoggedFailure(m)
  BY <1>2 DEF ConnectorTypeOK, MsgSet, LoggedFailure
<1>3. QED
  BY <1>1, <1>2 DEF Send

LEMMA PCPErrorTyped ==
  ASSUME ConnectorTypeOK(Req, Json), NEW r \in Req, SendPCPError(r)
  PROVE  ConnectorTypeOK(Req, Json)'
<1>1. Msg("pcp_error", r, NoResults) \in MsgSet
  BY DEF Msg, MsgSet, MsgKinds
<1>2. CASE Delivered(Msg("pcp_error", r, NoResults))
  BY <1>1, <1>2, AppendProperties DEF ConnectorTypeOK, MsgSet, Delivered
<1>3. CASE "pcp_error" \in FailingKinds /\ escaped' = escaped \cup {r}
           /\ UNCHANGED <<wire, lost>>
  BY <1>3 DEF ConnectorTypeOK
<1>4. QED
  BY <1>2, <1>3 DEF SendPCPError

\* The strengthened type invariant holds in every reachable state.
THEOREM TypeInvariant == Spec => []TypeInv
<1>1. Init => TypeInv
  <2> SUFFICES ASSUME Init PROVE TypeInv
    OBVIOUS
  <2>1. ModuleTypeOK
    <3>1. NoOutcome \in Outcomes
      BY DEF NoOutcome, Outcomes
    <3>2. QED
      BY <3>1 DEF Init, ModuleInit, ModuleTypeOK, RequestTypes, Absent
  <2>2. ChildTypeOK
    BY DEF Init, ChildInit, ChildTypeOK, ExitCodes, Absent, NoArgs
  <2>3. ConnectorTypeOK(Req, Json)
    BY DEF Init, ConnectorInit, ConnectorTypeOK
  <2>4. StdoutFileExists
    BY DEF Init, ChildInit, StdoutFileExists
  <2>5. QED
    BY <2>1, <2>2, <2>3, <2>4 DEF Init, TypeInv, TypeOK
<1>2. TypeInv /\ [Next]_vars => TypeInv'
  <2> SUFFICES ASSUME TypeInv, [Next]_vars PROVE TypeInv'
    OBVIOUS
  <2> USE DEF TypeInv, TypeOK
  <2>1. ASSUME NEW r \in Req, Receive(r) PROVE TypeInv'
    <3>1. CASE SendPCPError(r) /\ ppc' = [ppc EXCEPT ![r] = "done"]
               /\ UNCHANGED <<moduleVars, childVars>>
      BY <3>1, PCPErrorTyped DEF moduleVars, childVars, ModuleTypeOK, ChildTypeOK,
         StdoutFileExists
    <3>2. CASE SendPXPError(r) /\ ppc' = [ppc EXCEPT ![r] = "done"]
               /\ UNCHANGED <<moduleVars, childVars>>
      <4>1. Msg("pxp_error", r, NoResults) \in MsgSet
        BY DEF Msg, MsgSet, MsgKinds
      <4>2. QED
        BY <3>2, <4>1, SendTyped DEF SendPXPError, moduleVars, childVars,
           ModuleTypeOK, ChildTypeOK, StdoutFileExists
    <3>3. CASE CallAction(r, "blocking") /\ ppc' = [ppc EXCEPT ![r] = "calling"]
               /\ UNCHANGED connectorVars
      BY <3>3 DEF CallAction, connectorVars, childVars, ModuleTypeOK,
         ChildTypeOK, ConnectorTypeOK, RequestTypes, StdoutFileExists
    <3>4. CASE CallAction(r, "nonblocking") /\ SendProvisionalResponse(r)
               /\ ppc' = [ppc EXCEPT ![r] = "calling"]
      <4>1. Msg("provisional", r, NoResults) \in MsgSet
        BY DEF Msg, MsgSet, MsgKinds
      <4>2. QED
        BY <3>4, <4>1, SendTyped DEF SendProvisionalResponse, CallAction,
           childVars, ModuleTypeOK, ChildTypeOK, RequestTypes, StdoutFileExists
    <3>5. QED
      BY <2>1, <3>1, <3>2, <3>3, <3>4 DEF Receive
  <2>2. ASSUME NEW r \in Req, ModuleNext(r), UNCHANGED <<ppc, connectorVars>>
        PROVE TypeInv'
    BY <2>2, ModuleStepTyped DEF connectorVars, ConnectorTypeOK,
       StdoutFileExists
  <2>3. ASSUME NEW r \in Req, ChildNext(r),
               UNCHANGED <<ppc, moduleVars, connectorVars>>
        PROVE TypeInv'
    BY <2>3, ChildStepTyped DEF moduleVars, connectorVars, ModuleTypeOK,
       ConnectorTypeOK
  <2>4. ASSUME NEW r \in Req, Respond(r) PROVE TypeInv'
    <3> DEFINE o == outcome[r]
    <3>1. o \in Outcomes
      BY DEF ModuleTypeOK
    <3>2. ConnectorTypeOK(Req, Json)'
      <4>1. CASE o.kind = "error" /\ SendPXPError(r)
        BY <4>1, SendTyped DEF SendPXPError, Msg, MsgSet, MsgKinds
      <4>2. CASE o.kind = "outcome" /\ o.results \notin ResultsSchema
                 /\ SendPXPError(r)
        BY <4>2, SendTyped DEF SendPXPError, Msg, MsgSet, MsgKinds
      <4>3. CASE o.kind = "outcome" /\ o.results \in ResultsSchema
                 /\ rtype[r] = "blocking" /\ SendBlockingResponse(r, o.results)
        <5>1. Msg("blocking_response", r, o.results) \in MsgSet
          BY <4>3 DEF Msg, MsgSet, MsgKinds, ResultsSchema, Json
        <5>2. QED
          BY <4>3, <5>1, SendTyped DEF SendBlockingResponse
      <4>4. CASE o.kind = "outcome" /\ o.results \in ResultsSchema
                 /\ rtype[r] = "nonblocking"
                 /\ SendNonBlockingResponse(r, o.results)
        <5>1. Msg("nonblocking_response", r, o.results) \in MsgSet
          BY <4>4 DEF Msg, MsgSet, MsgKinds, ResultsSchema, Json
        <5>2. QED
          BY <4>4, <5>1, SendTyped DEF SendNonBlockingResponse
      <4>5. QED
        BY <2>4, <4>1, <4>2, <4>3, <4>4 DEF Respond
    <3>3. QED
      BY <2>4, <3>2 DEF Respond, moduleVars, childVars, ModuleTypeOK,
         ChildTypeOK, StdoutFileExists
  <2>5. CASE Terminated
    BY <2>5 DEF Terminated, vars, moduleVars, childVars, connectorVars,
       ModuleTypeOK, ChildTypeOK, ConnectorTypeOK, StdoutFileExists
  <2>6. CASE UNCHANGED vars
    BY <2>6 DEF vars, moduleVars, childVars, connectorVars, ModuleTypeOK,
       ChildTypeOK, ConnectorTypeOK, StdoutFileExists
  <2>7. QED
    BY <2>1, <2>2, <2>3, <2>4, <2>5, <2>6 DEF Next
<1>3. QED
  BY <1>1, <1>2, PTL DEF Spec

\* The type invariant TypeOK that the runs check holds in every reachable
\* state of callAction, the child and the connector, for any requests.
THEOREM TypeCorrect == Spec => []TypeOK
BY TypeInvariant, PTL DEF TypeInv
-----------------------------------------------------------------------------
(* The pid file is written before the child works *)

(***************************************************************************)
(* Where callAction is determines what the child can have seen: until      *)
(* execute writes stdin the child has at most been forked and has read     *)
(* nothing; a non-blocking call passes the pid callback before the input   *)
(* is written.  The child leaves "spawned" only after reading its stdin.   *)
(***************************************************************************)
PidAt(r) ==
  /\ epc[r] \in {"idle", "spawn"} => cpc[r] = "none" /\ stdinArgs[r] = NoArgs
  /\ epc[r] = "callback" =>
       /\ rtype[r] = "nonblocking" /\ cpc[r] = "spawned"
       /\ stdinArgs[r] = NoArgs
  /\ epc[r] = "input" =>
       /\ cpc[r] = "spawned" /\ stdinArgs[r] = NoArgs
       /\ rtype[r] = "nonblocking" => pidF[ResultsDir[r]] = "pid"
  /\ epc[r] \in {"wait", "returned"} /\ rtype[r] = "nonblocking" =>
       pidF[ResultsDir[r]] = "pid"
  /\ cpc[r] \notin {"none", "spawned"} => stdinArgs[r] # NoArgs
  /\ stdinArgs[r] # NoArgs => epc[r] \in {"wait", "returned"}

PidInv == \A r \in Req : PidAt(r)

\* The action arguments execute writes are never mistaken for "not written".
LEMMA ArgsWritten ==
  ASSUME NEW a \in ArgsDocs
  PROVE  a # NoArgs
BY NoneAssumption DEF NoArgs

\* A step of request r's child leaves another request's child where it was
\* and its stdin as it was.
LEMMA ChildStageFrame ==
  ASSUME ChildTypeOK, NEW r \in Req, ChildNext(r), NEW s \in Req, s # r
  PROVE  cpc'[s] = cpc[s] /\ stdinArgs'[s] = stdinArgs[s]
<1> USE DEF ChildTypeOK
<1>1. CASE ChildReadArgsBlocking(r)
  BY <1>1 DEF ChildReadArgsBlocking
<1>2. CASE ChildOpenOutputFiles(r)
  BY <1>2 DEF ChildOpenOutputFiles, ExitWith
<1>3. CASE ChildRun(r)
  BY <1>3 DEF ChildRun, ExitWith
<1>4. CASE ChildAtExit(r)
  BY <1>4 DEF ChildAtExit
<1>5. CASE ChildExit(r)
  BY <1>5 DEF ChildExit
<1>6. QED
  BY <1>1, <1>2, <1>3, <1>4, <1>5 DEF ChildNext

\* A step of request r's child preserves PidAt for every request.
LEMMA PidChildStep ==
  ASSUME TypeInv, PidInv, NEW r \in Req, ChildNext(r),
         UNCHANGED <<ppc, moduleVars, connectorVars>>, NEW s \in Req
  PROVE  PidAt(s)'
<1> USE DEF TypeInv, TypeOK, ChildTypeOK, moduleVars
<1>1. CASE s # r
  <2>1. cpc'[s] = cpc[s] /\ stdinArgs'[s] = stdinArgs[s]
    BY <1>1, ChildStageFrame
  <2>2. PidAt(s)
    BY DEF PidInv
  <2>3. QED
    BY <2>1, <2>2 DEF PidAt
<1>2. CASE s = r
  <2>1. /\ stdinArgs' = stdinArgs
        /\ (cpc'[r] # cpc[r] => cpc'[r] \in {"running", "exiting", "exited"})
    BY DEF ChildNext, ChildReadArgsBlocking, ChildOpenOutputFiles, ChildRun,
       ChildAtExit, ChildExit, ExitWith
  <2>2. cpc[r] = "spawned" /\ cpc'[r] # cpc[r] => stdinArgs[r] # NoArgs
    <3>1. cpc[r] = "spawned" /\ cpc'[r] # cpc[r] => stdinArgs[r] \in ArgsDocs
      BY DEF ChildNext, ChildReadArgsBlocking, ChildOpenOutputFiles, ChildRun,
         ChildAtExit, ChildExit, ExitWith
    <3>2. QED
      BY <3>1, ArgsWritten
  <2>3. cpc[r] = "none" => cpc'[r] = "none"
    BY DEF ChildNext, ChildReadArgsBlocking, ChildOpenOutputFiles, ChildRun,
       ChildAtExit, ChildExit, ExitWith
  <2>4. PidAt(r)
    BY DEF PidInv
  <2>5. QED
    BY <1>2, <2>1, <2>2, <2>3, <2>4 DEF PidAt
<1>3. QED
  BY <1>1, <1>2

\* A step of request r's callAction preserves PidAt for every request.
LEMMA PidModuleStep ==
  ASSUME TypeInv, PidInv, NEW r \in Req, ModuleNext(r),
         UNCHANGED <<ppc, connectorVars>>, NEW s \in Req
  PROVE  PidAt(s)'
<1> USE DirAssumption DEF TypeInv, TypeOK, ModuleTypeOK, ChildTypeOK, Returns,
       childVars
<1>1. PidAt(s)
  BY DEF PidInv
<1>2. CASE s # r
  BY <1>1, <1>2 DEF PidAt, ModuleNext, Spawn, PidCallback, WriteInput,
     CallBlockingAction, CallNonBlockingAction
<1>3. CASE s = r /\ Spawn(r)
  BY <1>1, <1>3 DEF PidAt, Spawn
<1>4. CASE s = r /\ PidCallback(r)
  BY <1>1, <1>4 DEF PidAt, PidCallback
<1>5. CASE s = r /\ WriteInput(r)
  BY <1>1, <1>5, ArgsWritten DEF PidAt, WriteInput, GetActionArguments,
     ArgsDocs
<1>6. CASE s = r /\ CallBlockingAction(r)
  BY <1>1, <1>6 DEF PidAt, CallBlockingAction
<1>7. CASE s = r /\ CallNonBlockingAction(r)
  <2>1. \E o : Returns(r, o)
    BY <1>7 DEF CallNonBlockingAction
  <2>2. epc[r] = "wait" /\ cpc[r] = "exited" /\ rtype[r] = "nonblocking"
    BY <1>7 DEF CallNonBlockingAction
  <2>3. QED
    BY <1>1, <1>7, <2>1, <2>2 DEF PidAt
<1>8. QED
  BY <1>2, <1>3, <1>4, <1>5, <1>6, <1>7 DEF ModuleNext

\* A request's worker receiving it starts callAction from the initial state
\* of its child, or leaves the call untouched.
LEMMA PidReceiveStep ==
  ASSUME TypeInv, PidInv, NEW r \in Req, Receive(r), NEW s \in Req
  PROVE  PidAt(s)'
<1> USE DEF TypeInv, TypeOK, ModuleTypeOK, ChildTypeOK
<1>1. PidAt(s)
  BY DEF PidInv
<1>2. CASE UNCHANGED <<moduleVars, childVars>>
  BY <1>1, <1>2 DEF PidAt, moduleVars, childVars
<1>3. CASE CallAction(r, "blocking") \/ CallAction(r, "nonblocking")
  <2>1. PICK t \in RequestTypes : CallAction(r, t)
    BY <1>3 DEF RequestTypes
  <2>2. CASE s # r
    BY <1>1, <2>1, <2>2 DEF PidAt, CallAction, childVars
  <2>3. CASE s = r
    BY <1>1, <2>1, <2>3 DEF PidAt, CallAction, childVars
  <2>4. QED
    BY <2>2, <2>3
<1>4. QED
  BY <1>2, <1>3 DEF Receive

\* PidInv is preserved by every step, given the type invariant.
LEMMA PidStep ==
  ASSUME TypeInv, PidInv, [Next]_vars
  PROVE  PidInv'
<1> SUFFICES ASSUME NEW s \in Req PROVE PidAt(s)'
  BY DEF PidInv
<1>1. ASSUME NEW r \in Req, Receive(r) PROVE PidAt(s)'
  BY <1>1, PidReceiveStep
<1>2. ASSUME NEW r \in Req, ModuleNext(r), UNCHANGED <<ppc, connectorVars>>
      PROVE PidAt(s)'
  BY <1>2, PidModuleStep
<1>3. ASSUME NEW r \in Req, ChildNext(r),
             UNCHANGED <<ppc, moduleVars, connectorVars>>
      PROVE PidAt(s)'
  BY <1>3, PidChildStep
<1>4. ASSUME NEW r \in Req, Respond(r) PROVE PidAt(s)'
  BY <1>4 DEF PidInv, PidAt, Respond, moduleVars, childVars
<1>5. CASE Terminated \/ UNCHANGED vars
  BY <1>5 DEF PidInv, PidAt, Terminated, vars, moduleVars, childVars
<1>6. QED
  BY <1>1, <1>2, <1>3, <1>4, <1>5 DEF Next

\* PidInv holds in every reachable state.
LEMMA PidInvariant == Spec => []PidInv
<1>1. Init => PidInv
  BY DEF Init, ModuleInit, ChildInit, PidInv, PidAt
<1>2. TypeInv /\ PidInv /\ [Next]_vars => PidInv'
  BY PidStep
<1>3. QED
  BY <1>1, <1>2, TypeInvariant, PTL DEF Spec

(***************************************************************************)
(* For any set of requests, the pid file of a non-blocking job exists      *)
(* before its child reads its arguments or runs: callNonBlockingAction's  *)
(* pid callback runs before execute writes the child's stdin.             *)
(***************************************************************************)
THEOREM PidWrittenFirst == Spec => []PidWrittenBeforeWork
<1>1. PidInv => PidWrittenBeforeWork
  BY DEF PidInv, PidAt, PidWrittenBeforeWork
<1>2. QED
  BY <1>1, PidInvariant, PTL

-----------------------------------------------------------------------------
(* The request processor implements the transaction promise *)

\* A step that leaves the workers and the request types alone leaves every
\* transaction's state alone.
LEMMA TxStateUnchanged ==
  ASSUME UNCHANGED <<ppc, rtype>>
  PROVE  TxState' = TxState
BY DEF TxState

\* A worker moving to v changes its own transaction's state only.
LEMMA TxStateStep ==
  ASSUME TypeOK, NEW r \in Req, NEW v \in {"calling", "done"},
         ppc' = [ppc EXCEPT ![r] = v], rtype' \in [Req -> RequestTypes],
         \A s \in Req \ {r} : rtype'[s] = rtype[s]
  PROVE  TxState' = [TxState EXCEPT ![r] = IF v = "done" THEN "closed"
                                                        ELSE rtype'[r]]
BY DEF TypeOK, TxState

\* A send through the connector that cannot escape is an Emit.
LEMMA SendIsEmit ==
  ASSUME NEW m, Send(m)
  PROVE  TX!Emit(m)
BY DEF Send, Delivered, LoggedFailure, TX!Emit

(***************************************************************************)
(* When a PCP error send cannot fail, every behaviour of the request       *)
(* processor is a behaviour of Transaction under the mapping TxState; the  *)
(* assumption is needed, because sendPCPError's failure escapes the        *)
(* connector (see run pcp_error_send_failure).                             *)
(***************************************************************************)
THEOREM TransactionRefined ==
  ASSUME "pcp_error" \notin FailingKinds
  PROVE  Spec => TransactionRefinement
<1>1. Init => TX!TxInit
  BY DEF Init, ConnectorInit, TX!TxInit, TxState
<1>2. TypeOK /\ [Next]_vars => [TX!TxNext]_TX!txVars
  <2> SUFFICES ASSUME TypeOK, [Next]_vars PROVE [TX!TxNext]_TX!txVars
    OBVIOUS
  <2>1. ASSUME NEW r \in Req, Receive(r) PROVE [TX!TxNext]_TX!txVars
    <3>0. ppc[r] = "idle"
      BY <2>1 DEF Receive
    <3>1. CASE SendPCPError(r) /\ ppc' = [ppc EXCEPT ![r] = "done"]
               /\ UNCHANGED <<moduleVars, childVars>>
      <4>1. Delivered(Msg("pcp_error", r, NoResults))
        BY <3>1 DEF SendPCPError
      <4>2. TxState' = [TxState EXCEPT ![r] = "closed"]
        BY <3>1, TxStateStep DEF moduleVars, TypeOK, ModuleTypeOK
      <4>3. TX!Reject(r)
        BY <3>0, <4>1, <4>2 DEF TX!Reject, TX!Emit, TX!TxMsg, TX!NoMsgResults,
           Msg, NoResults, Delivered, TxState
      <4>4. QED
        BY <4>3 DEF TX!TxNext
    <3>2. CASE SendPXPError(r) /\ ppc' = [ppc EXCEPT ![r] = "done"]
               /\ UNCHANGED <<moduleVars, childVars>>
      <4>1. TX!Emit(Msg("pxp_error", r, NoResults))
        BY <3>2, SendIsEmit DEF SendPXPError
      <4>2. TxState' = [TxState EXCEPT ![r] = "closed"]
        BY <3>2, TxStateStep DEF moduleVars, TypeOK, ModuleTypeOK
      <4>3. TX!Reject(r)
        BY <3>0, <4>1, <4>2 DEF TX!Reject, TX!TxMsg, TX!NoMsgResults, Msg,
           NoResults, TxState
      <4>4. QED
        BY <4>3 DEF TX!TxNext
    <3>3. CASE CallAction(r, "blocking") /\ ppc' = [ppc EXCEPT ![r] = "calling"]
               /\ UNCHANGED connectorVars
      <4>1. TxState' = [TxState EXCEPT ![r] = "blocking"]
        BY <3>3, TxStateStep DEF CallAction, TypeOK, ModuleTypeOK, RequestTypes
      <4>2. TX!AcceptBlocking(r)
        BY <3>0, <3>3, <4>1 DEF TX!AcceptBlocking, connectorVars, TxState
      <4>3. QED
        BY <4>2 DEF TX!TxNext
    <3>4. CASE CallAction(r, "nonblocking") /\ SendProvisionalResponse(r)
               /\ ppc' = [ppc EXCEPT ![r] = "calling"]
      <4>1. TxState' = [TxState EXCEPT ![r] = "nonblocking"]
        BY <3>4, TxStateStep DEF CallAction, TypeOK, ModuleTypeOK, RequestTypes
      <4>2. TX!Emit(Msg("provisional", r, NoResults))
        BY <3>4, SendIsEmit DEF SendProvisionalResponse
      <4>3. TX!AcceptNonBlocking(r)
        BY <3>0, <4>1, <4>2 DEF TX!AcceptNonBlocking, TX!TxMsg,
           TX!NoMsgResults, Msg, NoResults, TxState
      <4>4. QED
        BY <4>3 DEF TX!TxNext
    <3>5. QED
      BY <2>1, <3>1, <3>2, <3>3, <3>4 DEF Receive
  <2>2. ASSUME NEW r \in Req, ModuleNext(r), UNCHANGED <<ppc, connectorVars>>
        PROVE UNCHANGED TX!txVars
    <3>1. UNCHANGED rtype
      BY <2>2 DEF ModuleNext, Spawn, PidCallback, WriteInput,
         CallBlockingAction, CallNonBlockingAction, Returns
    <3>2. TxState' = TxState
      BY <2>2, <3>1, TxStateUnchanged
    <3>3. QED
      BY <2>2, <3>2 DEF connectorVars, TX!txVars
  <2>3. ASSUME NEW r \in Req, ChildNext(r),
               UNCHANGED <<ppc, moduleVars, connectorVars>>
        PROVE UNCHANGED TX!txVars
    <3>1. TxState' = TxState
      BY <2>3, TxStateUnchanged DEF moduleVars
    <3>2. QED
      BY <2>3, <3>1 DEF connectorVars, TX!txVars
  <2>4. ASSUME NEW r \in Req, Respond(r) PROVE TX!TxNext
    <3> DEFINE o == outcome[r]
    <3>0. /\ ppc[r] = "calling" /\ rtype' = rtype
          /\ ppc' = [ppc EXCEPT ![r] = "done"]
      BY <2>4 DEF Respond, moduleVars
    <3>1. TxState' = [TxState EXCEPT ![r] = "closed"]
      BY <3>0, TxStateStep DEF TypeOK, ModuleTypeOK
    <3>2. TxState[r] = rtype[r] /\ rtype[r] \in {"blocking", "nonblocking"}
      BY <3>0 DEF TxState, TypeOK, ModuleTypeOK, RequestTypes
    <3>3. \/ TX!Emit(TX!TxMsg("pxp_error", r, TX!NoMsgResults))
          \/ \E res \in ResultsSchema :
               TX!Emit(TX!TxMsg(IF TxState[r] = "blocking"
                                  THEN "blocking_response"
                                  ELSE "nonblocking_response", r, res))
      <4>1. CASE o.kind = "error" /\ SendPXPError(r)
        BY <4>1, SendIsEmit DEF SendPXPError, Msg, TX!TxMsg, TX!NoMsgResults,
           NoResults
      <4>2. CASE o.kind = "outcome" /\ o.results \notin ResultsSchema
                 /\ SendPXPError(r)
        BY <4>2, SendIsEmit DEF SendPXPError, Msg, TX!TxMsg, TX!NoMsgResults,
           NoResults
      <4>3. CASE o.kind = "outcome" /\ o.results \in ResultsSchema
                 /\ rtype[r] = "blocking" /\ SendBlockingResponse(r, o.results)
        BY <3>2, <4>3, SendIsEmit DEF SendBlockingResponse, Msg, TX!TxMsg
      <4>4. CASE o.kind = "outcome" /\ o.results \in ResultsSchema
                 /\ rtype[r] = "nonblocking"
                 /\ SendNonBlockingResponse(r, o.results)
        BY <3>2, <4>4, SendIsEmit DEF SendNonBlockingResponse, Msg, TX!TxMsg
      <4>5. QED
        BY <2>4, <4>1, <4>2, <4>3, <4>4 DEF Respond
    <3>4. TX!Close(r)
      BY <3>1, <3>2, <3>3 DEF TX!Close
    <3>5. QED
      BY <3>4 DEF TX!TxNext
  <2>5. CASE Terminated \/ UNCHANGED vars
    <3>1. UNCHANGED vars
      BY <2>5 DEF Terminated
    <3>2. TxState' = TxState
      BY <3>1, TxStateUnchanged DEF vars, moduleVars
    <3>3. QED
      BY <3>1, <3>2 DEF vars, connectorVars, TX!txVars
  <2>6. QED
    BY <2>1, <2>2, <2>3, <2>4, <2>5 DEF Next
<1>3. QED
  BY <1>1, <1>2, TypeCorrect, PTL DEF Spec, TransactionRefinement, TX!TxSpec

-----------------------------------------------------------------------------
(* Results pass through unchanged *)

(***************************************************************************)
(* What a request's child and call have recorded by each stage: the        *)
(* arguments written match the request's type; a non-blocking child has    *)
(* its at_exit hook until the hook runs, and afterwards the exitcode file  *)
(* holds its status unless the status is 5; a returned call's results are  *)
(* exactly the one document of the output it read, which no step changes   *)
(* once the child has exited.                                              *)
(***************************************************************************)
RPAt(r) ==
  LET nb == rtype[r] = "nonblocking" IN
  /\ stdinArgs[r] # NoArgs => (stdinArgs[r].outputFiles <=> nb)
  /\ cpc[r] \in {"none", "spawned"} =>
       exitcodeF[ResultsDir[r]] = Absent /\ ~atExit[r]
  /\ cpc[r] = "running" /\ nb => atExit[r] /\ exitcodeF[ResultsDir[r]] = Absent
  /\ cpc[r] = "exiting" /\ nb /\ atExit[r] => exitcodeF[ResultsDir[r]] = Absent
  /\ cpc[r] \in {"exiting", "exited"} /\ nb /\ ~atExit[r] =>
       exitcodeF[ResultsDir[r]] = cstatus[r] \/ cstatus[r] = FileErrorEC
  /\ cpc[r] = "exited" => ~atExit[r]
  /\ epc[r] = "returned" => cpc[r] = "exited"
  /\ epc[r] = "returned" /\ outcome[r].kind = "outcome"
     /\ outcome[r].results \in Docs =>
       IF nb THEN stdoutF[ResultsDir[r]] = <<outcome[r].results>>
                  /\ exitcodeF[ResultsDir[r]] = outcome[r].ec
             ELSE pipeOut[r] = <<outcome[r].results>>

\* A response carries the results of its request's returned call.
RespOK(m) ==
  m.kind \in {"blocking_response", "nonblocking_response"} =>
    /\ epc[m.req] = "returned"
    /\ outcome[m.req].kind = "outcome"
    /\ outcome[m.req].results = m.results
    /\ m.results \in Docs
    /\ (m.kind = "nonblocking_response") = (rtype[m.req] = "nonblocking")

\* Every response on the link does.
WireInv == \A i \in 1..Len(wire) : RespOK(wire[i])

RPInv == (\A r \in Req : RPAt(r)) /\ WireInv

\* An outcome whose results are a document came from exactly that document.
LEMMA OutcomeFromOneDoc ==
  ASSUME NEW ec, NEW out \in Seq(Docs),
         ProcessRequestOutcome(ec, out).kind = "outcome",
         ProcessRequestOutcome(ec, out).results \in Docs
  PROVE  /\ out = <<ProcessRequestOutcome(ec, out).results>>
         /\ ProcessRequestOutcome(ec, out).ec = ec
<1>1. out # <<>>
  BY DEF ProcessRequestOutcome, ActionOutcome, Docs
<1>2. Len(out) = 1
  BY <1>1 DEF ProcessRequestOutcome, ActionOutcome, ProcessingError
<1>3. out = <<out[1]>>
  BY <1>2
<1>4. QED
  BY <1>1, <1>2, <1>3 DEF ProcessRequestOutcome, ActionOutcome

\* Request s's child and call are the same after a step as before it.
ChildSame(s) ==
  /\ cpc'[s] = cpc[s] /\ cstatus'[s] = cstatus[s] /\ atExit'[s] = atExit[s]
  /\ reopened'[s] = reopened[s] /\ outBuf'[s] = outBuf[s]
  /\ pipeOut'[s] = pipeOut[s] /\ stdoutF'[ResultsDir[s]] = stdoutF[ResultsDir[s]]
  /\ exitcodeF'[ResultsDir[s]] = exitcodeF[ResultsDir[s]]
  /\ stdinArgs'[s] = stdinArgs[s]

ModSame(s) ==
  /\ rtype'[s] = rtype[s] /\ epc'[s] = epc[s]
  /\ pidF'[ResultsDir[s]] = pidF[ResultsDir[s]]
  /\ outcome'[s] = outcome[s]

\* A step of request r's child changes no other request's child.
LEMMA ChildFrame ==
  ASSUME DistinctDirs, ChildTypeOK, NEW r \in Req, ChildNext(r), NEW s \in Req,
         s # r
  PROVE  ChildSame(s)
<1> USE DirAssumption DEF DistinctDirs, ChildTypeOK, ChildSame
<1>1. CASE ChildReadArgsBlocking(r)
  BY <1>1 DEF ChildReadArgsBlocking
<1>2. CASE ChildOpenOutputFiles(r)
  BY <1>2 DEF ChildOpenOutputFiles, ExitWith, PrintDoc
<1>3. CASE ChildRun(r)
  BY <1>3 DEF ChildRun, ExitWith, PrintDoc
<1>4. CASE ChildAtExit(r)
  BY <1>4 DEF ChildAtExit, PrintDoc
<1>5. CASE ChildExit(r)
  BY <1>5 DEF ChildExit
<1>6. QED
  BY <1>1, <1>2, <1>3, <1>4, <1>5 DEF ChildNext

\* A step of request r's callAction changes no other request's call or child.
LEMMA ModuleFrame ==
  ASSUME DistinctDirs, ModuleTypeOK, ChildTypeOK, NEW r \in Req, ModuleNext(r),
         NEW s \in Req, s # r
  PROVE  ChildSame(s) /\ ModSame(s)
<1> USE DirAssumption DEF DistinctDirs, ModuleTypeOK, ChildTypeOK, ChildSame, ModSame, Returns, childVars
<1>1. CASE Spawn(r)
  BY <1>1 DEF Spawn
<1>2. CASE PidCallback(r)
  BY <1>2 DEF PidCallback
<1>3. CASE WriteInput(r)
  BY <1>3 DEF WriteInput
<1>4. CASE CallBlockingAction(r)
  BY <1>4 DEF CallBlockingAction
<1>5. CASE CallNonBlockingAction(r)
  BY <1>5 DEF CallNonBlockingAction
<1>6. QED
  BY <1>1, <1>2, <1>3, <1>4, <1>5 DEF ModuleNext

\* RPAt(s) depends on request s's child and call only.
LEMMA RPAtFrame ==
  ASSUME NEW s, RPAt(s), ChildSame(s), ModSame(s)
  PROVE  RPAt(s)'
BY DEF RPAt, ChildSame, ModSame

\* A step of request r's child preserves RPAt for every request.
LEMMA RPChildStep ==
  ASSUME DistinctDirs, TypeInv, PidInv, \A q \in Req : RPAt(q), NEW r \in Req,
         ChildNext(r),
         UNCHANGED <<ppc, moduleVars, connectorVars>>, NEW s \in Req
  PROVE  RPAt(s)'
<1>0. RPAt(s) /\ PidAt(s) /\ ModSame(s) /\ ChildTypeOK
  BY DEF PidInv, ModSame, moduleVars, TypeInv, TypeOK
<1> USE DirAssumption DEF ChildTypeOK
<1>1. CASE s # r
  BY <1>0, <1>1, ChildFrame, RPAtFrame
<1>2. CASE s = r /\ ChildReadArgsBlocking(r)
  <2>1. stdinArgs[r] # NoArgs
    BY <1>2, ArgsWritten DEF ChildReadArgsBlocking
  <2>2. rtype[r] # "nonblocking"
    BY <1>0, <1>2, <2>1 DEF RPAt, ChildReadArgsBlocking
  <2>3. QED
    BY <1>0, <1>2, <2>2 DEF RPAt, ChildReadArgsBlocking, ModSame
<1>3. CASE s = r /\ ChildOpenOutputFiles(r)
  BY <1>0, <1>3 DEF RPAt, ChildOpenOutputFiles, ExitWith, PrintDoc, ModSame
<1>4. CASE s = r /\ ChildRun(r)
  BY <1>0, <1>4 DEF RPAt, ChildRun, ExitWith, PrintDoc, ModSame
<1>5. CASE s = r /\ ChildAtExit(r)
  <2>1. /\ cpc[r] = "exiting" /\ atExit[r] /\ epc[r] # "returned"
        /\ atExit' = [atExit EXCEPT ![r] = FALSE]
        /\ UNCHANGED <<cpc, reopened, pipeOut, stdoutF, stdinArgs>>
    BY <1>0, <1>5 DEF ChildAtExit, RPAt
  <2>2. CASE exitcodeF' = [exitcodeF EXCEPT ![ResultsDir[r]] = cstatus[r]]
             /\ UNCHANGED <<outBuf, cstatus>>
    BY <1>0, <1>5, <2>1, <2>2 DEF RPAt, ModSame
  <2>3. CASE PrintDoc(r, "err") /\ cstatus' = [cstatus EXCEPT ![r] = FileErrorEC]
             /\ UNCHANGED exitcodeF
    BY <1>0, <1>5, <2>1, <2>3 DEF RPAt, ModSame
  <2>4. QED
    BY <1>5, <2>2, <2>3 DEF ChildAtExit
<1>6. CASE s = r /\ ChildExit(r)
  <2>1. epc[r] # "returned"
    BY <1>0, <1>6 DEF RPAt, ChildExit
  <2>2. QED
    BY <1>0, <1>6, <2>1 DEF RPAt, ChildExit, ModSame
<1>7. QED
  BY <1>1, <1>2, <1>3, <1>4, <1>5, <1>6 DEF ChildNext

\* A call that returns an outcome of its exited child keeps RPAt, provided
\* a document outcome came from the request's own output.
LEMMA RPAtReturned ==
  ASSUME NEW r, RPAt(r), ChildSame(r), rtype'[r] = rtype[r], cpc[r] = "exited",
         epc'[r] = "returned",
         outcome'[r].kind = "outcome" /\ outcome'[r].results \in Docs =>
           /\ rtype[r] = "nonblocking" =>
                /\ stdoutF[ResultsDir[r]] = <<outcome'[r].results>>
                /\ exitcodeF[ResultsDir[r]] = outcome'[r].ec
           /\ rtype[r] # "nonblocking" => pipeOut[r] = <<outcome'[r].results>>
  PROVE  RPAt(r)'
BY DEF RPAt, ChildSame

\* The text readNonBlockingOutcome reads is a sequence of documents.
LEMMA StdoutFileTextTyped ==
  ASSUME NEW r, stdoutF[ResultsDir[r]] \in Seq(Docs) \cup {Absent}
  PROVE  StdoutFileText(r) \in Seq(Docs)
BY DEF StdoutFileText

\* A step of request r's callAction preserves RPAt for every request.
LEMMA RPModuleStep ==
  ASSUME DistinctDirs, TypeInv, PidInv, \A q \in Req : RPAt(q), NEW r \in Req,
         ModuleNext(r), UNCHANGED <<ppc, connectorVars>>, NEW s \in Req
  PROVE  RPAt(s)'
<1> USE DirAssumption
<1>0. RPAt(s) /\ PidAt(s) /\ ModuleTypeOK /\ ChildTypeOK
  BY DEF PidInv, TypeInv, TypeOK
<1>1. CASE s # r
  BY <1>0, <1>1, ModuleFrame, RPAtFrame
<1>2. CASE s = r /\ Spawn(r)
  BY <1>0, <1>2 DEF RPAt, PidAt, Spawn, ModuleTypeOK, ChildTypeOK
<1>3. CASE s = r /\ PidCallback(r)
  BY <1>0, <1>3 DEF RPAt, PidCallback, childVars, ModuleTypeOK
<1>4. CASE s = r /\ WriteInput(r)
  BY <1>0, <1>4 DEF RPAt, WriteInput, GetActionArguments, ModuleTypeOK,
     ChildTypeOK
<1>5. CASE s = r /\ CallBlockingAction(r)
  <2> DEFINE o == ProcessRequestOutcome(cstatus[r], pipeOut[r])
  <2>1. /\ rtype[r] = "blocking" /\ cpc[r] = "exited" /\ UNCHANGED rtype
        /\ outcome' = [outcome EXCEPT ![r] = o]
        /\ epc' = [epc EXCEPT ![r] = "returned"]
        /\ UNCHANGED childVars
    BY <1>5 DEF CallBlockingAction, Returns
  <2>2. outcome'[r] = o /\ epc'[r] = "returned"
    BY <1>0, <2>1 DEF ModuleTypeOK
  <2>3. o.kind = "outcome" /\ o.results \in Docs => pipeOut[r] = <<o.results>>
    BY <1>0, OutcomeFromOneDoc DEF ChildTypeOK
  <2>4. ChildSame(r)
    BY <2>1 DEF childVars, ChildSame
  <2>5. QED
    BY <1>0, <1>5, <2>1, <2>2, <2>3, <2>4, RPAtReturned
<1>6. CASE s = r /\ CallNonBlockingAction(r)
  <2>1. /\ epc[r] = "wait" /\ rtype[r] = "nonblocking" /\ cpc[r] = "exited"
        /\ epc' = [epc EXCEPT ![r] = "returned"]
        /\ UNCHANGED <<rtype, childVars>>
    BY <1>6 DEF CallNonBlockingAction, Returns
  <2>2. epc'[r] = "returned" /\ ChildSame(r)
    BY <1>0, <2>1 DEF ModuleTypeOK, childVars, ChildSame
  <2>3. CASE \E w \in {"write_output", "read_output"} :
               outcome' = [outcome EXCEPT ![r] = ProcessingError(w)]
    <3>1. outcome'[r].kind = "error"
      BY <1>0, <2>3 DEF ProcessingError, ModuleTypeOK
    <3>2. QED
      BY <1>0, <1>6, <2>1, <2>2, <3>1, RPAtReturned
  <2>4. CASE cstatus[r] # FileErrorEC
             /\ outcome' = [outcome EXCEPT ![r] =
                  ProcessRequestOutcome(cstatus[r], StdoutFileText(r))]
    <3> DEFINE o == ProcessRequestOutcome(cstatus[r], StdoutFileText(r))
    <3>1. StdoutFileText(r) \in Seq(Docs)
      BY <1>0, StdoutFileTextTyped DEF ChildTypeOK
    <3>2. ASSUME o.kind = "outcome", o.results \in Docs
          PROVE  /\ stdoutF[ResultsDir[r]] = <<o.results>>
                 /\ exitcodeF[ResultsDir[r]] = o.ec
      <4>1. StdoutFileText(r) = <<o.results>> /\ o.ec = cstatus[r]
        BY <3>1, <3>2, OutcomeFromOneDoc
      <4>2. stdoutF[ResultsDir[r]] = <<o.results>>
        BY <4>1 DEF StdoutFileText
      <4>3. exitcodeF[ResultsDir[r]] = cstatus[r]
        BY <1>0, <2>1, <2>4 DEF RPAt
      <4>4. QED
        BY <4>1, <4>2, <4>3
    <3>3. outcome'[r] = o
      BY <1>0, <2>4 DEF ModuleTypeOK
    <3>4. QED
      BY <1>0, <1>6, <2>1, <2>2, <3>2, <3>3, RPAtReturned
  <2>5. QED
    BY <1>6, <2>3, <2>4 DEF CallNonBlockingAction, Returns
<1>7. QED
  BY <1>1, <1>2, <1>3, <1>4, <1>5, <1>6 DEF ModuleNext


\* A worker receiving its request starts callAction from the child's initial
\* state, or leaves the call and the child alone.
LEMMA RPReceiveStep ==
  ASSUME TypeInv, PidInv, \A q \in Req : RPAt(q), NEW r \in Req, Receive(r),
         NEW s \in Req
  PROVE  RPAt(s)'
<1> USE DirAssumption DEF TypeInv, TypeOK, ModuleTypeOK, ChildTypeOK
<1>0. RPAt(s) /\ PidAt(s)
  BY DEF PidInv
<1>1. CASE UNCHANGED <<moduleVars, childVars>>
  BY <1>0, <1>1 DEF RPAt, moduleVars, childVars
<1>2. CASE CallAction(r, "blocking") \/ CallAction(r, "nonblocking")
  <2>1. PICK t \in RequestTypes : CallAction(r, t)
    BY <1>2 DEF RequestTypes
  <2>2. CASE s # r
    BY <1>0, <2>1, <2>2 DEF RPAt, CallAction, childVars
  <2>3. CASE s = r
    BY <1>0, <2>1, <2>3 DEF RPAt, PidAt, CallAction, childVars
  <2>4. QED
    BY <2>2, <2>3
<1>3. QED
  BY <1>1, <1>2 DEF Receive

\* A step of callAction or of a child never follows the call's return.
LEMMA NotReturnedBefore ==
  ASSUME NEW r \in Req, ModuleNext(r) \/ (PidAt(r) /\ RPAt(r) /\ ChildNext(r))
  PROVE  epc[r] # "returned"
BY DEF ModuleNext, Spawn, PidCallback, WriteInput, CallBlockingAction,
   CallNonBlockingAction, RPAt, ChildNext, ChildReadArgsBlocking,
   ChildOpenOutputFiles, ChildRun, ChildAtExit, ChildExit

\* A link that keeps its messages and gains at most m keeps WireInv when m
\* satisfies RespOK after the step and no message loses RespOK in it.
LEMMA WireExtend ==
  ASSUME WireInv, wire \in Seq(MsgSet), NEW m,
         wire' = wire \/ wire' = Append(wire, m), RespOK(m)',
         \A n \in MsgSet : RespOK(n) => RespOK(n)'
  PROVE  WireInv'
<1> SUFFICES ASSUME NEW i \in 1..Len(wire') PROVE (RespOK(wire[i]))'
  BY DEF WireInv
<1>1. CASE i \in 1..Len(wire) /\ wire'[i] = wire[i]
  <2>1. PICK n \in MsgSet : n = wire[i] /\ wire'[i] = n /\ RespOK(n)
    BY <1>1 DEF WireInv
  <2>2. RespOK(n)'
    BY <2>1, Zenon
  <2>3. QED
    BY <2>1, <2>2 DEF RespOK
<1>2. CASE wire'[i] = m
  BY <1>2 DEF RespOK
<1>3. (i \in 1..Len(wire) /\ wire'[i] = wire[i]) \/ wire'[i] = m
  <2>1. CASE wire' = wire
    BY <2>1
  <2>2. CASE wire' = Append(wire, m)
    <3>1. Len(wire') = Len(wire) + 1 /\ wire'[Len(wire) + 1] = m
          /\ \A j \in 1..Len(wire) : wire'[j] = wire[j]
      BY <2>2, AppendProperties
    <3>2. QED
      BY <3>1
  <2>3. QED
    BY <2>1, <2>2
<1>4. QED
  BY <1>1, <1>2, <1>3

\* A step that leaves the link alone keeps WireInv when no message loses RespOK.
LEMMA WireKept ==
  ASSUME WireInv, wire \in Seq(MsgSet), wire' = wire,
         \A n \in MsgSet : RespOK(n) => RespOK(n)'
  PROVE  WireInv'
BY DEF WireInv

\* A send keeps the link's messages and adds at most the one sent.
LEMMA SendExtends ==
  ASSUME NEW m, Send(m)
  PROVE  wire' = wire \/ wire' = Append(wire, m)
BY DEF Send, Delivered, LoggedFailure

LEMMA PCPErrorExtends ==
  ASSUME NEW r, SendPCPError(r)
  PROVE  wire' = wire \/ wire' = Append(wire, Msg("pcp_error", r, NoResults))
BY DEF SendPCPError, Delivered

\* A step that leaves request r's call returned, or moves no other request's
\* call and starts from a request whose call has not returned, loses no
\* response's RespOK.
LEMMA RespOKKept ==
  ASSUME NEW r, rtype \in [Req -> RequestTypes], rtype' \in [Req -> RequestTypes],
         epc[r] # "returned" \/ UNCHANGED <<rtype, epc, outcome>>,
         \A q \in Req \ {r} : rtype'[q] = rtype[q] /\ epc'[q] = epc[q]
                              /\ outcome'[q] = outcome[q]
  PROVE  \A n \in MsgSet : RespOK(n) => RespOK(n)'
BY DEF RespOK, MsgSet

\* Every step keeps the responses on the link tied to their calls.
LEMMA WireStep ==
  ASSUME TypeInv, PidInv, RPInv, [Next]_vars
  PROVE  WireInv'
<1> USE DEF TypeInv, TypeOK, ModuleTypeOK
<1>0. wire \in Seq(MsgSet) /\ WireInv
  BY DEF ConnectorTypeOK, MsgSet, RPInv
<1>1. ASSUME NEW r \in Req, Receive(r) PROVE WireInv'
  <2>1. CASE SendPCPError(r) /\ UNCHANGED <<moduleVars, childVars>>
    <3>1. \A n \in MsgSet : RespOK(n) => RespOK(n)'
      BY <2>1, RespOKKept DEF moduleVars
    <3>2. RespOK(Msg("pcp_error", r, NoResults))'
      BY DEF RespOK, Msg
    <3>3. QED
      BY <1>0, <2>1, <3>1, <3>2, PCPErrorExtends, WireExtend
  <2>2. CASE SendPXPError(r) /\ UNCHANGED <<moduleVars, childVars>>
    <3>1. \A n \in MsgSet : RespOK(n) => RespOK(n)'
      BY <2>2, RespOKKept DEF moduleVars
    <3>2. RespOK(Msg("pxp_error", r, NoResults))'
      BY DEF RespOK, Msg
    <3>3. QED
      BY <1>0, <2>2, <3>1, <3>2, SendExtends, WireExtend DEF SendPXPError
  <2>3. ASSUME NEW t \in RequestTypes, CallAction(r, t)
        PROVE  \A n \in MsgSet : RespOK(n) => RespOK(n)'
    <3>1. epc[r] = "idle" /\ rtype' \in [Req -> RequestTypes]
          /\ \A q \in Req \ {r} : rtype'[q] = rtype[q] /\ epc'[q] = epc[q]
                                  /\ outcome'[q] = outcome[q]
      BY <2>3 DEF CallAction
    <3>2. QED
      BY <3>1, RespOKKept
  <2>4. CASE CallAction(r, "blocking") /\ UNCHANGED connectorVars
    BY <1>0, <2>3, <2>4, WireKept DEF RequestTypes, connectorVars
  <2>5. CASE CallAction(r, "nonblocking") /\ SendProvisionalResponse(r)
    <3>1. RespOK(Msg("provisional", r, NoResults))'
      BY DEF RespOK, Msg
    <3>2. wire' = wire \/ wire' = Append(wire, Msg("provisional", r, NoResults))
      BY <2>5, SendExtends DEF SendProvisionalResponse
    <3>3. \A n \in MsgSet : RespOK(n) => RespOK(n)'
      BY <2>3, <2>5 DEF RequestTypes
    <3>4. QED
      BY <1>0, <3>1, <3>2, <3>3, WireExtend
  <2>6. QED
    BY <1>1, <2>1, <2>2, <2>4, <2>5 DEF Receive
<1>2. ASSUME NEW r \in Req, ModuleNext(r), UNCHANGED <<ppc, connectorVars>>
      PROVE WireInv'
  <2>1. epc[r] # "returned"
    BY <1>2, NotReturnedBefore
  <2>2. /\ \A q \in Req \ {r} : epc'[q] = epc[q] /\ outcome'[q] = outcome[q]
        /\ rtype' = rtype
    BY <1>2 DEF ModuleNext, Spawn, PidCallback, WriteInput,
       CallBlockingAction, CallNonBlockingAction, Returns
  <2>3. \A n \in MsgSet : RespOK(n) => RespOK(n)'
    BY <2>1, <2>2, RespOKKept
  <2>4. QED
    BY <1>0, <1>2, <2>3, WireKept DEF connectorVars
<1>3. ASSUME NEW r \in Req, ChildNext(r),
             UNCHANGED <<ppc, moduleVars, connectorVars>>
      PROVE WireInv'
  <2>1. \A n \in MsgSet : RespOK(n) => RespOK(n)'
    BY <1>3 DEF RespOK, moduleVars
  <2>2. QED
    BY <1>0, <1>3, <2>1, WireKept DEF connectorVars
<1>4. ASSUME NEW r \in Req, Respond(r) PROVE WireInv'
  <2> DEFINE o == outcome[r]
  <2>0. /\ epc[r] = "returned" /\ UNCHANGED moduleVars
        /\ \A n \in MsgSet : RespOK(n) => RespOK(n)'
    <3>1. epc[r] = "returned" /\ UNCHANGED moduleVars
      BY <1>4 DEF Respond
    <3>2. QED
      BY <3>1, RespOKKept DEF moduleVars
  <2>1. CASE SendPXPError(r)
    <3>1. RespOK(Msg("pxp_error", r, NoResults))'
      BY DEF RespOK, Msg
    <3>2. QED
      BY <1>0, <2>0, <2>1, <3>1, SendExtends, WireExtend DEF SendPXPError
  <2>2. CASE o.kind = "outcome" /\ o.results \in ResultsSchema
             /\ rtype[r] = "blocking" /\ SendBlockingResponse(r, o.results)
    <3>1. RespOK(Msg("blocking_response", r, o.results))'
      BY <2>0, <2>2 DEF RespOK, Msg, ResultsSchema, moduleVars
    <3>2. wire' = wire \/ wire' = Append(wire, Msg("blocking_response", r, o.results))
      BY <2>2, SendExtends DEF SendBlockingResponse
    <3>3. QED
      BY <1>0, <2>0, <3>1, <3>2, WireExtend DEF moduleVars
  <2>3. CASE o.kind = "outcome" /\ o.results \in ResultsSchema
             /\ rtype[r] = "nonblocking" /\ SendNonBlockingResponse(r, o.results)
    <3>1. RespOK(Msg("nonblocking_response", r, o.results))'
      BY <2>0, <2>3 DEF RespOK, Msg, ResultsSchema, moduleVars
    <3>2. wire' = wire \/ wire' = Append(wire, Msg("nonblocking_response", r, o.results))
      BY <2>3, SendExtends DEF SendNonBlockingResponse
    <3>3. QED
      BY <1>0, <2>0, <3>1, <3>2, WireExtend DEF moduleVars
  <2>4. QED
    BY <1>4, <2>1, <2>2, <2>3 DEF Respond
<1>5. CASE Terminated \/ UNCHANGED vars
  <2>1. UNCHANGED vars
    BY <1>5 DEF Terminated
  <2>2. UNCHANGED <<wire, rtype, epc, outcome>>
    BY <2>1 DEF vars, moduleVars, connectorVars
  <2>3. QED
    BY <1>0, <2>2 DEF WireInv, RespOK
<1>6. QED
  BY <1>1, <1>2, <1>3, <1>4, <1>5 DEF Next

\* RPInv is preserved by every step, given the type invariant and PidInv.
LEMMA RPStep ==
  ASSUME DistinctDirs, TypeInv, PidInv, RPInv, [Next]_vars
  PROVE  RPInv'
<1>1. WireInv'
  BY WireStep
<1>2. ASSUME NEW s \in Req PROVE RPAt(s)'
  <2>1. \A q \in Req : RPAt(q)
    BY DEF RPInv
  <2>2. ASSUME NEW r \in Req, Receive(r) PROVE RPAt(s)'
    BY <2>1, <2>2, RPReceiveStep
  <2>3. ASSUME NEW r \in Req, ModuleNext(r), UNCHANGED <<ppc, connectorVars>>
        PROVE RPAt(s)'
    BY <2>1, <2>3, RPModuleStep
  <2>4. ASSUME NEW r \in Req, ChildNext(r),
               UNCHANGED <<ppc, moduleVars, connectorVars>>
        PROVE RPAt(s)'
    BY <2>1, <2>4, RPChildStep
  <2>5. ASSUME NEW r \in Req, Respond(r) PROVE RPAt(s)'
    BY <2>1, <2>5 DEF RPAt, Respond, moduleVars, childVars
  <2>6. CASE Terminated \/ UNCHANGED vars
    BY <2>1, <2>6 DEF RPAt, Terminated, vars, moduleVars, childVars
  <2>7. QED
    BY <2>2, <2>3, <2>4, <2>5, <2>6 DEF Next
<1>3. QED
  BY <1>1, <1>2 DEF RPInv

\* RPInv holds in every reachable state.
LEMMA RPInvariant ==
  ASSUME DistinctDirs
  PROVE  Spec => []RPInv
<1>1. Init => RPInv
  <2> SUFFICES ASSUME Init PROVE RPInv
    OBVIOUS
  <2>1. \A r \in Req : RPAt(r)
    BY DirAssumption DEF Init, ModuleInit, ChildInit, RPAt
  <2>2. WireInv
    BY DEF Init, ConnectorInit, WireInv
  <2>3. QED
    BY <2>1, <2>2 DEF RPInv
<1>2. TypeInv /\ PidInv /\ RPInv /\ [Next]_vars => RPInv'
  BY RPStep
<1>3. QED
  BY <1>1, <1>2, TypeInvariant, PidInvariant, PTL DEF Spec

(***************************************************************************)
(* For any set of requests and any failing sends, a response on the link   *)
(* carries the one document the child flushed (on the pipe for a blocking *)
(* call, in the stdout file for a non-blocking one), and a non-blocking    *)
(* job's exitcode file holds the exit code callNonBlockingAction saw.      *)
(***************************************************************************)
THEOREM ResultsPassThroughHolds ==
  ASSUME DistinctDirs
  PROVE  Spec => []ResultsPassThrough
<1>1. TypeOK /\ RPInv => ResultsPassThrough
  <2> SUFFICES ASSUME TypeOK, RPInv, NEW i \in 1..Len(wire)
               PROVE  LET m == wire[i] IN
                        /\ m.kind = "blocking_response" =>
                             pipeOut[m.req] = <<m.results>>
                        /\ m.kind = "nonblocking_response" =>
                             /\ stdoutF[ResultsDir[m.req]] = <<m.results>>
                             /\ exitcodeF[ResultsDir[m.req]] = outcome[m.req].ec
    BY DEF ResultsPassThrough
  <2>1. wire[i].req \in Req
    <3>1. wire \in Seq(MsgSet)
      BY DEF TypeOK, ConnectorTypeOK, MsgSet
    <3>2. wire[i] \in MsgSet
      BY <3>1, ElementOfSeq
    <3>3. QED
      BY <3>2 DEF MsgSet
  <2>2. RPAt(wire[i].req) /\ RespOK(wire[i])
    BY <2>1 DEF RPInv, WireInv
  <2>3. QED
    BY <2>2 DEF RPAt, RespOK
<1>2. QED
  BY <1>1, TypeCorrect, RPInvariant, PTL

-----------------------------------------------------------------------------
(* An answer is final *)

(***************************************************************************)
(* The worker's stage bounds callAction's: an idle worker has not called   *)
(* the module, a calling one has, and a done one either never called it   *)
(* (an error answered at receipt) or answered after the call returned.     *)
(***************************************************************************)
WorkerAt(r) ==
  /\ ppc[r] = "idle" => epc[r] = "idle"
  /\ ppc[r] = "calling" => epc[r] # "idle"
  /\ ppc[r] = "done" => epc[r] \in {"idle", "returned"}

WorkerInv == \A r \in Req : WorkerAt(r)



\* A step keeps every worker's stage in line with its call's.
LEMMA WorkerStep ==
  ASSUME TypeInv, WorkerInv, [Next]_vars
  PROVE  WorkerInv'
<1> USE DEF TypeInv, TypeOK, ModuleTypeOK
<1> SUFFICES ASSUME NEW s \in Req PROVE WorkerAt(s)'
  BY DEF WorkerInv
<1>0. WorkerAt(s)
  BY DEF WorkerInv
<1>1. ASSUME NEW r \in Req, Receive(r) PROVE WorkerAt(s)'
  BY <1>0, <1>1 DEF Receive, WorkerAt, CallAction, moduleVars
<1>2. ASSUME NEW r \in Req, ModuleNext(r), UNCHANGED <<ppc, connectorVars>>
      PROVE WorkerAt(s)'
  <2>1. epc[r] \notin {"idle", "returned"} /\ epc'[r] # "idle"
        /\ \A q \in Req \ {r} : epc'[q] = epc[q]
    BY <1>2 DEF ModuleNext, Spawn, PidCallback, WriteInput,
       CallBlockingAction, CallNonBlockingAction, Returns
  <2>2. QED
    BY <1>0, <1>2, <2>1 DEF WorkerAt
<1>3. ASSUME NEW r \in Req, ChildNext(r),
             UNCHANGED <<ppc, moduleVars, connectorVars>>
      PROVE WorkerAt(s)'
  BY <1>0, <1>3 DEF WorkerAt, moduleVars
<1>4. ASSUME NEW r \in Req, Respond(r) PROVE WorkerAt(s)'
  BY <1>0, <1>4 DEF WorkerAt, Respond, moduleVars
<1>5. CASE Terminated \/ UNCHANGED vars
  BY <1>0, <1>5 DEF WorkerAt, Terminated, vars, moduleVars
<1>6. QED
  BY <1>1, <1>2, <1>3, <1>4, <1>5 DEF Next

LEMMA WorkerInvariant == Spec => []WorkerInv
<1>1. Init => WorkerInv
  BY DEF Init, ModuleInit, WorkerInv, WorkerAt
<1>2. TypeInv /\ WorkerInv /\ [Next]_vars => WorkerInv'
  BY WorkerStep
<1>3. QED
  BY <1>1, <1>2, TypeInvariant, PTL DEF Spec

\* A request whose worker is done has a child that can take no more steps:
\* it was never forked, or it has exited.
LEMMA DoneIsQuiet ==
  ASSUME TypeInv, PidInv, RPInv, WorkerInv, NEW r \in Req, ppc[r] = "done"
  PROVE  \/ epc[r] = "idle" /\ cpc[r] = "none"
         \/ epc[r] = "returned" /\ cpc[r] = "exited"
BY DEF WorkerInv, WorkerAt, PidInv, PidAt, RPInv, RPAt

\* A request's pipe and the files of its results directory
AnswerFiles(s) ==
  <<pipeOut[s], stdoutF[ResultsDir[s]], exitcodeF[ResultsDir[s]],
    pidF[ResultsDir[s]]>>

\* No step touches a done request's pipe, results files or pid file.
LEMMA AnswerStep ==
  ASSUME DistinctDirs, TypeInv, PidInv, RPInv, WorkerInv, [Next]_vars,
         NEW s \in Req, ppc[s] = "done"
  PROVE  UNCHANGED AnswerFiles(s)
<1> USE DEF TypeInv, TypeOK, ModuleTypeOK, ChildTypeOK, AnswerFiles
<1>0. \/ epc[s] = "idle" /\ cpc[s] = "none"
      \/ epc[s] = "returned" /\ cpc[s] = "exited"
  BY DoneIsQuiet
<1>1. ASSUME NEW r \in Req, Receive(r) PROVE UNCHANGED AnswerFiles(s)
  BY <1>1 DEF Receive, CallAction, moduleVars, childVars
<1>2. ASSUME NEW r \in Req, ModuleNext(r), UNCHANGED <<ppc, connectorVars>>
      PROVE UNCHANGED AnswerFiles(s)
  <2>1. r # s
    BY <1>0, <1>2 DEF ModuleNext, Spawn, PidCallback, WriteInput,
       CallBlockingAction, CallNonBlockingAction
  <2>2. ChildSame(s) /\ ModSame(s)
    BY <1>2, <2>1, ModuleFrame
  <2>3. QED
    BY <2>2 DEF ChildSame, ModSame
<1>3. ASSUME NEW r \in Req, ChildNext(r),
             UNCHANGED <<ppc, moduleVars, connectorVars>>
      PROVE UNCHANGED AnswerFiles(s)
  <2>1. r # s
    BY <1>0, <1>3 DEF ChildNext, ChildReadArgsBlocking, ChildOpenOutputFiles,
       ChildRun, ChildAtExit, ChildExit
  <2>2. ChildSame(s)
    BY <1>3, <2>1, ChildFrame
  <2>3. QED
    BY <1>3, <2>2 DEF ChildSame, moduleVars
<1>4. ASSUME NEW r \in Req, Respond(r)
      PROVE UNCHANGED AnswerFiles(s)
  BY <1>4 DEF Respond, moduleVars, childVars
<1>5. CASE Terminated \/ UNCHANGED vars
  BY <1>5 DEF Terminated, vars, moduleVars, childVars
<1>6. QED
  BY <1>1, <1>2, <1>3, <1>4, <1>5 DEF Next

(***************************************************************************)
(* For any set of requests with directories of their own, once a worker   *)
(* has answered, no step of any worker, call or child changes that         *)
(* request's stdout pipe, nor a non-blocking job's results files or pid    *)
(* file: the answer was built after execute waited for the child.  Without *)
(* DistinctDirs it fails (run duplicate_transaction).                      *)
(***************************************************************************)
THEOREM AnswerFinal ==
  ASSUME DistinctDirs
  PROVE  Spec => AnswerIsFinal
<1>1. TypeInv /\ PidInv /\ RPInv /\ WorkerInv /\ [Next]_vars =>
        [\A r \in Req : ppc[r] = "done" => UNCHANGED AnswerFiles(r)]_vars
  BY AnswerStep
<1>2. [\A r \in Req : ppc[r] = "done" => UNCHANGED AnswerFiles(r)]_vars =>
        [\A r \in Req :
           ppc[r] = "done" =>
             /\ UNCHANGED pipeOut[r]
             /\ rtype[r] = "nonblocking" =>
                  UNCHANGED <<stdoutF[ResultsDir[r]], exitcodeF[ResultsDir[r]],
                              pidF[ResultsDir[r]]>>]_vars
  BY DEF AnswerFiles
<1>3. QED
  BY <1>1, <1>2, TypeInvariant, PidInvariant, RPInvariant, WorkerInvariant, PTL
     DEF Spec, AnswerIsFinal

-----------------------------------------------------------------------------
(* A request is answered at most once *)

\* Message m is an answer to request s.
FinalFor(m, s) == m.req = s /\ m.kind \in FinalKinds

(***************************************************************************)
(* A request has at most one answer, and none until its worker is done:    *)
(* the answers are sent only by the steps that make the worker done.       *)
(***************************************************************************)
AnsAt(s) ==
  /\ \A i, j \in FinalsOnWire(s) : i = j
  /\ \A m, n \in FinalsLost(s) : m = n
  /\ FinalsOnWire(s) = {} \/ FinalsLost(s) = {}
  /\ ppc[s] # "done" => FinalsOnWire(s) = {} /\ FinalsLost(s) = {}

AnsInv == \A s \in Req : AnsAt(s)

\* What a step of the connector does to the link and the log: nothing, or
\* one message m delivered or logged.
ConnectorMoves(m) ==
  \/ wire' = wire /\ lost' = lost
  \/ wire' = Append(wire, m) /\ lost' = lost
  \/ wire' = wire /\ lost' = lost \cup {m}

\* A message that is not an answer to s leaves s's answers as they were.
LEMMA FinalsOther ==
  ASSUME wire \in Seq(MsgSet), NEW m, NEW s, ConnectorMoves(m), ~FinalFor(m, s)
  PROVE  FinalsOnWire(s)' = FinalsOnWire(s) /\ FinalsLost(s)' = FinalsLost(s)
<1>1. FinalsLost(s)' = FinalsLost(s)
  BY DEF ConnectorMoves, FinalsLost, FinalFor
<1>2. FinalsOnWire(s)' = FinalsOnWire(s)
  <2>1. CASE wire' = wire
    BY <2>1 DEF FinalsOnWire
  <2>2. CASE wire' = Append(wire, m)
    <3>1. /\ Len(wire') = Len(wire) + 1 /\ wire'[Len(wire) + 1] = m
          /\ \A j \in 1..Len(wire) : wire'[j] = wire[j]
      BY <2>2, AppendProperties
    <3>2. QED
      BY <3>1 DEF FinalsOnWire, FinalFor
  <2>3. QED
    BY <2>1, <2>2 DEF ConnectorMoves
<1>3. QED
  BY <1>1, <1>2

\* The first answer to s, delivered or logged, is the only one.
LEMMA FinalsFirst ==
  ASSUME wire \in Seq(MsgSet), NEW m, NEW s, ConnectorMoves(m),
         FinalsOnWire(s) = {}, FinalsLost(s) = {}
  PROVE  /\ \A i, j \in FinalsOnWire(s)' : i = j
         /\ \A a, b \in FinalsLost(s)' : a = b
         /\ FinalsOnWire(s)' = {} \/ FinalsLost(s)' = {}
<1>1. CASE wire' = wire /\ lost' = lost
  BY <1>1 DEF FinalsOnWire, FinalsLost
<1>2. CASE wire' = Append(wire, m) /\ lost' = lost
  <2>1. /\ Len(wire') = Len(wire) + 1 /\ wire'[Len(wire) + 1] = m
        /\ \A j \in 1..Len(wire) : wire'[j] = wire[j]
    BY <1>2, AppendProperties
  <2>2. FinalsOnWire(s)' \subseteq {Len(wire) + 1}
    BY <2>1 DEF FinalsOnWire
  <2>3. QED
    BY <1>2, <2>2 DEF FinalsLost
<1>3. CASE wire' = wire /\ lost' = lost \cup {m}
  <2>1. FinalsLost(s)' \subseteq {m}
    BY <1>3 DEF FinalsLost
  <2>2. QED
    BY <1>3, <2>1 DEF FinalsOnWire
<1>4. QED
  BY <1>1, <1>2, <1>3 DEF ConnectorMoves

\* Each send of the connector is one of its moves.
LEMMA SendMoves ==
  ASSUME NEW m, Send(m)
  PROVE  ConnectorMoves(m)
BY DEF Send, Delivered, LoggedFailure, ConnectorMoves

LEMMA PCPErrorMoves ==
  ASSUME NEW r, SendPCPError(r)
  PROVE  ConnectorMoves(Msg("pcp_error", r, NoResults))
BY DEF SendPCPError, Delivered, ConnectorMoves

\* A step that sends no answer to s and leaves a done worker done keeps
\* AnsAt(s).
LEMMA AnsKept ==
  ASSUME wire \in Seq(MsgSet), NEW s, AnsAt(s), NEW m, ConnectorMoves(m),
         ~FinalFor(m, s), ppc[s] = "done" => ppc'[s] = "done"
  PROVE  AnsAt(s)'
<1>1. FinalsOnWire(s)' = FinalsOnWire(s) /\ FinalsLost(s)' = FinalsLost(s)
  BY FinalsOther
<1>2. ppc'[s] # "done" => FinalsOnWire(s)' = {} /\ FinalsLost(s)' = {}
  <2>1. HAVE ppc'[s] # "done"
  <2>2. ppc[s] # "done"
    BY <2>1
  <2>3. FinalsOnWire(s) = {} /\ FinalsLost(s) = {}
    BY <2>2 DEF AnsAt
  <2>4. QED
    BY <1>1, <2>3
<1>3. QED
  BY <1>1, <1>2, Zenon DEF AnsAt

\* A step that sends the first answer to s makes s's worker done.
LEMMA AnsFirst ==
  ASSUME wire \in Seq(MsgSet), NEW s, AnsAt(s), ppc[s] # "done", NEW m,
         ConnectorMoves(m), ppc'[s] = "done"
  PROVE  AnsAt(s)'
<1>1. FinalsOnWire(s) = {} /\ FinalsLost(s) = {}
  BY DEF AnsAt
<1>2. QED
  BY <1>1, FinalsFirst DEF AnsAt

\* A provisional response is never an answer.
LEMMA ProvisionalNotFinal ==
  ASSUME NEW s
  PROVE  ~FinalFor(Msg("provisional", s, NoResults), s)
BY DEF FinalFor, Msg, FinalKinds

\* A message about another request is no answer to s.
LEMMA OtherNotFinal ==
  ASSUME NEW k, NEW r, NEW res, NEW s, r # s
  PROVE  ~FinalFor(Msg(k, r, res), s)
BY DEF FinalFor, Msg

\* A step that leaves the link, the log and the workers alone keeps AnsAt(s).
LEMMA AnsQuiet ==
  ASSUME wire \in Seq(MsgSet), NEW s, AnsAt(s),
         UNCHANGED <<wire, lost>>, ppc'[s] = ppc[s]
  PROVE  AnsAt(s)'
<1>1. ConnectorMoves(Msg("provisional", s, NoResults))
  BY DEF ConnectorMoves
<1>2. QED
  BY <1>1, ProvisionalNotFinal, AnsKept

\* Each action of the request processor keeps AnsAt(s) for every request s.
LEMMA AnsReceiveStep ==
  ASSUME TypeOK, AnsInv, NEW r \in Req, Receive(r), NEW s \in Req
  PROVE  AnsAt(s)'
<1> USE DEF TypeOK
<1>1. AnsAt(s) /\ wire \in Seq(MsgSet)
  BY DEF AnsInv, ConnectorTypeOK, MsgSet
<1>2. ppc[r] = "idle"
  BY DEF Receive
<1>3. s # r => ppc'[s] = ppc[s]
  BY DEF Receive
<1>4. CASE SendPCPError(r) /\ ppc' = [ppc EXCEPT ![r] = "done"]
  <2>1. ConnectorMoves(Msg("pcp_error", r, NoResults))
    BY <1>4, PCPErrorMoves
  <2>2. CASE s = r
    BY <1>1, <1>2, <1>4, <2>1, <2>2, AnsFirst
  <2>3. CASE s # r
    BY <1>1, <1>3, <2>1, <2>3, OtherNotFinal, AnsKept
  <2>4. QED
    BY <2>2, <2>3
<1>5. CASE SendPXPError(r) /\ ppc' = [ppc EXCEPT ![r] = "done"]
  <2>1. ConnectorMoves(Msg("pxp_error", r, NoResults))
    BY <1>5, SendMoves DEF SendPXPError
  <2>2. CASE s = r
    BY <1>1, <1>2, <1>5, <2>1, <2>2, AnsFirst
  <2>3. CASE s # r
    BY <1>1, <1>3, <2>1, <2>3, OtherNotFinal, AnsKept
  <2>4. QED
    BY <2>2, <2>3
<1>6. CASE UNCHANGED connectorVars /\ ppc' = [ppc EXCEPT ![r] = "calling"]
  <2>1. ConnectorMoves(Msg("provisional", r, NoResults))
    BY <1>6 DEF connectorVars, ConnectorMoves
  <2>2. ppc[s] = "done" => ppc'[s] = "done"
    BY <1>2, <1>3, <1>6
  <2>3. QED
    BY <1>1, <2>1, <2>2, ProvisionalNotFinal, OtherNotFinal, AnsKept
<1>7. CASE SendProvisionalResponse(r) /\ ppc' = [ppc EXCEPT ![r] = "calling"]
  <2>1. ConnectorMoves(Msg("provisional", r, NoResults))
    BY <1>7, SendMoves DEF SendProvisionalResponse
  <2>2. ppc[s] = "done" => ppc'[s] = "done"
    BY <1>2, <1>3, <1>7
  <2>3. QED
    BY <1>1, <2>1, <2>2, ProvisionalNotFinal, OtherNotFinal, AnsKept
<1>8. QED
  BY <1>4, <1>5, <1>6, <1>7 DEF Receive

LEMMA AnsRespondStep ==
  ASSUME TypeOK, AnsInv, NEW r \in Req, Respond(r), NEW s \in Req
  PROVE  AnsAt(s)'
<1> USE DEF TypeOK
<1>1. AnsAt(s) /\ wire \in Seq(MsgSet)
  BY DEF AnsInv, ConnectorTypeOK, MsgSet
<1>2. ppc[r] = "calling" /\ ppc' = [ppc EXCEPT ![r] = "done"]
  BY DEF Respond
<1>3. PICK k \in MsgKinds : \E res : Send(Msg(k, r, res))
  BY DEF Respond, SendPXPError, SendBlockingResponse, SendNonBlockingResponse,
     MsgKinds
<1>4. PICK res : ConnectorMoves(Msg(k, r, res))
  BY <1>3, SendMoves
<1>5. CASE s = r
  BY <1>1, <1>2, <1>4, <1>5, AnsFirst
<1>6. CASE s # r
  BY <1>1, <1>2, <1>4, <1>6, OtherNotFinal, AnsKept
<1>7. QED
  BY <1>5, <1>6

\* AnsInv is preserved by every step, given the type invariant.
LEMMA AnsStep ==
  ASSUME TypeOK, AnsInv, [Next]_vars
  PROVE  AnsInv'
<1> SUFFICES ASSUME NEW s \in Req PROVE AnsAt(s)'
  BY DEF AnsInv
<1>1. AnsAt(s) /\ wire \in Seq(MsgSet)
  BY DEF AnsInv, TypeOK, ConnectorTypeOK, MsgSet
<1>2. ASSUME NEW r \in Req, Receive(r) PROVE AnsAt(s)'
  BY <1>2, AnsReceiveStep
<1>3. ASSUME NEW r \in Req, Respond(r) PROVE AnsAt(s)'
  BY <1>3, AnsRespondStep
<1>4. CASE UNCHANGED <<wire, lost>> /\ ppc' = ppc
  BY <1>1, <1>4, AnsQuiet
<1>5. QED
  BY <1>2, <1>3, <1>4 DEF Next, Terminated, vars, connectorVars

\* AnsInv holds in every reachable state.
LEMMA AnsInvariant == Spec => []AnsInv
<1>1. Init => AnsInv
  <2> SUFFICES ASSUME Init, NEW s \in Req PROVE AnsAt(s)
    BY DEF AnsInv
  <2>1. wire = <<>> /\ lost = {}
    BY DEF Init, ConnectorInit
  <2>2. FinalsOnWire(s) = {} /\ FinalsLost(s) = {}
    BY <2>1 DEF FinalsOnWire, FinalsLost
  <2>3. QED
    BY <2>2 DEF AnsAt
<1>2. TypeOK /\ AnsInv /\ [Next]_vars => AnsInv'
  BY AnsStep
<1>3. QED
  BY <1>1, <1>2, TypeCorrect, PTL DEF Spec

(***************************************************************************)
(* For any set of requests, each request gets at most one answer (a PCP or *)
(* PXP error, a blocking or non-blocking response): at most one on the     *)
(* link, at most one whose failed send was logged, and never one of each.  *)
(* The worker answers only in the steps that make it done, and a failed    *)
(* send is logged by the connector, never retried.                        *)
(***************************************************************************)
THEOREM AnsweredOnceHolds == Spec => []AnsweredOnce
<1>1. AnsInv => AnsweredOnce
  BY DEF AnsInv, AnsAt, AnsweredOnce
<1>2. QED
  BY <1>1, AnsInvariant, PTL
=============================================================================
