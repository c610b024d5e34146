-------------------------- MODULE RequestProcessor --------------------------
(***************************************************************************)
(* The request processor (spec section 4.4; its code is not under src/):   *)
(* one worker per inbound request validates it, answers invalid ones with  *)
(* a PCP or PXP error, sends the provisional response of a non-blocking    *)
(* request, calls the external module and, when the call returns,          *)
(* validates the results and sends the response or a PXP error through     *)
(* the PXPConnector.  Composes the worker, the external module call, the   *)
(* child process and the connector; requests run concurrently.             *)
(***************************************************************************)
EXTENDS ExternalModule, PXPConnector

VARIABLE
  ppc         \* the worker of each request: idle, calling, done

vars == <<ppc, moduleVars, childVars, connectorVars>>

ASSUME ReqAssumption == Req # {}

\* The results schema of the puppet "run" action accepts both documents and
\* rejects null (it requires an object with kind, time, ... and version).
ResultsSchema == Docs

FinalKinds == MsgKinds \ {"provisional"}

TypeOK ==
  /\ ppc \in [Req -> {"idle", "calling", "done"}]
  /\ ModuleTypeOK
  /\ ChildTypeOK
  /\ ConnectorTypeOK(Req, Json)

Init ==
  /\ ppc = [r \in Req |-> "idle"]
  /\ ModuleInit
  /\ ChildInit
  /\ ConnectorInit

(***************************************************************************)
(* An envelope arrives for request r.  It is not a request message (PCP    *)
(* error); it names an unknown module or action, lacks a field or fails    *)
(* the input schema (PXP error); or it is accepted: a non-blocking request *)
(* gets its provisional response before the module is called.             *)
(***************************************************************************)
Receive(r) ==
  /\ ppc[r] = "idle"
  /\ \/ /\ SendPCPError(r)
        /\ ppc' = [ppc EXCEPT ![r] = "done"]
        /\ UNCHANGED <<moduleVars, childVars>>
     \/ /\ SendPXPError(r)
        /\ ppc' = [ppc EXCEPT ![r] = "done"]
        /\ UNCHANGED <<moduleVars, childVars>>
     \/ /\ CallAction(r, "blocking")
        /\ ppc' = [ppc EXCEPT ![r] = "calling"]
        /\ UNCHANGED connectorVars
     \/ /\ CallAction(r, "nonblocking")
        /\ SendProvisionalResponse(r)
        /\ ppc' = [ppc EXCEPT ![r] = "calling"]

\* Mutant: a ProcessingError is caught and only logged, never answered
RespondSwallowErrorMutant(r) ==
  /\ ppc[r] = "calling"
  /\ epc[r] = "returned"
  /\ LET o == outcome[r] IN
       \/ /\ o.kind = "error"
          /\ UNCHANGED connectorVars
       \/ /\ o.kind = "outcome"
          /\ o.results \notin ResultsSchema
          /\ SendPXPError(r)
       \/ /\ o.kind = "outcome"
          /\ o.results \in ResultsSchema
          /\ rtype[r] = "blocking"
          /\ SendBlockingResponse(r, o.results)
       \/ /\ o.kind = "outcome"
          /\ o.results \in ResultsSchema
          /\ rtype[r] = "nonblocking"
          /\ SendNonBlockingResponse(r, o.results)
  /\ ppc' = [ppc EXCEPT ![r] = "done"]
  /\ UNCHANGED <<moduleVars, childVars>>

\* Mutant: the worker stays "calling" after answering
RespondTwiceMutant(r) ==
  /\ ppc[r] = "calling"
  /\ epc[r] = "returned"
  /\ LET o == outcome[r] IN
       \/ /\ o.kind = "error"
          /\ SendPXPError(r)
       \/ /\ o.kind = "outcome"
          /\ o.results \notin ResultsSchema
          /\ SendPXPError(r)
       \/ /\ o.kind = "outcome"
          /\ o.results \in ResultsSchema
          /\ rtype[r] = "blocking"
          /\ SendBlockingResponse(r, o.results)
       \/ /\ o.kind = "outcome"
          /\ o.results \in ResultsSchema
          /\ rtype[r] = "nonblocking"
          /\ SendNonBlockingResponse(r, o.results)
  /\ UNCHANGED <<ppc, moduleVars, childVars>>

(***************************************************************************)
(* The call returned: a ProcessingError, or results failing the results    *)
(* schema, is a PXP error; valid results go out as the response of the     *)
(* request's type.                                                         *)
(***************************************************************************)
Respond(r) ==
  /\ ppc[r] = "calling"
  /\ epc[r] = "returned"
  /\ LET o == outcome[r] IN
       \/ /\ o.kind = "error"
          /\ SendPXPError(r)
       \/ /\ o.kind = "outcome"
          /\ o.results \notin ResultsSchema
          /\ SendPXPError(r)
       \/ /\ o.kind = "outcome"
          /\ o.results \in ResultsSchema
          /\ rtype[r] = "blocking"
          /\ SendBlockingResponse(r, o.results)
       \/ /\ o.kind = "outcome"
          /\ o.results \in ResultsSchema
          /\ rtype[r] = "nonblocking"
          /\ SendNonBlockingResponse(r, o.results)
  /\ ppc' = [ppc EXCEPT ![r] = "done"]
  /\ UNCHANGED <<moduleVars, childVars>>

\* Every request has been handled; the agent idles.
Terminated ==
  /\ \A r \in Req : ppc[r] = "done"
  /\ UNCHANGED vars

Next ==
  \/ \E r \in Req :
       \/ Receive(r)
       \/ ModuleNext(r) /\ UNCHANGED <<ppc, connectorVars>>
       \/ ChildNext(r) /\ UNCHANGED <<ppc, moduleVars, connectorVars>>
       \/ Respond(r)
  \/ Terminated

Spec == Init /\ [][Next]_vars

(***************************************************************************)
(* Workers and child processes are scheduled by the OS and, once able to  *)
(* step, keep that ability until they step; a child runs to completion     *)
(* (the agent imposes no timeout).  Nothing obliges the broker to deliver. *)
(***************************************************************************)
FairSpec ==
  /\ Spec
  /\ \A r \in Req : /\ WF_vars(ModuleNext(r) /\ UNCHANGED <<ppc, connectorVars>>)
                    /\ WF_vars(ChildNext(r) /\ UNCHANGED <<ppc, moduleVars, connectorVars>>)
                    /\ WF_vars(Respond(r))

-----------------------------------------------------------------------------
(* Properties *)

OnWire(m) == \E i \in 1..Len(wire) : wire[i] = m

(***************************************************************************)
(* Results pass through unchanged, and the job record agrees with them: a  *)
(* blocking response carries exactly the one document the child flushed   *)
(* on its stdout pipe; a non-blocking response carries exactly the one     *)
(* document in the results directory's stdout file, and that directory's  *)
(* exitcode file holds the exit code callNonBlockingAction saw, so a later *)
(* status query reads the same story (callNonBlockingAction, lines         *)
(* 367-383; the child's at_exit hook).                                     *)
(***************************************************************************)
ResultsPassThrough ==
  \A i \in 1..Len(wire) :
    LET m == wire[i] IN
      /\ m.kind = "blocking_response" => pipeOut[m.req] = <<m.results>>
      /\ m.kind = "nonblocking_response" =>
           /\ stdoutF[ResultsDir[m.req]] = <<m.results>>
           /\ exitcodeF[ResultsDir[m.req]] = outcome[m.req].ec

(***************************************************************************)
(* The pid file of a non-blocking job exists before the child does any     *)
(* work: the pid callback runs before execute writes the child's stdin,    *)
(* which the child waits for (callNonBlockingAction, lines 352-365).      *)
(***************************************************************************)
PidWrittenBeforeWork ==
  \A r \in Req :
    (rtype[r] = "nonblocking" /\ cpc[r] \notin {"none", "spawned"})
      => pidF[ResultsDir[r]] = "pid"

(***************************************************************************)
(* An answer is final: once the worker has answered a request, no step     *)
(* changes the request's stdout pipe, nor, for a non-blocking job, the     *)
(* results files or pid file a status query reads; the results are read   *)
(* only after execute has waited for the child's exit.                     *)
(***************************************************************************)
AnswerIsFinal ==
  [][\A r \in Req :
       ppc[r] = "done" =>
         /\ UNCHANGED pipeOut[r]
         /\ rtype[r] = "nonblocking" =>
              UNCHANGED <<stdoutF[ResultsDir[r]], exitcodeF[ResultsDir[r]],
                          pidF[ResultsDir[r]]>>]_vars

\* The positions of the final messages about request r on the link
FinalsOnWire(r) ==
  {i \in 1..Len(wire) : wire[i].req = r /\ wire[i].kind \in FinalKinds}

\* The final messages about request r whose send failure was logged
FinalsLost(r) == {m \in lost : m.req = r /\ m.kind \in FinalKinds}

(***************************************************************************)
(* A request is answered at most once: one PCP error, PXP error or         *)
(* response, on the link or logged as lost, never a second one; a failed   *)
(* send is logged by the connector (sendBlockingResponse and its siblings, *)
(* pxp_connector.cc) and never followed by another answer.                 *)
(***************************************************************************)
AnsweredOnce ==
  \A r \in Req :
    /\ \A i, j \in FinalsOnWire(r) : i = j
    /\ \A m, n \in FinalsLost(r) : m = n
    /\ FinalsOnWire(r) = {} \/ FinalsLost(r) = {}

(***************************************************************************)
(* Every request the agent receives is eventually answered on the link or *)
(* the failure to send its answer is logged (spec section 7: all errors   *)
(* are caught at the request processor and reported).                      *)
(***************************************************************************)
Settled(r) ==
  \/ \E i \in 1..Len(wire) : wire[i].req = r /\ wire[i].kind \in FinalKinds
  \/ \E m \in lost : m.req = r /\ m.kind \in FinalKinds

EveryRequestSettled ==
  \A r \in Req : (ppc[r] # "idle") ~> Settled(r)

(***************************************************************************)
(* Spec section 5: within a transaction the provisional response precedes  *)
(* the non-blocking response on the link.                                  *)
(***************************************************************************)
ProvisionalPrecedesFinal ==
  \A i \in 1..Len(wire) :
    wire[i].kind = "nonblocking_response" =>
      \E j \in 1..(i - 1) : wire[j] = Msg("provisional", wire[i].req, NoResults)

(***************************************************************************)
(* Spec section 8: empty child stdout with a non-zero exit is a            *)
(* ProcessingError ("returned no output on stdout"), never an outcome.     *)
(* processRequestOutcome, line 296.                                        *)
(***************************************************************************)
EmptyStdoutFailureIsError ==
  \A r \in Req :
    (outcome[r].kind = "outcome" /\ outcome[r].results = "null")
      => outcome[r].ec = 0

(***************************************************************************)
(* Spec section 6.4: the exitcode file is written on the child's exit; a   *)
(* status reader that finds it finds the stdout file complete, i.e. the    *)
(* stdout file never changes once the exitcode file exists.                *)
(***************************************************************************)
JobRecordCompleteAtExitcode ==
  [][\A d \in Dirs : exitcodeF[d] # Absent => UNCHANGED stdoutF[d]]_vars

(***************************************************************************)
(* The request processor implements the transaction promise of             *)
(* Transaction: a worker that has not called the module is a new request,  *)
(* one that is calling holds an accepted request of the type it called     *)
(* with, and a done one is closed.                                         *)
(***************************************************************************)
TxState ==
  [r \in Req |-> IF ppc[r] = "idle" THEN "new"
                 ELSE IF ppc[r] = "done" THEN "closed"
                 ELSE rtype[r]]

TX == INSTANCE Transaction WITH ts <- TxState, Results <- ResultsSchema

(***************************************************************************)
(* Every behaviour of the workers, the module calls, the children and the  *)
(* connector is one the transaction promise allows: each request is        *)
(* rejected or accepted once, a non-blocking acceptance is acknowledged,   *)
(* and it is closed by one PXP error or one response of its own type whose *)
(* results passed the results schema; nothing follows a close.             *)
(***************************************************************************)
TransactionRefinement == TX!TxSpec

=============================================================================
