---------------------------- MODULE PXPConnector ----------------------------
(***************************************************************************)
(* PXPConnector (src/lib/src/pxp_connector.cc): the five messages the core *)
(* sends to the broker.  Every send is best-effort: when the Connector     *)
(* raises connection_error the failure is logged and nothing is retried.   *)
(* The link to the broker is the sequence of messages that left the agent, *)
(* in order; a message names its request (hence its transaction id and    *)
(* id) and, for a response, the results it carries.                        *)
(***************************************************************************)
EXTENDS Sequences

CONSTANT
  FailingKinds   \* the message kinds whose send may raise connection_error

VARIABLES
  wire,      \* messages sent to the broker, oldest first
  lost,      \* messages whose connection_error was caught and logged
  escaped    \* requests whose send failure raised out of the connector

connectorVars == <<wire, lost, escaped>>

MsgKinds == {"pcp_error", "pxp_error", "provisional", "blocking_response",
             "nonblocking_response"}

ASSUME FailingKindsAssumption == FailingKinds \subseteq MsgKinds

NoResults == "none"

Msg(k, r, res) == [kind |-> k, req |-> r, results |-> res]

ConnectorTypeOK(R, Res) ==
  /\ wire \in Seq([kind : MsgKinds, req : R, results : Res \cup {NoResults}])
  /\ lost \subseteq [kind : MsgKinds, req : R, results : Res \cup {NoResults}]
  /\ escaped \subseteq R

ConnectorInit ==
  /\ wire = <<>>
  /\ lost = {}
  /\ escaped = {}

\* send(...) returns: the message is on the link
Delivered(m) ==
  /\ wire' = Append(wire, m)
  /\ UNCHANGED <<lost, escaped>>

\* send(...) raises connection_error; the catch logs it (LOG_ERROR)
LoggedFailure(m) ==
  /\ m.kind \in FailingKinds
  /\ lost' = lost \cup {m}
  /\ UNCHANGED <<wire, escaped>>

Send(m) == Delivered(m) \/ LoggedFailure(m)

(***************************************************************************)
(* sendPCPError: the catch of connection_error logs with the format        *)
(* "...request %1%: %3%" and two arguments; boost::format raises           *)
(* too_few_args from inside the handler, so the failure leaves the         *)
(* connector as an exception instead of a log line.                        *)
(***************************************************************************)
SendPCPError(r) ==
  \/ Delivered(Msg("pcp_error", r, NoResults))
  \/ /\ "pcp_error" \in FailingKinds
     /\ escaped' = escaped \cup {r}
     /\ UNCHANGED <<wire, lost>>

SendPXPError(r) == Send(Msg("pxp_error", r, NoResults))

SendBlockingResponse(r, res) == Send(Msg("blocking_response", r, res))

\* Mutant: the non-blocking response goes out with the blocking message type
SendNonBlockingResponseWrongTypeMutant(r, res) ==
  Send(Msg("blocking_response", r, res))

SendNonBlockingResponse(r, res) == Send(Msg("nonblocking_response", r, res))

SendProvisionalResponse(r) == Send(Msg("provisional", r, NoResults))

=============================================================================
