----------------------------- MODULE Transaction -----------------------------
(***************************************************************************)
(* What the agent promises a controller about one request (spec sections   *)
(* 4.4, 5 and 7), without the module, the child or the files: a request is *)
(* rejected with a PCP or PXP error, or accepted as blocking or            *)
(* non-blocking, a non-blocking one with a provisional response; an        *)
(* accepted request is closed by one PXP error or one response of its own  *)
(* type carrying results that passed the results schema.  Nothing more is  *)
(* sent about a closed request.  Any message may be lost, its loss logged. *)
(***************************************************************************)
EXTENDS Sequences

CONSTANTS
  Req,       \* the requests
  Results    \* the results a response may carry

VARIABLES
  ts,        \* each request: new, blocking, nonblocking or closed
  wire,      \* messages on the link, oldest first
  lost       \* messages whose send failure was logged

txVars == <<ts, wire, lost>>

NoMsgResults == "none"

TxMsg(k, r, res) == [kind |-> k, req |-> r, results |-> res]

TxInit ==
  /\ ts = [r \in Req |-> "new"]
  /\ wire = <<>>
  /\ lost = {}

\* The message reaches the link, or its failure is logged
Emit(m) ==
  \/ wire' = Append(wire, m) /\ UNCHANGED lost
  \/ lost' = lost \cup {m} /\ UNCHANGED wire

\* An envelope that is not a valid request, or names no known action
Reject(r) ==
  /\ ts[r] = "new"
  /\ \E k \in {"pcp_error", "pxp_error"} : Emit(TxMsg(k, r, NoMsgResults))
  /\ ts' = [ts EXCEPT ![r] = "closed"]

\* A valid blocking request is accepted silently
AcceptBlocking(r) ==
  /\ ts[r] = "new"
  /\ ts' = [ts EXCEPT ![r] = "blocking"]
  /\ UNCHANGED <<wire, lost>>

\* A valid non-blocking request is acknowledged with a provisional response
AcceptNonBlocking(r) ==
  /\ ts[r] = "new"
  /\ Emit(TxMsg("provisional", r, NoMsgResults))
  /\ ts' = [ts EXCEPT ![r] = "nonblocking"]

\* An accepted request gets a PXP error or a response of its type
Close(r) ==
  /\ ts[r] \in {"blocking", "nonblocking"}
  /\ \/ Emit(TxMsg("pxp_error", r, NoMsgResults))
     \/ \E res \in Results :
          Emit(TxMsg(IF ts[r] = "blocking" THEN "blocking_response"
                                            ELSE "nonblocking_response",
                     r, res))
  /\ ts' = [ts EXCEPT ![r] = "closed"]

TxNext ==
  \E r \in Req :
    \/ Reject(r)
    \/ AcceptBlocking(r)
    \/ AcceptNonBlocking(r)
    \/ Close(r)

TxSpec == TxInit /\ [][TxNext]_txVars

=============================================================================
