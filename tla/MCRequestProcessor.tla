------------------------- MODULE MCRequestProcessor -------------------------
(* Instantiation of RequestProcessor for TLC: two concurrent requests.     *)
EXTENDS RequestProcessor, TLC

CONSTANTS r1, r2, d1

MCReq == {r1, r2}

\* Each request has a transaction of its own, whose directory is named after it
MCOwnDir == [r \in MCReq |-> r]

\* Two deliveries of one transaction: both requests name directory d1
MCSharedDirs == {d1}

MCSharedDir == [r \in MCReq |-> d1]

\* Every send may fail except the PCP error (see run pcp_error_send_failure)
MCFailingKinds == MsgKinds \ {"pcp_error"}

MCAllFailingKinds == MsgKinds

MCSymmetry == Permutations(MCReq)
=============================================================================
