---------------------------- MODULE MCKVTransfer ----------------------------
(***************************************************************************)
(* Two transfers of one request: the failure of one cleans up the other.   *)
(***************************************************************************)
EXTENDS KVTransfer

CONSTANTS t1, t2, q1

SameRequest == [t \in Transfers |-> q1]

=============================================================================
