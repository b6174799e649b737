----------------------------- MODULE MCRpcGuard -----------------------------
(* Instances of RpcGuard for TLC. *)
EXTENDS RpcGuard

CONSTANTS c1, c2

TwoCalls == {c1, c2}
=============================================================================
