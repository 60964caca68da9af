---------------------------- MODULE MCRpcClient ----------------------------
(***************************************************************************)
(* Instances of RpcClient.  Pool: two callers share three endpoints, the   *)
(* second of the wrong chain, that answer with errors and come back, and   *)
(* the process may stop.  Hang: one caller, two endpoints, one of which    *)
(* may stop answering.                                                     *)
(***************************************************************************)
EXTENDS RpcClient

PoolCallers == {1, 2}
PoolWrongChain == {2}
=============================================================================
