----------------------------- MODULE MCRpcMonitor -----------------------------
(* Instances of RpcMonitor for TLC.                                        *)
EXTENDS RpcMonitor

CONSTANTS p1, p2
=============================================================================
