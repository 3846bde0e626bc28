---------------------------- MODULE MCNodeRpcProxy ----------------------------
(***************************************************************************)
(* Instances of NodeRpcProxy for TLC.                                      *)
(***************************************************************************)
EXTENDS NodeRpcProxy, TLC

=============================================================================
