------------------------------ MODULE MCCoreRpc ------------------------------
(* TLC instances of CoreRpc.                                                 *)
EXTENDS CoreRpc
=============================================================================
