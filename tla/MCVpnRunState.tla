---------------------------- MODULE MCVpnRunState ---------------------------
(* TLC instances of VpnRunState.                                             *)
EXTENDS VpnRunState

MCWorlds == {{}, {"open", "fail"}}
Calm == {{"open"}}
=============================================================================
