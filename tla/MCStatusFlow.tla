---------------------------- MODULE MCStatusFlow ---------------------------
(* TLC instances of StatusFlow: calls that wait for each other or overlap,   *)
(* on Android and on the desktop.                                            *)
EXTENDS StatusFlow

AllWorlds == SUBSET {"android", "overlap"}
=============================================================================
