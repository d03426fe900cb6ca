---------------------------- MODULE MCTunHandler ----------------------------
(* TLC instances of TunHandler: the calls and the dialling goroutines are    *)
(* interchangeable, so safety runs use them as symmetry sets.                *)
EXTENDS TunHandler, TLC

Symmetry == Permutations(Starts) \cup Permutations(Stops) \cup Permutations(Dials)
=============================================================================
