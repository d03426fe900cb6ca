----------------------------- MODULE RpcContract -----------------------------
(***************************************************************************)
(* What a request to the core promises its caller: it is carried out once  *)
(* at most, and returns either what its own run answered or the default of *)
(* a time-out.  After a default nobody knows: the core may have carried it *)
(* out, may still do so, or never will.                                    *)
(***************************************************************************)
EXTENDS Naturals

CONSTANT Requests

VARIABLES
    out,    \* what the caller has: none, pending, answer, default
    runs    \* how often the core has carried the request out

vars == <<out, runs>>

Init ==
    /\ out = [r \in Requests |-> "none"]
    /\ runs = [r \in Requests |-> 0]

Invoke(r) == out[r] = "none" /\ out' = [out EXCEPT ![r] = "pending"] /\ UNCHANGED runs

Run(r) ==
    /\ out[r] # "none" /\ runs[r] = 0
    /\ runs' = [runs EXCEPT ![r] = 1]
    /\ UNCHANGED out

Answer(r) ==
    /\ out[r] = "pending" /\ runs[r] = 1
    /\ out' = [out EXCEPT ![r] = "answer"]
    /\ UNCHANGED runs

Default(r) == out[r] = "pending" /\ out' = [out EXCEPT ![r] = "default"] /\ UNCHANGED runs

Next == \E r \in Requests : Invoke(r) \/ Run(r) \/ Answer(r) \/ Default(r)

Spec == Init /\ [][Next]_vars
=============================================================================
