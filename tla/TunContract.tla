---------------------------- MODULE TunContract -----------------------------
(***************************************************************************)
(* What the TUN component of the core promises about the resources of a    *)
(* start call: the JNI callback is used only while it is held and its      *)
(* tunnel is open, and it is given back once, when nobody is inside it,    *)
(* together with the tunnel.                                               *)
(***************************************************************************)
CONSTANTS Starts, Dials

VARIABLES
    stage,   \* start -> what became of its callback
    tunnel,  \* start -> what became of its tunnel
    users    \* start -> goroutines inside a native call with its callback

vars == <<stage, tunnel, users>>

Init ==
    /\ stage = [s \in Starts |-> "unused"]
    /\ tunnel = [s \in Starts |-> "none"]
    /\ users = [s \in Starts |-> {}]

\* A handler takes the callback.
Hold(s) ==
    /\ stage[s] = "unused"
    /\ stage' = [stage EXCEPT ![s] = "held"]
    /\ UNCHANGED <<tunnel, users>>

Open(s) ==
    /\ stage[s] = "held"
    /\ tunnel[s] = "none"
    /\ tunnel' = [tunnel EXCEPT ![s] = "open"]
    /\ UNCHANGED <<stage, users>>

Enter(d, s) ==
    /\ stage[s] = "held"
    /\ tunnel[s] = "open"
    /\ \A t \in Starts : d \notin users[t]
    /\ users' = [users EXCEPT ![s] = @ \cup {d}]
    /\ UNCHANGED <<stage, tunnel>>

Leave(d, s) ==
    /\ d \in users[s]
    /\ users' = [users EXCEPT ![s] = @ \ {d}]
    /\ UNCHANGED <<stage, tunnel>>

\* The tunnel is closed, if it was opened, and the callback given back.
Close(s) ==
    /\ stage[s] = "held"
    /\ users[s] = {}
    /\ stage' = [stage EXCEPT ![s] = "released"]
    /\ tunnel' = [tunnel EXCEPT ![s] = IF @ = "open" THEN "closed" ELSE @]
    /\ UNCHANGED users

Next ==
    \E s \in Starts :
        \/ Hold(s) \/ Open(s) \/ Close(s)
        \/ \E d \in Dials : Enter(d, s) \/ Leave(d, s)

Spec == Init /\ [][Next]_vars
=============================================================================
