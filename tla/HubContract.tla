---------------------------- MODULE HubContract ----------------------------
(***************************************************************************)
(* What the core promises to a client that sends several requests at once  *)
(* (core/hub.go): each request that reads or changes the configuration     *)
(* takes effect at one moment after it was sent, and its answer tells the  *)
(* state of that moment.                                                   *)
(***************************************************************************)
CONSTANTS
    Requests,     \* the requests
    Raws,         \* raw configurations that parse
    Default,      \* the one applied when a configuration does not parse
    NullProxies,  \* raw configurations whose list of proxies is null
    PortOf,       \* raw configuration -> its mixed port
    GroupOf,      \* raw configuration -> the proxies of its group; {}: no group
    Ops,          \* the operations a request may ask for
    Nil

\* Answers that carry no data.
Ok     == [ok |-> TRUE]
Failed == [ok |-> FALSE]

VARIABLES hub, call, answer

vars == <<hub, call, answer>>

Init ==
    /\ hub = [running |-> FALSE, raw |-> Nil, port |-> Nil,
              selected |-> Nil, described |-> Nil]
    /\ call = [r \in Requests |-> Nil]
    /\ answer = [r \in Requests |-> Nil]

Send(r, op) ==
    /\ call[r] = Nil
    /\ call' = [call EXCEPT ![r] = op]
    /\ UNCHANGED <<hub, answer>>

Takes(r, method) == call[r] # Nil /\ answer[r] = Nil /\ call[r].method = method

Answers(r, value) == answer' = [answer EXCEPT ![r] = value] /\ UNCHANGED call

\* A whole configuration is replaced at once, by the default if it does not
\* parse; a text that is no JSON (raw Nil) stands for the default's.
SetupConfig(r) ==
    /\ Takes(r, "setupConfig")
    /\ LET given == IF call[r].raw = Nil THEN Default ELSE call[r].raw
           raw   == IF given \in Raws THEN given ELSE Default
       IN  hub' = [running   |-> hub.running,
                   raw       |-> raw,
                   port      |-> PortOf[raw],
                   selected  |-> IF call[r].raw = Nil THEN Nil ELSE call[r].selected,
                   described |-> IF given \in NullProxies THEN hub.described ELSE given]
    /\ Answers(r, IF call[r].raw \in Raws THEN Ok ELSE Failed)

UpdateConfig(r) ==
    /\ Takes(r, "updateConfig")
    /\ IF call[r].port = Nil
       THEN UNCHANGED hub /\ Answers(r, Failed)
       ELSE /\ hub.raw # Nil
            /\ hub' = [hub EXCEPT !.port = call[r].port]
            /\ Answers(r, Ok)

StartListener(r) ==
    /\ Takes(r, "startListener")
    /\ hub' = [hub EXCEPT !.running = TRUE]
    /\ Answers(r, Ok)

StopListener(r) ==
    /\ Takes(r, "stopListener")
    /\ hub' = [hub EXCEPT !.running = FALSE]
    /\ Answers(r, Ok)

\* A proxy is selected in the group of the running configuration, or not at all.
ChangeProxy(r) ==
    /\ Takes(r, "changeProxy")
    /\ IF hub.raw # Nil /\ GroupOf[hub.raw] # {}
          /\ call[r].proxy \in GroupOf[hub.raw] \cup {Nil}
       THEN /\ hub' = [hub EXCEPT !.selected = call[r].proxy]
            /\ Answers(r, Ok)
       ELSE /\ UNCHANGED hub
            /\ Answers(r, Failed)

\* The proxy the group uses: the selected one if it is a member, else its
\* first one (written Nil).
Now(raw, selected) ==
    IF raw # Nil /\ selected \in GroupOf[raw] THEN selected ELSE Nil

GetProxies(r) ==
    /\ Takes(r, "getProxies")
    /\ UNCHANGED hub
    /\ Answers(r, [raw |-> hub.raw, now |-> Now(hub.raw, hub.selected),
                   described |-> hub.described])

Next ==
    \E r \in Requests :
        \/ \E op \in Ops : Send(r, op)
        \/ SetupConfig(r) \/ UpdateConfig(r) \/ StartListener(r)
        \/ StopListener(r) \/ ChangeProxy(r) \/ GetProxies(r)

Spec == Init /\ [][Next]_vars
=============================================================================
