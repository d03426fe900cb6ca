----------------------------- MODULE MCCoreHub -----------------------------
(* TLC instances of CoreHub.  Two configurations that share proxy b, of      *)
(* which c2 has a null list of proxies (they come from a provider), the      *)
(* default, and one that does not parse.                                     *)
EXTENDS CoreHub, TLC

CONSTANTS c1, c2, broken, a, b

MCPortOf  == [c \in {Default, c1, c2} |-> CASE c = Default -> 0 [] c = c1 -> 1 [] c = c2 -> 2]
MCGroupOf == [c \in {Default, c1, c2} |-> CASE c = Default -> {} [] c = c1 -> {a, b} [] c = c2 -> {b}]

Do(method) == [method |-> method]
Setup(raw, proxy) == [method |-> "setupConfig", raw |-> raw, selected |-> proxy]
Update(port) == [method |-> "updateConfig", port |-> port]
Change(proxy) == [method |-> "changeProxy", proxy |-> proxy]

\* What a client reads against what it writes.
ConfigOps ==
    {Setup(c1, a), Setup(c2, b), Setup(broken, a), Setup(Nil, Nil), Update(2), Update(Nil),
     Change(a), Change(Nil), Do("getProxies"), Do("startListener")}

\* Ports that move while the core is started and stopped.
ListenerOps ==
    {Setup(c1, Nil), Setup(c2, Nil), Setup(broken, Nil), Update(1), Update(0),
     Do("startListener"), Do("stopListener"), Do("shutdown")}

\* With them, every kind of request that locks, waits or answers by itself.
MixedOps ==
    ListenerOps \cup {Change(a), Do("query"), Do("asyncTestDelay"), Do("initClash"),
                      Do("getIsInit")}

Symmetry == Permutations(Requests)
=============================================================================
