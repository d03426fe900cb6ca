------------------------- MODULE MCProviderFetcher -------------------------
(* TLC instance of ProviderFetcher.                                          *)
EXTENDS ProviderFetcher

CONSTANTS x, y, bad, r1, r2

ContentsDef == {x, y, bad}
ParsableDef == {x, y}

\* One provider in a process at a time, with two requests beside its loop or
\* with several changes of the environment; or two providers at once, with a
\* request or with a change; and each of these without an interval.
WorldsDef == {
    [calm |-> TRUE,  pulls |-> TRUE,  requests |-> {r1, r2}, events |-> 1,
     file |-> y,    remote |-> x],
    [calm |-> TRUE,  pulls |-> TRUE,  requests |-> {r1},     events |-> 2,
     file |-> None, remote |-> x],
    [calm |-> FALSE, pulls |-> TRUE,  requests |-> {r1},     events |-> 0,
     file |-> y,    remote |-> x],
    [calm |-> FALSE, pulls |-> TRUE,  requests |-> {},       events |-> 1,
     file |-> None, remote |-> x],
    [calm |-> TRUE,  pulls |-> FALSE, requests |-> {r1},     events |-> 2,
     file |-> y,    remote |-> x],
    [calm |-> FALSE, pulls |-> FALSE, requests |-> {r1},     events |-> 0,
     file |-> y,    remote |-> x]}
=============================================================================
