--------------------------- MODULE MCDesktopCore ----------------------------
(* TLC instances of DesktopCore.  Later restarts are alike, and so are       *)
(* requests.                                                                 *)
EXTENDS DesktopCore, TLC

\* Linux and macOS: operations and requests in any order; cores crash and fail
\* to start.
Overlap == [windows |-> FALSE, crashes |-> 3, failing |-> TRUE,
            serial |-> FALSE, slow |-> FALSE, calls |-> Calls]

\* Windows: operations one after the other; the helper comes up at any time or
\* never, may outlast the patience of the application, and fail.
OneByOne == [windows |-> TRUE, crashes |-> 1, failing |-> TRUE,
             serial |-> TRUE, slow |-> TRUE, calls |-> {}]

SafetyWorlds == {Overlap, OneByOne}

\* Windows with and without a helper; nothing fails.
LiveWorlds == {[windows |-> TRUE, crashes |-> 0, failing |-> FALSE,
                serial |-> TRUE, slow |-> FALSE, calls |-> Calls]}

Symmetry == Permutations(Restarts \ {First}) \cup Permutations(Calls)
=============================================================================
