\* A dial that saw the hook meets the stop that removes it.
SPECIFICATION Spec
CONSTANTS
    Starts = {s1, s2}
    Stops = {p1}
    Dials = {d1}
    Nil = Nil
INVARIANTS
    HookNotNull
CHECK_DEADLOCK FALSE
