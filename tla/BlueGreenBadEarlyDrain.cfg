\* A statement about the program that does not hold: TLC ends with a counterexample.
\* (BlueGreenBadStaleReady.cfg lists the other statements about this module.)
SPECIFICATION Spec
CONSTANTS
    Nodes = {n1}
    Leader = l
    MaxAttempts = 3
    Budgets <- OneEarly
INVARIANTS
    ServedIsAlwaysUp
CHECK_DEADLOCK FALSE
