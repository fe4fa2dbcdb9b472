SPECIFICATION Spec
CONSTANTS
    r1 = r1
    r2 = r2
    r3 = r3
    Objs = {r1, r2, r3}
    Key <- MCKey
    MaxPtrs = 2
    MaxRefs = 3
    CheckedHints = FALSE
INVARIANTS
    NoLeakAtEnd
\* Once destroyed and every pointer is dropped, no action is left.
CHECK_DEADLOCK FALSE
