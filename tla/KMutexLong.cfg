SPECIFICATION Spec
CONSTANTS
    Procs = {p1, p2, p3}
    Values = {v1, v2, v3, v4}
    p1 = p1
    p2 = p2
    p3 = p3
    v1 = v1
    v2 = v2
    v3 = v3
    v4 = v4
    None = None
    GcWhileHeld = {TRUE}
SYMMETRY Symmetry
INVARIANT OneOwner
