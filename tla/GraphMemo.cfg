\* A target reached twice, first at the shallower depth.
SPECIFICATION Spec
CONSTANTS
    Token = {a, b, c, d, e}
    Request = {r1}
    MaxNesting = 2
    MaxBatch = 2
    a = a
    b = b
    c = c
    d = d
    e = e
    r1 = r1
SYMMETRY Symmetry
INVARIANT PassedWithinDepth
