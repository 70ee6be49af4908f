\* One request at a time, graphs of up to five subscriptions.
SPECIFICATION Spec
CONSTANTS
    Token = {a, b, c, d, e}
    Request = {r1}
    MaxNesting = 2
    MaxBatch = 2
    a = a
    b = b
    c = c
    d = d
    e = e
    r1 = r1
SYMMETRY Symmetry
INVARIANTS TypeOK Acyclic DanglingOnlyWiped RefusedForReason
