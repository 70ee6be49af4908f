\* An approval in flight while the connection is revoked.
SPECIFICATION Spec
CONSTANTS
    Provider = {p1, p2}
    User = {u1}
    SubId = {s1, s2}
    Request = {r1, r2}
    MaxProviders = 1
    MaxSubscriptions = 1
    p1 = p1
    p2 = p2
    u1 = u1
    s1 = s1
    s2 = s2
    r1 = r1
    r2 = r2
SYMMETRY Symmetry
PROPERTY OnlyPendingApproved
CHECK_DEADLOCK FALSE
