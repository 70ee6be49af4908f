\* One request at a time: the handlers implement the atomic specification.
SPECIFICATION Spec
CONSTANTS
    Provider = {p1, p2, p3}
    User = {u1}
    SubId = {s1, s2, s3}
    Request = {r1}
    MaxProviders = 2
    MaxSubscriptions = 1
    p1 = p1
    p2 = p2
    p3 = p3
    u1 = u1
    s1 = s1
    s2 = s2
    s3 = s3
    r1 = r1
SYMMETRY Symmetry
INVARIANT SubsHaveRow
PROPERTIES ConsentSpec OnlyPendingApproved SubsLostOnPurpose
\* Every account of the instance may be closed for good.
CHECK_DEADLOCK FALSE
