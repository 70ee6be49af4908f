\* Two requests in flight, two providers competing for one approval.
SPECIFICATION Spec
CONSTANTS
    Provider = {p1, p2}
    User = {u1}
    SubId = {s1, s2, s3}
    Request = {r1, r2}
    MaxProviders = 1
    MaxSubscriptions = 1
    p1 = p1
    p2 = p2
    u1 = u1
    s1 = s1
    s2 = s2
    s3 = s3
    r1 = r1
    r2 = r2
SYMMETRY Symmetry
INVARIANTS TypeOK QuotaSlack SubsSlack OwnedRows
PROPERTY ApprovalNeedsRow
\* Every account of the instance may be closed for good.
CHECK_DEADLOCK FALSE
