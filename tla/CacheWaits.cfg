\* Two requests that wait for the rows of each other; no symmetry, for liveness.
SPECIFICATION FairSpec
CONSTANTS
    Subscription = {s1}
    Bulk = {}
    Url = {u1, u2}
    Request = {r1, r2}
    None = None
PROPERTIES RequestsEnd
