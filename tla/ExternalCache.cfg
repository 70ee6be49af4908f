\* Two requests on two subscriptions that share URLs or do not.
SPECIFICATION Spec
CONSTANTS
    Subscription = {s1, s2}
    Bulk <- Anyone
    Url = {u1, u2}
    Request = {r1, r2}
    None = None
SYMMETRY Symmetries
INVARIANTS TypeOK CacheServesUse
PROPERTIES ContentKept RefreshSettles
