\* One request at a time on two subscriptions.
SPECIFICATION Spec
CONSTANTS
    Sub = {s1, s2}
    Item = {c, d, u, v}
    Url = {u, v}
    Request = {r1}
    MaxSources = 2
SYMMETRY Symmetry
INVARIANTS TypeOK SourceLimit CachedWhileUsed
PROPERTIES CacheGoesWithLastUse ReplacedInOrder
