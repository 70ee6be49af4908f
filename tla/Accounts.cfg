\* Two handlers at a time, and a link that may meet another id or provider.
SPECIFICATION Spec
CONSTANTS
    UserId = {i1, i2}
    UserHash = {h1, h2, h3}
    ProviderHash = {p1, p2}
    Name = {n1, n2}
    Request = {r1, r2}
    MaxInvites = 1
    None = None
SYMMETRY Symmetries
INVARIANTS TypeOK KeysHold
PROPERTIES DirectorySpec SeenProvidersStay
\* The hashes of the instance may all be spent.
CHECK_DEADLOCK FALSE
