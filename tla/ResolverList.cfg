\* Every resolution over the worlds of MCResolver.
SPECIFICATION Spec
CONSTANTS
    Token = {r, a, b, d}
    Config = {c1, c2, c3}
    Url = {u}
    World <- MCWorld
    Root = r
    MaxDepth = 3
    MaxConfigs = 3
    NoToken = NoToken
    a = a
    b = b
    d = d
    c1 = c1
    c2 = c2
    c3 = c3
    u = u
INVARIANTS TypeOK WithinLimit OpenedOnce OnlyMeant OrderPreserved NothingMissed
PROPERTIES CommentPrecedence Descends Terminates
\* A resolution ends.
CHECK_DEADLOCK FALSE
