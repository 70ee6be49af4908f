\* Two handlers, or a handler and a call that another left, for one address.
SPECIFICATION Spec
CONSTANTS
    Ip = {i}
    Token = {t}
    Slot = {s1, s2}
    Limit <- OneEach
    Window = 2
    MaxViolations = 2
    ViolationWindow = 2
    BanTime = 1
    AdminTimes = {2}
    Backoff = 1
SYMMETRY Symmetry
INVARIANTS TypeOK CounterMortal
PROPERTIES BanEarned BanKept
