\* Two requests at a time before the handlers: body limit, then rate limit.
SPECIFICATION Spec
CONSTANTS
    a1 = a1
    a2 = a2
    r1 = r1
    r2 = r2
    Identities = {a1, a2}
    TrustedProxies = {a2}
    NoAddress = NoAddress
    Limit = 2
    Window = 2
    MaxBody = 2
    NoLength = NoLength
    NoBody = NoBody
    NoBucket = NoBucket
    Requests = {r1, r2}
    Calls <- MCCalls
    MaxClock = 3
SYMMETRY RequestSymmetry
INVARIANTS
    TypeOK
    NoWindowExceedsLimit
    DeliveredBodiesAreWhole
    RefusedForAReason
PROPERTIES
    TurnedAwayOnlyWhenFull
    ImplementsSlidingWindow
CHECK_DEADLOCK FALSE
