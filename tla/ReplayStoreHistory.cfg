\* A bare chain, a conversation and recoveries while the installed context changes.
SPECIFICATION Spec
CONSTANTS
    r1 = r1  r2 = r2  r3 = r3  p1 = p1  p2 = p2
    Requests = {r1, r2}
    Owners = {p1, p2}
    Kind <- BareKind
    Route <- PairRoute
    RouteCapacity = 1
    NoOwner = NoOwner
    Contexts = {c1, c2}
    NoContext = NoContext
    Results = {ok}
    NoResult = NoResult
    MaxRows = 7
    MaxLease = 2
    MaxTime = 3
INVARIANTS RecoveryNeverRefused
PROPERTIES ConsumedInContext ReplayProgression
SYMMETRY OwnerSymmetry
\* A creation that dies before its schema leaves a file no owner opens: the system stops.
CHECK_DEADLOCK FALSE
