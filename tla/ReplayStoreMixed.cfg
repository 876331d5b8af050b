\* Two owners, a current conversation and two generic dispatches of one route.
SPECIFICATION Spec
CONSTANTS
    r1 = r1  r2 = r2  r3 = r3  p1 = p1  p2 = p2
    Requests = {r1, r2, r3}
    Owners = {p1, p2}
    Kind <- MixedKind
    Route <- OneRoute
    RouteCapacity = 1
    NoOwner = NoOwner
    Contexts = {c1}
    NoContext = NoContext
    Results = {ok}
    NoResult = NoResult
    MaxRows = 7
    MaxLease = 2
    MaxTime = 4
INVARIANTS HistoryAuthentic CapabilitySound RouteCapacityKept
PROPERTIES DeadStaysDead LedgerImplemented
SYMMETRY OwnerSymmetry
\* A creation that dies before its schema leaves a file no owner opens: the system stops.
CHECK_DEADLOCK FALSE
