SPECIFICATION MCSpec
CONSTANTS
    Size = 2
    MaxCount = 2
    size = 3
    interval = 2
    MaxEvents = 2
    Late = 1
    MaxSwallowed = 1
    Caller = {c1, c2}
    Reason = {e1, e2}
    Protection = 1
    MaxReasons = 2
    NoReason = NoReason
    Getter = {g1, g2}
    Service = {n1, n2}
    Made = {b1, b2, b3, b4}
    NoOp = NoOp
    Missing = Missing
INVARIANTS
    FailuresExplainDrops
    WindowCountsRight
    OneBreakerPerName
PROPERTIES
    BreakerCloses
    WindowImplementsPromise
CHECK_DEADLOCK FALSE
