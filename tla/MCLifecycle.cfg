SPECIFICATION MCSpec
CONSTANTS
    Request = {r1, r2}
    Agents = {"nil", "made"}
    Component = {c1, c2, c3}
    MaxNotified = 2
INVARIANTS
    RequestsAreServed
PROPERTIES
    ProcessEnds
    WaitersAreCalled
CHECK_DEADLOCK FALSE
