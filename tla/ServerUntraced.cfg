SPECIFICATION Spec
CONSTANTS
    Request = {r1}
    Agents = {"nil"}
INVARIANTS
    StopAgentReturns
CHECK_DEADLOCK FALSE
