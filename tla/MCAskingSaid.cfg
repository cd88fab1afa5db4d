SPECIFICATION Spec
CONSTANTS
    Targets = {"cargo"}
    MaxSteps = 1
    MaxTurns = 1
    MaxReplies = 2
    MaxCalls = 1
INVARIANTS
    GrantsAreSaid
CHECK_DEADLOCK FALSE
