SPECIFICATION Spec
CONSTANTS
    Targets = {"cargo"}
    MaxSteps = 1
    MaxTurns = 2
    MaxReplies = 2
    MaxCalls = 2
INVARIANTS
    AnswersReachTheirQuestion
    CallsStayWithinBudget
    AWaitingQuestionCanBeAnswered
    NoQuestionOutlivesItsTurn
PROPERTIES
    CancelledTurnsEnd
CHECK_DEADLOCK FALSE
