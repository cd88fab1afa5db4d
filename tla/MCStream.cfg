SPECIFICATION StreamSpec
CONSTANTS
    c1 = c1
    c2 = c2
    Clients <- MCClients
    MaxTurns = 2
SYMMETRY Symmetry
INVARIANTS
    OneOpenJob
    PendingInADraft
    EachPlanIsAnsweredOnce
    OneTurnRuns
    RunsUnderTheLivePlan
    TurnsAreToldInOrder
PROPERTIES
    NothingFoldsUnderATurn
    FoldsAreFinal
    AlternationSpec
CHECK_DEADLOCK FALSE
