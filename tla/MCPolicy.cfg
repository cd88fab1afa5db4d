SPECIFICATION Spec
CONSTANTS
    Paths <- MCPaths
    Base <- Work
    Scratch <- MCScratch
    Programs <- MCPrograms
    Hosts <- MCHosts
    Sessions <- MCSessions
    Lists <- MCLists
    Plans <- MCPlans
    Amendments <- MCAmendments
    Kernel = FALSE
INVARIANTS
    TheFloorWritesScratchOnly
    TheFileBoundsTheJob
    AYesChangesTheAnswer
PROPERTIES
    NarrowingNeverWidens
    APlanGetsWhatItSaid
    TheConditionCanRun
