SPECIFICATION FairSpec
CONSTANTS
    w1 = w1
    w2 = w2
    Writers <- MCWriters
    MaxEvents = 3
    MaxCrashes = 1
    MayFail = TRUE
INVARIANTS
    EachLineIsInOnePlace
    FoldIsAPastOfTheSession
    QuietStoreIsWhole
PROPERTIES
    EveryEventIsSent
CHECK_DEADLOCK FALSE
