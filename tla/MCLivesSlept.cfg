SPECIFICATION Spec
CONSTANTS
    s1 = s1
    s2 = s2
    s3 = s3
    h1 = h1
    c1 = c1
    sleeper = sleeper
    Ids <- MCIds
    First = s1
    Old <- MCOld
    Handlers <- MCHandlers
    Sleeper = sleeper
    Clients <- MCClients
    MaxLive = 2
    MaxCopies = 3
    MaxTurns = 1
INVARIANTS
    CurrentIsLive
