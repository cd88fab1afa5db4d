CONSTANTS
    h1 = h1
    h2 = h2
    Homes <- MCHomes
    Names = {den}
    Users = {ana}
    Conns <- MCConns
    NoOne = none
    MaxCuts = 1
    MaxWrites <- MCMaxWrites
SPECIFICATION FairSpec
INVARIANT FiledWhileUp
PROPERTY RemovedKeysAreCut
PROPERTY LinksComeBack
