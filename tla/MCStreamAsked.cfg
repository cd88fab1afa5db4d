SPECIFICATION StreamSpec
CONSTANTS
    c1 = c1
    c2 = c2
    Clients <- MCClients
    MaxTurns = 2
SYMMETRY Symmetry
INVARIANT ResumeAsksWhatIsAsked
CHECK_DEADLOCK FALSE
