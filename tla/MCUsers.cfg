CONSTANTS
    Emails = {ana, bo}
    Mailed = {ana}
    MaxMails = 1
    Ids = {u1, u2}
    Processes = {serve}
    CodeLife = 1
    Cooldown = 1
    LoginLife = 1
    RemovalWait = 1
    CodeTries = 2
    MaxCrashes = 1
SYMMETRY MCSymmetry
SPECIFICATION Spec
INVARIANT TheOutHaveNoLogin
PROPERTY AnOwnerStays
PROPERTY KeptAreKept
