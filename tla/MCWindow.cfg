SPECIFICATION Spec
CONSTANTS
    Fragments <- MCFragments
    Selections <- MCSelections
    Outputs = {"read", "ran"}
    Disks <- MCDisks
    Budgets <- MCBudgets
    Cost <- MCCost
    Citation = 2
    Exchange = 2
    Summary = 2
    Output = 3
    Cited = 1
    Room = 22
    MaxTurns = 3
    MaxAsked = 4
    MaxResumes = 1
INVARIANTS
    OneTrueBody
    WhatIsLeftOutIsShown
    ThePromptFits
PROPERTIES
    NoTurnLeavesForASpan
    WhatIsGivenUpStaysGivenUp
VIEW MCView
