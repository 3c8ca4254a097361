CONSTANTS
    Names <- MCNames
    Branches <- MCBranches
    Tags <- MCTags
    Commits <- MCCommits
    Log <- MCLog
    FilterTexts <- MCFilterTexts
    Match <- MCMatch
    Amount = 1
    DefaultAmount = 2
    WithCommits = TRUE
    WithWorkspace = TRUE
    WithTags = TRUE
    WithCancel = TRUE
    MaxInFlight = 2
    Null = Null
    Undefined = Undefined
    NoRef = NoRef
    c1 = c1
    c2 = c2

SPECIFICATION Spec

INVARIANT DrillOnlyInBranchMode
