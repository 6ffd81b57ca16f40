CONSTANTS
    MaxPids = 3
    MaxStages = 2
SPECIFICATION FairSpec
INVARIANTS
    PromptOwnsTerminal
    WaitsForWholeGroup
    TableTracksKernel
    TableIsComplete
    GroupsAreWhole
PROPERTIES
    PromptReturns
