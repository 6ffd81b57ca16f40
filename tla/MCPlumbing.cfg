CONSTANTS
    Mains = {"subprocess", "pipeline", "mr", "stsh"}
    MaxStages = 3
    Quitters = {"c1", "c2"}
    Input = 3
    Expansion = 2
    Capacity = 1
SPECIFICATION FairSpec
INVARIANTS
    OutputIsComplete
    DescriptorsAreOwned
PROPERTIES
    CallsReturn
