CONSTANTS
    Letters = {"a", "b"}
    MaxLine = 6
SPECIFICATION Spec
INVARIANTS
    LexIsExact
    ArgumentsAreKept
