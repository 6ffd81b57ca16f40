CONSTANTS
    M = 2
    R = 2
    Words = {1, 2}
    MaxLines = 3
    MaxWords = 2
SPECIFICATION Spec
INVARIANTS
    CountsAreExact
    NoKeyIsSplit
