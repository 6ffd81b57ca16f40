CONSTANTS
    NoLine = NoLine
    NoColon = NoColon
    None = None
    Conns = {c1, c2, c3}
    Requests <- MCRequests
    Symbols <- MCSymbols
    Replies <- MCReplies
    Blocked <- MCBlocked
    Droppers = {c1, c2, c3}
    Threads = 2
    MaxTime = 2
SPECIFICATION Spec
SYMMETRY Symmetry
INVARIANTS
    NoCrossTalk
    HitIsFresh
    BlockedIsNeverReached
PROPERTIES
    MissOnlyIfExpired
