CONSTANTS
    ListURL <- MCListURL
    Site <- MCSite
    Unsteady <- MCUnsteady
    Typed <- MCTyped
    MinToken = 2
    MaxToken = 3
    kMaxConnectionsPerServer = 2
    FeedThreads = {1, 2}
    ArticleThreads = {3, 4}
    MaxShown = 1
    None = None
    NoConnection = NoConnection
    NoLine = NoLine
    NoColon = NoColon
    NoHost = NoHost
SPECIFICATION FairSpec
INVARIANTS
    ThrottleHolds
    FetchedOnce
    IndexIsExact
    AnswersAreRanked
PROPERTIES
    QueriesAreReached
