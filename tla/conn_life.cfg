SPECIFICATION FairSpec
CONSTANTS
    MaxConns = 2
    MaxPlayers = 2
    MaxDone = 1
INVARIANTS
    NobodyStranded
    JoinsAndLeaves
    NothingRolledBack
    OnlineIsVisible
    NoGhosts
PROPERTIES
    BrokenIsTornDown
    ImplementsSessions
CHECK_DEADLOCK FALSE
