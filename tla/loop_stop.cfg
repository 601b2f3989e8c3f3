SPECIFICATION ServerSpec
CONSTANTS
    Schedules <- Two
    Nobody = nobody
    Period <- PeriodOf
    Phase <- PhaseOf
    Behavior <- BehaviorOf
    max_catch_up <- CatchUpOf
    MAX_GLOBAL_CATCH_UP = 2
    MaxRun = 3
    MaxSleep = 1
INVARIANTS
    CleanStop
PROPERTY MainEnds
CHECK_DEADLOCK FALSE
