SPECIFICATION Spec
CONSTANTS
    Schedules <- Three
    Nobody = nobody
    Period <- PeriodOf
    Phase <- PhaseOf
    Behavior <- BehaviorOf
    max_catch_up <- CatchUpOf
    MAX_GLOBAL_CATCH_UP = 3
    MaxRun = 3
    MaxSleep = 1
INVARIANTS
    NeverAhead
    KeepsPhase
    ShutdownNoticed
PROPERTIES
    DeadlinesInOrder
    ShutdownStops
    EveryScheduleRuns
CHECK_DEADLOCK FALSE
