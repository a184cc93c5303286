\* Explicit flushes: an answered query is not recorded.
CONSTANTS
    Requests = {r1, r2}
    Kinds = {"EngineSnapshot", "FlushSystemEvents"}
    ObservationCap = 2
    FaultBound = 0
    RestartBound = 0
SPECIFICATION Spec
CHECK_DEADLOCK FALSE
INVARIANTS EveryQueryIsRecorded
