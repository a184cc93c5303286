\* A restart: an answered query is not recorded.
CONSTANTS
    Requests = {r1, r2}
    Kinds = {"EngineSnapshot"}
    ObservationCap = 2
    FaultBound = 0
    RestartBound = 1
SPECIFICATION Spec
CHECK_DEADLOCK FALSE
INVARIANTS EveryQueryIsRecorded
