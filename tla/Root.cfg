\* Queries of every behaviour, a failure, and a crash in the middle of a handler.
CONSTANTS
    Requests = {r1, r2, r3}
    Kinds = {"EngineSnapshot", "StoreRead", "PrototypeWitness", "RecordSystemEvent", "FlushSystemEvents"}
    ObservationCap = 1
    FaultBound = 1
    RestartBound = 2
SPECIFICATION Spec
CHECK_DEADLOCK FALSE
INVARIANTS
    TypeOK AnsweredIsRecorded NumberedQueryIsRecorded ReclaimsOldest
    SequenceIsTime
PROPERTIES ImplementsTable EveryQueryEnds
