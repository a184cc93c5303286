\* Two components; an emitter restart, a failure, a crash and a restart.
CONSTANTS
    Components = {1, 2}
    ComponentTraceEvents = 2
    PushBound = 5
    EmitterRestartBound = 1
    FaultBound = 1
    RestartBound = 1
SPECIFICATION Spec
CHECK_DEADLOCK FALSE
INVARIANTS
    TypeOK EveryEventIsSomewhere KeyOrderIsEmissionOrder ReclaimsOldestOfComponent
    DrainEndsByFailureOnly
PROPERTIES ImplementsTable EveryEventIsRecorded
