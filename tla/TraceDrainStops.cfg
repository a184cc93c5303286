\* An emitter restarts: the drain task ends while the daemon is up.
CONSTANTS
    Components = {1}
    ComponentTraceEvents = 2
    PushBound = 3
    EmitterRestartBound = 1
    FaultBound = 0
    RestartBound = 0
SPECIFICATION Spec
CHECK_DEADLOCK FALSE
INVARIANTS DrainRunsWhileUp
