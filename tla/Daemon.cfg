\* The owner, a witness and two recorders, one of which stalls on one of two permits.
CONSTANTS
    Metas = {m1}
    Witnesses = {w1}
    Recorders = {r1, r2}
    Stalling = {r2}
    Permits = 2
SPECIFICATION Spec
CHECK_DEADLOCK FALSE
INVARIANTS TypeOK StoppedMeansFlushed
PROPERTIES EveryConnectionEnds AdmittedConnectionsEnd StopFlushes
