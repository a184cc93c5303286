\* A table full of one-digit slots: the event of slot 10 is the one reclaimed.
CONSTANTS
    Slots = {8, 9, 10}
    Originators = {1}
    Hops = {0}
    DeliveryTraceEvents = 2
    RecordBound = 3
    FaultBound = 0
    RestartBound = 0
SPECIFICATION Spec
CHECK_DEADLOCK FALSE
INVARIANTS ReclaimsOldest
