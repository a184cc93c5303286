\* Slots and hops across the change from one digit to two; a failure and a crash.
CONSTANTS
    Slots = {9, 10}
    Originators = {1, 2}
    Hops = {9, 10}
    DeliveryTraceEvents = 2
    RecordBound = 5
    FaultBound = 1
    RestartBound = 1
SPECIFICATION Spec
CHECK_DEADLOCK FALSE
INVARIANTS TypeOK TraceIsTheEndOfTheChain TraceHasNoGap ReclaimsOldestInKeyOrder
PROPERTIES ImplementsTable
