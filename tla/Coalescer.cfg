\* Closure causes, capacity and ages; every event counted once.
CONSTANTS
    Boots <- MCBoots
    Observations <- MCObservations
    Events <- MCEvents
    MinInteger <- MCMinInteger
    MaxInteger <- MCMaxInteger
    Instants <- MCInstants
    Identifiers = {1}
    MaximumActiveKeys = 2
    IntervalMicroseconds = 2
    IngestBound = 3
SPECIFICATION AccountingSpec
INVARIANTS
    TypeOK ActiveBounded WindowSpan NoOverdueWindow Accounting
PROPERTIES IntervalWithinBoot EvictionIsLastResort ImplementsLedger
