\* One session, counters that saturate: coalescing, eviction and retention in every order of five occurrences.
CONSTANTS
    Boots = {"old", "new"}
    Observations = {"failed", "started"}
    Events <- MCEvents
    MinInteger <- MCMinInteger
    MaxInteger = 2
    Occurrences <- MCOccurrences
    UniqueIdentifiers = TRUE
    MaximumActiveKeys = 2
    IntervalMicroseconds = 2
    SystemEventSummaries = 2
    AcceptBound = 4
    DisruptionBound = 0
SPECIFICATION StoreSpec
INVARIANTS StoreTypeOK RetentionKeepsNewest ActiveRowsAreOpen NoUnclassifiedPayload
