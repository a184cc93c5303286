\* Identifiers used twice on one boot: an acknowledged event is counted nowhere.
CONSTANTS
    Boots = {"old", "new"}
    Observations = {"failed", "started"}
    Events <- MCEvents
    MinInteger <- MCMinInteger
    MaxInteger = 7
    Occurrences <- MCFewOccurrences
    UniqueIdentifiers = FALSE
    MaximumActiveKeys = 2
    IntervalMicroseconds = 2
    SystemEventSummaries = 2
    AcceptBound = 2
    DisruptionBound = 0
SPECIFICATION StoreSpec
INVARIANTS AcknowledgedIsCounted
