\* Two engine failures or process deaths, between any two commits.
CONSTANTS
    Boots = {"old", "new"}
    Observations = {"failed", "started"}
    Events <- MCEvents
    MinInteger <- MCMinInteger
    MaxInteger = 7
    Occurrences <- MCFewOccurrences
    UniqueIdentifiers = TRUE
    MaximumActiveKeys = 2
    IntervalMicroseconds = 2
    SystemEventSummaries = 1
    AcceptBound = 4
    DisruptionBound = 2
SPECIFICATION StoreSpec
INVARIANTS AcknowledgedIsCounted RetentionBound OpenWindowsAreWritten
PROPERTIES SummariesOnlyGrow
