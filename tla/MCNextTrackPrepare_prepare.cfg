\* A local and a remote track, everything that may happen to the engine.
CONSTANTS
    a = a
    b = b
    r = r
    Items <- TwoItems
    Remote <- OneRemote
    Calls <- EveryCall
    Subjects <- Requests
    MaxJobs = 2
    MaxCancels = 2
    MaxTracks = 3
SPECIFICATION Spec
INVARIANTS TypeOK NoAbortedResult ResultsInOrder NoLateStart
PROPERTIES CancelledJobEnds StopReturns
CHECK_DEADLOCK FALSE
