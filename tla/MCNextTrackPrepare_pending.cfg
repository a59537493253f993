\* A remote track is chosen shortly before the current one has been decoded.
CONSTANTS
    a = a
    b = b
    r = r
    Items <- ThreeItems
    Remote <- OneRemote
    Calls <- DrainCalls
    Subjects <- Requests
    MaxJobs = 2
    MaxCancels = 2
    MaxTracks = 2
SPECIFICATION Spec
INVARIANTS PendingManualHasJob
CHECK_DEADLOCK FALSE
