SPECIFICATION Spec
CONSTANTS
    LastTrack = 2
    Scenarios <- MCQueueing
    MaxQueue = 1
    MaxUnready = 1
    MaxItem = 14
INVARIANT PlayerShowsWhatPlays
CHECK_DEADLOCK FALSE
