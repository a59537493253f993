SPECIFICATION FairSpec
CONSTANTS
    LastTrack = 3
    Scenarios <- MCScenarios
    MaxQueue = 2
    MaxUnready = 1
    MaxItem = 14
INVARIANTS HandoffTypeOK ShowsWhatIsHeard ArmedIsPrepared UpcomingAgrees
PROPERTIES NeverPlaysUnasked ArmedNeverMovesOn QueueLosesOnlyWhatPlays TracksInOrder PlaysToTheEnd
CHECK_DEADLOCK FALSE
