------------------------ MODULE MCPlaybackHandoff ------------------------
(* Scenarios for the player and the engine. *)
EXTENDS PlaybackHandoff

Scenario(does, most, faults) == [does |-> does, most |-> most, faults |-> faults]

MCScenarios ==
    {Scenario({"playPause", "stop"}, 3, KnownFaults \ {"late"}),
     Scenario({"playPause", "stop", "next"}, 2, KnownFaults),
     Scenario({"playPause", "stop", "next", "select"}, 2, KnownFaults \ {"late"}),
     Scenario({"playPause", "next", "enqueue", "clearQueue"}, 2, KnownFaults \ {"late"}),
     Scenario({"playPause", "next", "arm"}, 2, KnownFaults),
     Scenario({"playPause", "enqueue"}, 2, {"late", "prepare"}),
     Scenario({"playPause", "stop"}, 4, {})}

MCQueueing == {Scenario({"playPause", "enqueue"}, 2, {})}

=============================================================================
