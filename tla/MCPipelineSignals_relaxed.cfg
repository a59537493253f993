\* The mailbox as its relaxed atomics allow it to run.
CONSTANTS
    MaxQueuedFades = 3
    FadeDrainBatch = 2
    StoreBuffers = {TRUE}
    MaxFades = 3
    MaxStops = 0
SPECIFICATION Spec
INVARIANTS SignalHasWake
