\* The mailbox with its atomics seen in program order and not, and liveness.
CONSTANTS
    MaxQueuedFades = 3
    FadeDrainBatch = 2
    StoreBuffers = {TRUE, FALSE}
    MaxFades = 5
    MaxStops = 2
SPECIFICATION Spec
INVARIANTS SignalHasWakeInOrder FadeHasSignal OneWake
PROPERTIES FadesReachEngine
