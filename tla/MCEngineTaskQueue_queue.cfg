\* The queue as its class allows, with two workers: every type from every thread.
CONSTANTS
    p1 = p1
    p2 = p2
    Producers <- TwoProducers
    ProducerKinds <- AllKinds
    EngineKinds <- AllKinds
    Capacity = 2
    Batch = 2
    MaxTasks = 4
    MaxScopes = 2
SPECIFICATION Spec
INVARIANTS TypeOK NoLostWake ShutdownStaysEmpty BarrierHolds CoalescedOnce Bounded
PROPERTIES QueuedTaskLeaves RunOrder DirectTasksKept
CHECK_DEADLOCK FALSE
