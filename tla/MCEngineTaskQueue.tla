------------------------- MODULE MCEngineTaskQueue -------------------------
(* Instances of EngineTaskQueue for TLC.                                    *)
EXTENDS EngineTaskQueue

CONSTANTS p1, p2

Worker        == [type |-> "Worker", key |-> NoKey]
AnyTimer      == [type |-> "Timer", key |-> NoKey]
KeyedTimer(k) == [type |-> "Timer", key |-> k]
PipelineWake  == [type |-> "PipelineWake", key |-> NoKey]

\* As the class allows: any thread enqueues tasks of any type.
AllKinds == {Worker, KeyedTimer(1), KeyedTimer(2), AnyTimer, PipelineWake}

TwoProducers == {p1, p2}
=============================================================================
