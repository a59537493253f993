------------------------- MODULE MCEngineTransport -------------------------
(* Instances of EngineTransport for TLC: the fadings that may be configured.  *)
EXTENDS EngineTransport

NoFading  == [pauseIn |-> FALSE, pauseOut |-> FALSE, stopIn |-> FALSE, stopOut |-> FALSE]
AllFading == [pauseIn |-> TRUE, pauseOut |-> TRUE, stopIn |-> TRUE, stopOut |-> TRUE]
OutOnly   == [pauseIn |-> FALSE, pauseOut |-> TRUE, stopIn |-> FALSE, stopOut |-> TRUE]

SomeSettings == {NoFading, AllFading, OutOnly}
AllFades     == {AllFading}
=============================================================================
