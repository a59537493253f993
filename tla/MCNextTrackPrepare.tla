------------------------- MODULE MCNextTrackPrepare -------------------------
(* Instances of NextTrackPrepare for TLC.                                    *)
EXTENDS NextTrackPrepare

CONSTANTS a, b, r

ThreeItems == {a, b, r}
TwoItems   == {a, r}
OneRemote  == {r}

Requests == [item : Items, id : 0 .. MaxJobs]

EveryCall   == {"load", "upcoming", "prepare", "drain", "advance", "clear"}
\* The current track plays to its end of input while the change is pending.
DrainCalls == {"upcoming", "drain"}
=============================================================================
