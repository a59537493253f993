--------------------------- MODULE MCDecodeDemand ---------------------------
(* Instances of DecodeDemand for TLC: the configurations give the levels.      *)
EXTENDS DecodeDemand
=============================================================================
