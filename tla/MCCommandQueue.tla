--------------------------- MODULE MCCommandQueue ---------------------------
(* Small instances of CommandQueue for TLC: a request is told by its number,  *)
(* a request the client makes of itself has no argument.                      *)
EXTENDS CommandQueue

MCArg   == {<<>>} \cup {<<i>> : i \in 1 .. MaxRequests}
MCEpoch == 0 .. MaxEpoch
=============================================================================
