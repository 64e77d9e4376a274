--------------------------- MODULE MCReplayAnalysis ---------------------------
(* A small instance of ReplayAnalysis: two replays that decode to the end    *)
(* and one whose reconstruction stops early or is rejected.                  *)
EXTENDS ReplayAnalysis

CONSTANTS whole1, whole2, flawed

MCOutcomes ==
    [c \in Bytes |-> IF c = flawed THEN {"partial", "error"} ELSE {"full"}]
=============================================================================
