---------------------------- MODULE MCAutonomyTick ----------------------------
(* Small instances of AutonomyTick: replays that decode to the end and one   *)
(* whose reconstruction stops early or is rejected.                          *)
EXTENDS AutonomyTick

CONSTANTS whole1, whole2, flawed

MCOutcomes ==
    [c \in Bytes |-> IF c = flawed THEN {"partial", "error"} ELSE {"full"}]
=============================================================================
