--------------------------- MODULE MCReplayArchive ---------------------------
(* Small instances of ReplayArchive: a good replay, one whose header is     *)
(* valid but whose payload does not decode, and a file that is no replay.   *)
EXTENDS ReplayArchive

CONSTANTS p1, p2, good, badPayload, badHeader

MCHeaderOK == {good, badPayload, Torn} \intersect Bytes
MCPayloadOK == {good}
=============================================================================
