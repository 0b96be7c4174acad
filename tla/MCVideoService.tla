--------------------------- MODULE MCVideoService ---------------------------
(* VideoService with two connections, one of which acknowledges frames.    *)
EXTENDS VideoService, TLC

CONSTANTS c1, c2

MCConns == {c1, c2}
MCAckConns == {c2}
=============================================================================
