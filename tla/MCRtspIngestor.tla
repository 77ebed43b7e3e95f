--------------------------- MODULE MCRtspIngestor ----------------------------
(* A small instance of RtspIngestor.                                       *)
EXTENDS RtspIngestor, TLC

CONSTANTS i1, i2, cam, p1, p2

MCSessions  == {i1, i2}
MCCallers   == {p1, p2}
MCStreamIds == {cam}
MCSources   == {"rtsp", "synthetic"}
=============================================================================
