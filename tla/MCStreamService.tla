--------------------------- MODULE MCStreamService ---------------------------
(* A small instance of StreamService.                                      *)
EXTENDS StreamService, TLC

CONSTANTS i1, i2, cam, seed, http, sync

MCSessions  == {i1, i2}
MCCallers   == {http, sync}
MCStreamIds == {cam, seed}
MCSources   == {"synthetic"}
=============================================================================
