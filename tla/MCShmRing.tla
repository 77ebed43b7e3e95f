----------------------------- MODULE MCShmRing ------------------------------
(* Instances of ShmRing for TLC. *)
EXTENDS ShmRing

CONSTANTS r1, r2, c1, c2

MCCells == {c1, c2}
MCReaders == {r1, r2}
MCPyReaders == {r2}
MCRustReader == {r1}
=============================================================================
