---------------------------- MODULE MCRtmpIngest ----------------------------
(* An instance of RtmpIngest for TLC: a named stream and the empty name. *)
EXTENDS RtmpIngest, TLC

CONSTANTS p1, p2

MCConnections == {p1, p2}
MCStreamIds == {Unnamed, "cam"}

\* The module never tells one connection from another.
MCSymmetry == Permutations(MCConnections)
=============================================================================
