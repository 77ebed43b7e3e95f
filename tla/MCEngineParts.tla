---------------------------- MODULE MCEngineParts -----------------------------
(* Instances of the parts of the engine for TLC. *)
EXTENDS EngineParts, SequencesExt

CONSTANTS t1, t2, t3, cam, cam_sub

MCThreads   == {t1, t2, t3}
MCPair      == {t1, t2}
MCStreamIds == {cam, cam_sub}
MCSubOf     == [id \in MCStreamIds |-> cam_sub]

\* Outputs of ffmpeg: a start code, and three tokens after it.
Tokens    == {<<0, 0, 0, 1>>, <<0, 0, 1>>, <<5>>, <<0>>}
MCOutputs == {<<0, 0, 0, 1>> \o FlattenSeq(s) : s \in [1 .. 3 -> Tokens]}
=============================================================================
