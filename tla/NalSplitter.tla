----------------------------- MODULE NalSplitter -----------------------------
(***************************************************************************)
(* The reader of a transcoding worker, TranscodeWorker::reader_loop of     *)
(* crates/hydra-engine/src/transcode.rs: bytes of ffmpeg's output arrive   *)
(* in reads of any length and are cut at start codes into NAL units, which *)
(* NalParser of codec.rs classifies.  A byte is one of those that matter   *)
(* for start codes and types: 0, 1 and the types of H.264.                 *)
(***************************************************************************)
EXTENDS Naturals, Sequences

CONSTANTS
    Outputs,      \* outputs of ffmpeg: sequences of bytes
    MaxRead       \* bound: bytes one read returns (65536 in the build)

ASSUME SplitterAssumption == MaxRead \in Nat \ {0} /\ Outputs \subseteq Seq(Nat)

VARIABLES
    output,       \* what ffmpeg writes in this run
    upto,         \* how much of it was read
    accumulator,  \* stream_accumulator
    nals,         \* the units sent, each with its flags; history: bytes of the output before it
    reader        \* "read", "cut", or "ended"; "panicked" if the slice failed

splitterVars == <<output, upto, accumulator, nals, reader>>

\* find_nal_boundary on the bytes from index `from` on: the first index, of
\* those with three bytes behind it, at which a start code begins; 0 if none.
Boundary(data, from) ==
    LET IsCode(i) ==
            /\ data[i] = 0 /\ data[i + 1] = 0
            /\ data[i + 2] = 1 \/ (data[i + 2] = 0 /\ data[i + 3] = 1)
        codes == {i \in from .. Len(data) - 3 : IsCode(i)}
    IN  IF codes = {} THEN 0 ELSE CHOOSE i \in codes : \A j \in codes : i <= j

\* NalParser::find_nal_start: what follows the start code the data begins with.
NalStart(data) ==
    CASE Len(data) < 3 -> <<>>
      [] Len(data) >= 3 /\ SubSeq(data, 1, 3) = <<0, 0, 1>> -> SubSeq(data, 4, Len(data))
      [] Len(data) >= 4 /\ SubSeq(data, 1, 4) = <<0, 0, 0, 1>> -> SubSeq(data, 5, Len(data))
      [] OTHER -> data

\* NalParser::classify_frame_flags for H.264.
FrameFlags(data) ==
    LET payload == NalStart(data)
    IN  CASE payload = <<>> -> {}
          [] payload # <<>> /\ payload[1] % 32 = 5 -> {"keyframe", "sps_pps"}
          [] payload # <<>> /\ payload[1] % 32 \in {7, 8} -> {"sps_pps"}
          [] payload # <<>> /\ payload[1] % 32 = 1 -> {"delta"}
          [] OTHER -> {}

\* One read.  Slicing the accumulator from 4 panics if it is shorter.
ReadStdout(n) ==
    /\ reader = "read"
    /\ n <= MaxRead /\ upto + n <= Len(output)
    /\ upto' = upto + n
    /\ accumulator' = accumulator \o SubSeq(output, upto + 1, upto + n)
    /\ reader' = IF Len(accumulator') < 4 THEN "panicked" ELSE "cut"
    /\ UNCHANGED <<output, nals>>

\* A bug: only what the last read brought is searched.
CutNewBytesOnly ==
    /\ reader = "cut"
    /\ LET b == Boundary(accumulator, IF Len(accumulator) > MaxRead + 4 THEN Len(accumulator) - MaxRead ELSE 5)
       IN  IF b = 0
           THEN reader' = "read" /\ UNCHANGED <<accumulator, nals>>
           ELSE /\ nals' = Append(nals, [unit |-> SubSeq(accumulator, 1, b - 1),
                                         flags |-> FrameFlags(SubSeq(accumulator, 1, b - 1)),
                                         before |-> upto - Len(accumulator)])
                /\ accumulator' = SubSeq(accumulator, b, Len(accumulator))
                /\ UNCHANGED reader
    /\ UNCHANGED <<output, upto>>

\* The loop over start codes behind the first four bytes: a unit ends where the
\* next one begins.
Cut ==
    /\ reader = "cut"
    /\ LET b == Boundary(accumulator, 5)
       IN  IF b = 0
           THEN reader' = "read" /\ UNCHANGED <<accumulator, nals>>
           ELSE /\ nals' = Append(nals, [unit |-> SubSeq(accumulator, 1, b - 1),
                                         flags |-> FrameFlags(SubSeq(accumulator, 1, b - 1)),
                                         before |-> upto - Len(accumulator)])
                /\ accumulator' = SubSeq(accumulator, b, Len(accumulator))
                /\ UNCHANGED reader
    /\ UNCHANGED <<output, upto>>

\* The end of the output: what is accumulated, the last unit, is dropped.
EndOfOutput ==
    /\ reader = "read" /\ upto = Len(output)
    /\ reader' = "ended"
    /\ UNCHANGED <<output, upto, accumulator, nals>>

SplitterInit ==
    /\ output \in Outputs
    /\ upto = 0 /\ accumulator = <<>> /\ nals = <<>> /\ reader = "read"

SplitterNext == (\E n \in 1 .. MaxRead : ReadStdout(n)) \/ Cut \/ EndOfOutput

SplitterSpec == SplitterInit /\ [][SplitterNext]_splitterVars

-----------------------------------------------------------------------------
(* Properties                                                              *)

SplitterTypeOK ==
    /\ output \in Outputs
    /\ upto \in 0 .. Len(output)
    /\ accumulator \in Seq(Nat)
    /\ nals \in Seq([unit : Seq(Nat), flags : SUBSET {"keyframe", "sps_pps", "delta"}, before : Nat])
    /\ reader \in {"read", "cut", "ended", "panicked"}

\* How much of the output is before unit k, or before what is accumulated.
Before(k) == IF k <= Len(nals) THEN nals[k].before ELSE upto - Len(accumulator)

\* The units do not depend on how the output was cut into reads
\* (transcode.rs:209-238): nothing is lost or doubled, each unit begins where
\* the one before it ends; it ends at the first start code behind its first four
\* bytes, found in all the bytes read and not just in those that were there; and
\* when the loop waits for the next read no start code is left behind the first
\* four bytes of the rest.
SplitIgnoresReads ==
    /\ Before(1) = 0
    /\ accumulator = SubSeq(output, Before(Len(nals) + 1) + 1, upto)
    /\ \A k \in 1 .. Len(nals) :
           /\ nals[k].unit = SubSeq(output, Before(k) + 1, Before(k + 1))
           /\ Boundary(SubSeq(output, 1, upto), Before(k) + 5) = Before(k + 1) + 1
    /\ reader \in {"read", "ended"} => Boundary(accumulator, 5) = 0
=============================================================================
