----------------------------- MODULE ChunkStream -----------------------------
(***************************************************************************)
(* The RTMP chunk stream of crates/hydra-engine/src/rtmp: a publisher cuts *)
(* messages into chunks and interleaves those of several chunk streams;    *)
(* read_rtmp_message puts them together again, and the session changes the *)
(* chunk size when a SET_CHUNK_SIZE message is complete.  A chunk is read  *)
(* in the step that sends it: the reader depends on the order of the bytes *)
(* only.  Timestamps are read and never used, and are left out; publishers *)
(* are those whose timestamps need no extended field.                      *)
(***************************************************************************)
EXTENDS Naturals, Sequences

CONSTANTS
    Csids,            \* chunk stream ids
    Types,            \* message types other than SET_CHUNK_SIZE
    MaxLength,        \* bound: bytes of a message
    ChunkSizes,       \* the sizes a publisher may announce
    DefaultChunkSize  \* 128 in the build

ASSUME ChunkAssumption ==
    /\ MaxLength \in Nat \ {0} /\ DefaultChunkSize \in Nat \ {0}
    /\ ChunkSizes \subseteq Nat \ {0}
    /\ "set_chunk_size" \notin Types

VARIABLES
    chunk_states,     \* the reader: header and bytes collected, per chunk stream
    in_chunk_size,    \* the reader: bytes it takes from a chunk at most
    publishing,       \* the publisher: message and bytes left, per chunk stream
    out_size,         \* the publisher: its chunk size
    sent_last,        \* the publisher: the last message completed, per chunk stream
    read_last,        \* the messages the reader returned last, per chunk stream
    in_step           \* the reader took just the bytes of each chunk

chunkVars == <<chunk_states, in_chunk_size, publishing, out_size, sent_last, read_last, in_step>>

Smaller(m, n) == IF m < n THEN m ELSE n

\* A message: its type, its length, and a value (for SET_CHUNK_SIZE the size).
Messages ==
    [type : Types, length : 0 .. MaxLength, value : {0}]
        \cup [type : {"set_chunk_size"}, length : {MaxLength}, value : ChunkSizes]

NoMessage == [type |-> "none", length |-> 0, value |-> 0]

\* The bytes of a message.
Payload(m) == [i \in 1 .. m.length |-> <<m.type, m.value, i>>]

\* A bug: the bytes a message collected stay when it is returned.
ReadKeeping(csid, fmt, m, body) ==
    LET old == chunk_states[csid]
        header == IF fmt \in {0, 1} THEN m ELSE old.msg
        before == IF fmt = 3 THEN old.data ELSE <<>>
        data == before \o body
        done == Len(data) >= header.length
    IN  /\ in_step' = (Len(body) = Smaller(header.length - Len(before), in_chunk_size))
        /\ chunk_states' = [chunk_states EXCEPT ![csid] = [msg |-> header, data |-> data]]
        /\ read_last' = IF done THEN [read_last EXCEPT ![csid] = [msg |-> header, data |-> data]] ELSE read_last
        /\ in_chunk_size' = IF done /\ header.type = "set_chunk_size" THEN header.value ELSE in_chunk_size

\* read_rtmp_message on one chunk: formats 0 and 1 carry length and type,
\* 0, 1 and 2 begin a message, 3 goes on with the one there is or, if that is
\* complete, begins another one like it.  A complete message is returned, and
\* the session takes a new chunk size from it.
ReadChunk(csid, fmt, m, body) ==
    LET old == chunk_states[csid]
        header == IF fmt \in {0, 1} THEN m ELSE old.msg
        before == IF fmt = 3 THEN old.data ELSE <<>>
        data == before \o body
        done == Len(data) >= header.length
    IN  /\ in_step' = (Len(body) = Smaller(header.length - Len(before), in_chunk_size))
        /\ chunk_states' = [chunk_states EXCEPT ![csid] =
               [msg |-> header, data |-> IF done THEN <<>> ELSE data]]
        /\ read_last' = IF done THEN [read_last EXCEPT ![csid] = [msg |-> header, data |-> data]] ELSE read_last
        /\ in_chunk_size' = IF done /\ header.type = "set_chunk_size" THEN header.value ELSE in_chunk_size

\* The publisher sends the next chunk of m, of which `left` is still to go.
SendChunk(csid, fmt, m, left) ==
    LET size == Smaller(Len(left), out_size)
        rest == SubSeq(left, size + 1, Len(left))
    IN  /\ ReadChunk(csid, fmt, m, SubSeq(left, 1, size))
        /\ publishing' = [publishing EXCEPT ![csid] = [msg |-> m, left |-> rest]]
        /\ sent_last' = IF rest = <<>> THEN [sent_last EXCEPT ![csid] = m] ELSE sent_last
        /\ out_size' = IF rest = <<>> /\ m.type = "set_chunk_size" THEN m.value ELSE out_size

\* It begins a message, with the full header or with what its last one on this
\* chunk stream leaves to say.
BeginMessage(csid) ==
    LET last == publishing[csid].msg
    IN  /\ publishing[csid].left = <<>>
        /\ \E m \in Messages, fmt \in 0 .. 3 :
               /\ last = NoMessage => fmt = 0
               /\ fmt \in {2, 3} => m.type = last.type /\ m.length = last.length
                                        /\ m.value = last.value
               /\ SendChunk(csid, fmt, m, Payload(m))

ContinueMessage(csid) ==
    /\ publishing[csid].left # <<>>
    /\ SendChunk(csid, 3, publishing[csid].msg, publishing[csid].left)

ChunkInit ==
    /\ chunk_states = [csid \in Csids |-> [msg |-> NoMessage, data |-> <<>>]]
    /\ publishing = [csid \in Csids |-> [msg |-> NoMessage, left |-> <<>>]]
    /\ in_chunk_size = DefaultChunkSize /\ out_size = DefaultChunkSize
    /\ sent_last = [csid \in Csids |-> NoMessage]
    /\ read_last = [csid \in Csids |-> [msg |-> NoMessage, data |-> <<>>]]
    /\ in_step = TRUE

ChunkNext == \E csid \in Csids : BeginMessage(csid) \/ ContinueMessage(csid)

ChunkSpec == ChunkInit /\ [][ChunkNext]_chunkVars

-----------------------------------------------------------------------------
(* Properties                                                              *)

ChunkTypeOK ==
    /\ in_chunk_size \in ChunkSizes \cup {DefaultChunkSize}
    /\ out_size \in ChunkSizes \cup {DefaultChunkSize}
    /\ sent_last \in [Csids -> Messages \cup {NoMessage}]
    /\ in_step \in BOOLEAN
    /\ \A csid \in Csids :
           /\ {chunk_states[csid].msg, publishing[csid].msg, read_last[csid].msg}
                  \subseteq Messages \cup {NoMessage}
           /\ Len(chunk_states[csid].data) <= MaxLength

\* Whatever chunk streams are interleaved, header formats used and chunk sizes
\* announced in between (rtmp/chunk.rs:39-133, rtmp/server.rs:109-116), the
\* reader stays in step with the bytes, returns on every chunk stream the
\* message sent there last, and holds exactly what was sent of the next one.
Reassembles ==
    /\ in_step
    /\ in_chunk_size = out_size
    /\ \A csid \in Csids :
           /\ read_last[csid].msg = sent_last[csid]
           /\ read_last[csid].data = Payload(sent_last[csid])
           /\ publishing[csid].left # <<>> =>
                  chunk_states[csid].data \o publishing[csid].left = Payload(publishing[csid].msg)
=============================================================================
