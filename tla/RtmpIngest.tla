----------------------------- MODULE RtmpIngest ------------------------------
(***************************************************************************)
(* RTMP publishers, the stream registry and the shared-memory files:       *)
(* crates/hydra-engine/src/rtmp/{server,amf,video}.rs, StreamRegistry of   *)
(* server.rs and the lifecycle of ShmWriter.  Every TCP connection is a    *)
(* task of its own; the tasks interleave between any two accesses to the   *)
(* registry or to the file system.                                         *)
(*                                                                         *)
(* A gateway is the number of the publish command that made it, a file the *)
(* number of its inode.  The file system is modelled from its use: open    *)
(* with create and truncate keeps the inode a name has, and remove_file    *)
(* unlinks whatever the name leads to.  Modules ShmRing and Gateway have   *)
(* what happens inside one file and one gateway.                           *)
(***************************************************************************)
EXTENDS Naturals, Sequences

CONSTANTS
    Connections,
    StreamIds,
    MaxPublishes,   \* bound: publish commands answered before the last is read
    MaxFiles,       \* bound: files created
    MaxFrames,      \* bound: frames of one writer
    MaxLives        \* bound: runs of the engine process

ASSUME IngestAssumption ==
    MaxFiles \in Nat /\ MaxFrames \in Nat /\ MaxLives \in Nat \ {0}

VARIABLES
    registry,   \* stream -> registered gateway, 0 if there is none
    made,       \* gateways: stream and connection of each publish command
    path,       \* stream -> file its name leads to, 0 if there is none
    inodes,     \* files created so far
    head,       \* file -> its write_sequence
    truncated,  \* files cut to length 0 and not yet extended
    half_made,  \* files whose creation failed after the file was opened
    life,       \* file -> process run that last created or truncated it
    lives,      \* runs of the process so far
    cpc, stream_id, stream_id_resolved, gateway,
    shm_writer, \* the writer of the session, NoWriter for None
    fresh       \* the writer a publish command has just created

sys     == <<inodes, head, truncated, half_made, life, lives>>
session == <<stream_id, stream_id_resolved, gateway, shm_writer, fresh>>
vars    == <<registry, made, path, sys, cpc, session>>

\* The empty id: what stream_id_resolved starts as, and what a publisher that
\* names its stream "/" publishes.
Unnamed == ""

\* frame_counter counts the frames of this writer.
Writer(s, f) == [stream |-> s, file |-> f, frame_counter |-> 0]
NoWriter == Writer(Unnamed, 0)

Goto(c, from, to) == cpc[c] = from /\ cpc' = [cpc EXCEPT ![c] = to]

-----------------------------------------------------------------------------
(* handle_rtmp_connection and the publish command                          *)

\* Accepted, and the handshake succeeded.
Connect(c) ==
    /\ Goto(c, "new", "open")
    /\ UNCHANGED <<registry, made, path, sys, session>>

Publish(c) ==
    /\ Len(made) < MaxPublishes
    /\ Goto(c, "open", "create")
    /\ \E s \in StreamIds : stream_id' = [stream_id EXCEPT ![c] = s]
    /\ UNCHANGED <<registry, made, path, sys, stream_id_resolved, gateway, shm_writer, fresh>>

\* ShmWriter::create opens the file and cuts it to length 0 ...
OpenFile(c) ==
    LET s == stream_id[c]
        f == IF path[s] = 0 THEN inodes + 1 ELSE path[s]
    IN  /\ f <= MaxFiles
        /\ Goto(c, "create", "extend")
        /\ path' = [path EXCEPT ![s] = f]
        /\ inodes' = IF path[s] = 0 THEN f ELSE inodes
        /\ truncated' = truncated \cup {f}
        /\ half_made' = half_made \ {f}
        /\ head' = [head EXCEPT ![f] = 0]
        /\ life' = [life EXCEPT ![f] = lives]
        /\ fresh' = [fresh EXCEPT ![c] = Writer(s, f)]
        /\ UNCHANGED <<registry, made, lives, stream_id, stream_id_resolved, gateway, shm_writer>>

\* ... then gives it its length and its header (one step here).
ExtendFile(c) ==
    /\ Goto(c, "extend", "store")
    /\ truncated' = truncated \ {fresh[c].file}
    /\ head' = [head EXCEPT ![fresh[c].file] = 0]
    /\ UNCHANGED <<registry, made, path, inodes, half_made, life, lives, session>>

\* The file cannot be opened: the session goes on with the writer it had.
CreateFails(c) ==
    /\ Goto(c, "create", "register")
    /\ UNCHANGED <<registry, made, path, sys, session>>

\* It cannot be extended, or extended but not mapped: the file stays as it is,
\* under its name.
ExtendFails(c) ==
    LET f == fresh[c].file IN
    /\ Goto(c, "extend", "register")
    /\ truncated' \in {truncated, truncated \ {f}}
    /\ half_made' = half_made \cup {f}
    /\ fresh' = [fresh EXCEPT ![c] = NoWriter]
    /\ UNCHANGED <<registry, made, path, inodes, head, life, lives, stream_id,
                   stream_id_resolved, gateway, shm_writer>>

\* A bug: the file is left for the next writer to reuse.
UnlinkNothing(w) == UNCHANGED path

\* Dropping a writer removes its name, whichever file the name leads to now.
Unlink(w) == path' = IF w = NoWriter THEN path ELSE [path EXCEPT ![w.stream] = 0]

\* A bug: the name is cleaned up after the new file was made.
StoreWriterUnlinkingNew(c) ==
    /\ Goto(c, "store", "register")
    /\ Unlink(IF shm_writer[c] = NoWriter THEN NoWriter ELSE fresh[c])
    /\ shm_writer' = [shm_writer EXCEPT ![c] = fresh[c]]
    /\ fresh' = [fresh EXCEPT ![c] = NoWriter]
    /\ UNCHANGED <<registry, made, sys, stream_id, stream_id_resolved, gateway>>

\* The new writer is stored and the one it replaces dropped, after the new
\* file was made.
StoreWriter(c) ==
    /\ Goto(c, "store", "register")
    /\ Unlink(shm_writer[c])
    /\ shm_writer' = [shm_writer EXCEPT ![c] = fresh[c]]
    /\ fresh' = [fresh EXCEPT ![c] = NoWriter]
    /\ UNCHANGED <<registry, made, sys, stream_id, stream_id_resolved, gateway>>

Register(c) ==
    LET g == Len(made) + 1 IN
    /\ Goto(c, "register", "respond")
    /\ made' = Append(made, [stream |-> stream_id[c], owner |-> c])
    /\ registry' = [registry EXCEPT ![stream_id[c]] = g]
    /\ gateway' = [gateway EXCEPT ![c] = g]
    /\ UNCHANGED <<path, sys, stream_id, stream_id_resolved, shm_writer, fresh>>

\* onStatus was written; the first id published is the one resolved.
Respond(c) ==
    /\ Goto(c, "respond", "open")
    /\ stream_id_resolved' = [stream_id_resolved EXCEPT ![c] =
                                 IF @ = Unnamed THEN stream_id[c] ELSE @]
    /\ UNCHANGED <<registry, made, path, sys, stream_id, gateway, shm_writer, fresh>>

\* handle_video_message; the frame also goes to the gateway.
WriteFrame(c) ==
    LET w == shm_writer[c] IN
    /\ cpc[c] = "open"
    /\ w # NoWriter /\ w.frame_counter < MaxFrames
    /\ w.file \notin truncated
    /\ shm_writer' = [shm_writer EXCEPT ![c].frame_counter = @ + 1]
    /\ head' = [head EXCEPT ![w.file] = w.frame_counter + 1]
    /\ UNCHANGED <<registry, made, path, inodes, truncated, half_made, life, lives, cpc,
                   stream_id, stream_id_resolved, gateway, fresh>>

\* A message cannot be read, answered or decoded: `?` leaves the loop and the
\* function; nothing is unregistered.
Fail(c) ==
    /\ cpc[c] \in {"open", "respond"}
    /\ cpc' = [cpc EXCEPT ![c] = "failing"]
    /\ UNCHANGED <<registry, made, path, sys, session>>

\* A bug: the end of the stream is treated like an error.
EndOfStreamUnnoticed(c) ==
    /\ Goto(c, "open", "dropping")
    /\ UNCHANGED <<registry, made, path, sys, session>>

EndOfStream(c) ==
    /\ Goto(c, "open", "ending")
    /\ UNCHANGED <<registry, made, path, sys, session>>

\* A bug: unregister whatever is registered under the id.
UnregisterAny(c) ==
    LET s == stream_id_resolved[c] IN
    /\ Goto(c, "ending", "dropping")
    /\ registry' = IF s # Unnamed THEN [registry EXCEPT ![s] = 0] ELSE registry
    /\ UNCHANGED <<made, path, sys, session>>

\* unregister_if_gateway_matches, or unregister when there is no gateway.
Unregister(c) ==
    LET s == stream_id_resolved[c] IN
    /\ Goto(c, "ending", "dropping")
    /\ registry' = IF s # Unnamed /\ (gateway[c] = 0 \/ registry[s] = gateway[c])
                   THEN [registry EXCEPT ![s] = 0]
                   ELSE registry
    /\ UNCHANGED <<made, path, sys, session>>

\* The session state is dropped, its writer with it.
DropState(c) ==
    /\ cpc[c] \in {"dropping", "failing"}
    /\ cpc' = [cpc EXCEPT ![c] = IF @ = "dropping" THEN "gone" ELSE "failed"]
    /\ Unlink(shm_writer[c])
    /\ shm_writer' = [shm_writer EXCEPT ![c] = NoWriter]
    /\ gateway' = [gateway EXCEPT ![c] = 0]
    /\ UNCHANGED <<registry, made, sys, stream_id, stream_id_resolved, fresh>>

-----------------------------------------------------------------------------
(* The engine process dies and is started again: names and files stay.     *)

Crash ==
    /\ lives < MaxLives
    /\ lives' = lives + 1
    /\ registry' = [s \in StreamIds |-> 0]
    /\ made' = <<>>
    /\ cpc' = [c \in Connections |-> IF cpc[c] = "new" THEN "new" ELSE "lost"]
    /\ stream_id' = [c \in Connections |-> Unnamed]
    /\ stream_id_resolved' = [c \in Connections |-> Unnamed]
    /\ gateway' = [c \in Connections |-> 0]
    /\ shm_writer' = [c \in Connections |-> NoWriter]
    /\ fresh' = [c \in Connections |-> NoWriter]
    /\ UNCHANGED <<path, inodes, head, truncated, half_made, life>>

\* A store into the mapping of a file that is cut to length 0 is a bus error.
BusError(c) ==
    /\ cpc[c] = "open"
    /\ shm_writer[c].file \in truncated
    /\ Crash

-----------------------------------------------------------------------------
Files == 1 .. MaxFiles

Init ==
    /\ registry = [s \in StreamIds |-> 0]
    /\ made = <<>>
    /\ path = [s \in StreamIds |-> 0]
    /\ inodes = 0
    /\ head = [f \in Files |-> 0]
    /\ truncated = {}
    /\ half_made = {}
    /\ life = [f \in Files |-> 0]
    /\ lives = 1
    /\ cpc = [c \in Connections |-> "new"]
    /\ stream_id = [c \in Connections |-> Unnamed]
    /\ stream_id_resolved = [c \in Connections |-> Unnamed]
    /\ gateway = [c \in Connections |-> 0]
    /\ shm_writer = [c \in Connections |-> NoWriter]
    /\ fresh = [c \in Connections |-> NoWriter]

Next ==
    \/ \E c \in Connections :
        \/ Connect(c) \/ Publish(c) \/ OpenFile(c) \/ ExtendFile(c) \/ CreateFails(c)
        \/ ExtendFails(c) \/ StoreWriter(c) \/ Register(c) \/ Respond(c) \/ WriteFrame(c) \/ Fail(c)
        \/ EndOfStream(c) \/ Unregister(c) \/ DropState(c) \/ BusError(c)
    \/ Crash

Spec == Init /\ [][Next]_vars

-----------------------------------------------------------------------------
(* Properties                                                              *)

Gateways == 1 .. Len(made)
Streams(c) == {made[g].stream : g \in {h \in Gateways : made[h].owner = c}}

Writers == [stream : StreamIds \cup {Unnamed}, file : {0} \cup Files,
            frame_counter : 0 .. MaxFrames]

TypeOK ==
    /\ registry \in [StreamIds -> 0 .. Len(made)]
    /\ made \in Seq([stream : StreamIds, owner : Connections])
    /\ path \in [StreamIds -> {0} \cup Files]
    /\ inodes \in {0} \cup Files
    /\ head \in [Files -> 0 .. MaxFrames]
    /\ truncated \subseteq Files
    /\ half_made \subseteq Files
    /\ life \in [Files -> 0 .. MaxLives]
    /\ lives \in 1 .. MaxLives
    /\ cpc \in [Connections -> {"new", "open", "create", "extend", "store", "register",
                                "respond", "ending", "dropping", "failing", "gone",
                                "failed", "lost"}]
    /\ stream_id \in [Connections -> StreamIds \cup {Unnamed}]
    /\ stream_id_resolved \in [Connections -> StreamIds \cup {Unnamed}]
    /\ gateway \in [Connections -> 0 .. Len(made)]
    /\ shm_writer \in [Connections -> Writers]
    /\ fresh \in [Connections -> Writers]

\* Viewers find the newest publisher of a stream as long as it is connected:
\* the end of an earlier one, which may come much later, never removes a
\* registration that is not its own (rtmp/server.rs:134, server.rs:59-66).
NewestStaysRegistered ==
    \A c \in Connections :
        LET g == gateway[c]
        IN  (/\ g # 0 /\ cpc[c] # "dropping"
             /\ \A h \in g + 1 .. Len(made) : made[h].stream # made[g].stream)
            => registry[made[g].stream] = g

\* A registration outlives its connection only if that ended with an error, or
\* published under several ids, or under the empty one: a clean end takes
\* what it registered along (rtmp/server.rs:132-139).
CleanEndLeavesNothing ==
    \A s \in StreamIds :
        (registry[s] # 0 /\ cpc[made[registry[s]].owner] = "gone")
            => LET c == made[registry[s]].owner
               IN  s = Unnamed \/ Streams(c) # {s}

\* A file of this run of the process has a name only while a writer of that
\* name is there to remove it, or after its creation failed half-way
\* (shm.rs:126-135, 225-229).
NoFileWithoutWriter ==
    \A s \in StreamIds :
        (path[s] # 0 /\ life[path[s]] = lives /\ path[s] \notin half_made)
            => \E c \in Connections : \E w \in {shm_writer[c], fresh[c]} :
                   w.stream = s /\ w.file # 0

\* The only publisher of a stream since the engine started is found by name, in
\* the registry and in the file system, and the file shows its newest frame,
\* whatever an earlier run left behind (shm.rs:126-154, amf.rs:171-181).
SolePublisherIsFound ==
    \A c \in Connections :
        LET s == stream_id[c]
            w == shm_writer[c]
        IN  (/\ cpc[c] = "open" /\ w # NoWriter /\ w.stream = s
             /\ {g \in Gateways : made[g].stream = s} = {gateway[c]}
             /\ \A d \in Connections \ {c} : stream_id[d] # s)
            => /\ registry[s] = gateway[c]
               /\ path[s] = w.file
               /\ w.file \notin truncated
               /\ head[w.file] = w.frame_counter

-----------------------------------------------------------------------------
(* The inductive invariant behind the first three                          *)

\* A registration is the newest of its stream and knows it.
RegistryInv ==
    \A s \in StreamIds : registry[s] # 0 =>
        /\ made[registry[s]].stream = s
        /\ \A h \in Gateways : made[h].stream = s => h <= registry[s]

\* A name leads to a file of its own.
NamesInv ==
    \A s \in StreamIds : path[s] # 0 =>
        path[s] <= inodes /\ \A t \in StreamIds : path[t] = path[s] => t = s

\* A file of this run has a writer that stands for it.
FileInv ==
    /\ \A f \in Files : life[f] <= lives
    /\ \A s \in StreamIds :
        (path[s] # 0 /\ life[path[s]] = lives /\ path[s] \notin half_made)
            => \E c \in Connections : \E w \in {shm_writer[c], fresh[c]} :
                   w.stream = s /\ w.file = path[s]

\* A session's gateway is the last it made; before the first it made none.
GatewayOK(c) ==
    /\ \A h \in Gateways : made[h].owner = c =>
        /\ cpc[c] \notin {"new", "lost"}
        /\ cpc[c] \notin {"gone", "failed"} => gateway[c] # 0 /\ h <= gateway[c]
    /\ gateway[c] # 0 => made[gateway[c]].owner = c
    /\ cpc[c] \in {"new", "gone", "failed", "lost"} => gateway[c] = 0

\* The id resolved is one it published, and not the empty one if it can help
\* it: while an answer is being written this need not hold of the new gateway.
ResolvedOK(c) ==
    /\ stream_id_resolved[c] # Unnamed /\ cpc[c] \notin {"gone", "failed"} =>
        gateway[c] # 0 /\ stream_id_resolved[c] \in Streams(c)
    /\ cpc[c] \notin {"failing", "dropping", "gone", "failed"} =>
        \A h \in Gateways : made[h].owner = c =>
            \/ made[h].stream = Unnamed
            \/ stream_id_resolved[c] # Unnamed
            \/ cpc[c] = "respond" /\ h = gateway[c]

PublishOK(c) ==
    /\ cpc[c] \in {"create", "extend", "store", "register", "respond"} =>
        stream_id[c] \in StreamIds
    /\ cpc[c] = "respond" => gateway[c] # 0 /\ made[gateway[c]].stream = stream_id[c]
    /\ cpc[c] \in {"extend", "store"} <=> fresh[c].file # 0
    /\ shm_writer[c].file = 0 <=> shm_writer[c] = NoWriter

\* What is still registered for a session that has looked is not its to remove.
EndedOK(c) ==
    cpc[c] \in {"dropping", "gone"} =>
        \A s \in StreamIds :
            registry[s] # 0 /\ made[registry[s]].owner = c => s = Unnamed \/ Streams(c) # {s}

SessionInv ==
    \A c \in Connections : GatewayOK(c) /\ ResolvedOK(c) /\ PublishOK(c) /\ EndedOK(c)

IngestInv ==
    TypeOK /\ RegistryInv /\ NamesInv /\ FileInv /\ SessionInv /\ NewestStaysRegistered

-----------------------------------------------------------------------------
(* ... and what SolePublisherIsFound needs on top of it                    *)

\* From the publish command until its gateway is made.
Publishing == {"create", "extend", "store", "register"}

\* Nobody but c published, or is publishing, under the id c is at, and c does so
\* for the first time.
Sole(c) ==
    /\ \A d \in Connections \ {c} : cpc[d] \in Publishing => stream_id[d] # stream_id[c]
    /\ \A h \in Gateways : made[h].stream = stream_id[c] =>
           cpc[c] \notin Publishing /\ h = gateway[c]

\* A writer comes from a publish command of its connection, and no other stream's
\* name leads to its file.
WriterOK(c) ==
    /\ fresh[c].file # 0 => fresh[c].stream = stream_id[c]
    /\ shm_writer[c].file # 0 =>
           \/ cpc[c] = "register" /\ shm_writer[c].stream = stream_id[c]
           \/ \E h \in Gateways : made[h].owner = c /\ made[h].stream = shm_writer[c].stream
    /\ \A w \in {fresh[c], shm_writer[c]} : w.file # 0 =>
           w.file <= inodes /\ \A s \in StreamIds : path[s] = w.file => s = w.stream

\* The file of a sole publisher has its name and, once it is extended, holds what
\* its writer wrote.
SoleOK(c) ==
    LET s == stream_id[c]
        Holds(w) == path[s] = w.file /\ w.file \notin truncated /\ head[w.file] = w.frame_counter
    IN  Sole(c) =>
            /\ cpc[c] = "extend" => path[s] = fresh[c].file /\ fresh[c].frame_counter = 0
            /\ cpc[c] = "store" => Holds(fresh[c])
            /\ (/\ cpc[c] \in {"register", "respond", "open"}
                /\ shm_writer[c].file # 0 /\ shm_writer[c].stream = s) => Holds(shm_writer[c])

SoleInv == \A c \in Connections : WriterOK(c) /\ SoleOK(c)
=============================================================================
