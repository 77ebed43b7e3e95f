------------------------------ MODULE Fragments ------------------------------
(***************************************************************************)
(* Recording fragments: fragment_handler.go, stream_service_fragments.go   *)
(* and fragment_repository.go.  An upload writes its file and lists it     *)
(* under the repository's lock, and then publishes an event; a request for *)
(* a fragment looks it up under the lock and opens the file after that.    *)
(* A fragment is known by its stream id and id together.  A request to     *)
(* delete one answers 204 and changes nothing.                             *)
(***************************************************************************)
EXTENDS Naturals

CONSTANTS
    Uploaders, Downloaders,  \* goroutines that serve such requests
    FragmentIds,
    MaxUploads               \* bound: uploads that reach Save in a run

ASSUME FragmentsAssumption == MaxUploads \in Nat /\ "free" \notin Uploaders

VARIABLES
    uploads,         \* uploads so far; they are numbered as they get the lock
    fragments,       \* the map: number of the upload listed, 0 if none
    files,           \* file of a fragment: upload that wrote it last, and whether it ended
    with_data,       \* uploads that carried bytes
    repo_lock,       \* uploader that holds the lock, or "free"
    uploading,       \* per uploader: where it is, its upload, its fragment
    announced,       \* uploads an event was published for
    downloading      \* per downloader: fragment, upload it looked up, what it was served

fragmentVars == <<uploads, fragments, files, with_data, repo_lock, uploading, announced, downloading>>

NoUpload == [at |-> "out", upload |-> 0, frag |-> "none"]
NoFile == [by |-> 0, whole |-> TRUE]
NoDownload == [at |-> "out", frag |-> "none", upload |-> 0, got |-> NoFile]

\* A bug: the entry is made before its file is written.
BeginSaveListing(u, frag) ==
    /\ uploading[u] = NoUpload /\ repo_lock = "free" /\ uploads < MaxUploads
    /\ uploads' = uploads + 1
    /\ repo_lock' = u
    /\ uploading' = [uploading EXCEPT ![u] = [at |-> "write", upload |-> uploads + 1, frag |-> frag]]
    /\ files' = [files EXCEPT ![frag] = [by |-> uploads + 1, whole |-> FALSE]]
    /\ with_data' = with_data \cup {uploads + 1}
    /\ fragments' = [fragments EXCEPT ![frag] = uploads + 1]
    /\ UNCHANGED <<announced, downloading>>

\* Save takes the lock and truncates the file, for a valid upload with bytes.
BeginSave(u, frag) ==
    /\ uploading[u] = NoUpload /\ repo_lock = "free" /\ uploads < MaxUploads
    /\ uploads' = uploads + 1
    /\ repo_lock' = u
    /\ uploading' = [uploading EXCEPT ![u] = [at |-> "write", upload |-> uploads + 1, frag |-> frag]]
    /\ files' = [files EXCEPT ![frag] = [by |-> uploads + 1, whole |-> FALSE]]
    /\ with_data' = with_data \cup {uploads + 1}
    /\ UNCHANGED <<fragments, announced, downloading>>

\* The bytes are written, and the fragment is listed.
FinishSave(u) ==
    /\ uploading[u].at = "write"
    /\ files' = [files EXCEPT ![uploading[u].frag].whole = TRUE]
    /\ fragments' = [fragments EXCEPT ![uploading[u].frag] = uploading[u].upload]
    /\ repo_lock' = "free"
    /\ uploading' = [uploading EXCEPT ![u].at = "announce"]
    /\ UNCHANGED <<uploads, with_data, announced, downloading>>

\* The disk is full: 500.  The file stays as it is, what was listed stays too.
SaveFails(u) ==
    /\ uploading[u].at = "write"
    /\ repo_lock' = "free"
    /\ uploading' = [uploading EXCEPT ![u] = NoUpload]
    /\ UNCHANGED <<uploads, fragments, files, with_data, announced, downloading>>

\* An upload without bytes is listed with the path, whatever is there.
SaveMetadata(u, frag) ==
    /\ uploading[u] = NoUpload /\ repo_lock = "free" /\ uploads < MaxUploads
    /\ uploads' = uploads + 1
    /\ fragments' = [fragments EXCEPT ![frag] = uploads + 1]
    /\ uploading' = [uploading EXCEPT ![u] = [at |-> "announce", upload |-> uploads + 1, frag |-> frag]]
    /\ UNCHANGED <<files, with_data, repo_lock, announced, downloading>>

\* PublishRecordingSegment, without the lock; then the request is answered.
AnnounceSegment(u) ==
    /\ uploading[u].at = "announce"
    /\ announced' = announced \cup {uploading[u].upload}
    /\ uploading' = [uploading EXCEPT ![u] = NoUpload]
    /\ UNCHANGED <<uploads, fragments, files, with_data, repo_lock, downloading>>

\* GET: FindByID under the lock, ...
Find(d, frag) ==
    /\ repo_lock = "free" /\ fragments[frag] # 0
    /\ downloading[d].at = "out"
    /\ downloading' = [downloading EXCEPT ![d] =
           [at |-> "found", frag |-> frag, upload |-> fragments[frag], got |-> NoFile]]
    /\ UNCHANGED <<uploads, fragments, files, with_data, repo_lock, uploading, announced>>

\* ... then the file, which may be written again meanwhile.
Serve(d) ==
    /\ downloading[d].at = "found"
    /\ downloading' = [downloading EXCEPT ![d].at = "out", ![d].got = files[downloading[d].frag]]
    /\ UNCHANGED <<uploads, fragments, files, with_data, repo_lock, uploading, announced>>

FragmentsInit ==
    /\ uploads = 0 /\ with_data = {} /\ announced = {}
    /\ fragments = [frag \in FragmentIds |-> 0]
    /\ files = [frag \in FragmentIds |-> NoFile]
    /\ repo_lock = "free"
    /\ uploading = [u \in Uploaders |-> NoUpload]
    /\ downloading = [d \in Downloaders |-> NoDownload]

FragmentsNext ==
    \/ \E u \in Uploaders, frag \in FragmentIds : BeginSave(u, frag) \/ SaveMetadata(u, frag)
    \/ \E u \in Uploaders : FinishSave(u) \/ SaveFails(u) \/ AnnounceSegment(u)
    \/ \E d \in Downloaders, frag \in FragmentIds : Find(d, frag)
    \/ \E d \in Downloaders : Serve(d)

FragmentsSpec == FragmentsInit /\ [][FragmentsNext]_fragmentVars

-----------------------------------------------------------------------------
(* Properties                                                              *)

FileStates == [by : 0 .. MaxUploads, whole : BOOLEAN]

FragmentsTypeOK ==
    /\ uploads \in 0 .. MaxUploads
    /\ fragments \in [FragmentIds -> 0 .. MaxUploads]
    /\ files \in [FragmentIds -> FileStates]
    /\ with_data \subseteq 1 .. MaxUploads /\ announced \subseteq 1 .. MaxUploads
    /\ repo_lock \in Uploaders \cup {"free"}
    /\ uploading \in [Uploaders -> [at : {"out", "write", "announce"}, upload : 0 .. MaxUploads,
                                    frag : FragmentIds \cup {"none"}]]
    /\ downloading \in [Downloaders -> [at : {"out", "found"}, upload : 0 .. MaxUploads,
                                        frag : FragmentIds \cup {"none"}, got : FileStates]]

\* A file is what upload n wrote, or a later one of the same id has touched it.
WholeSince(file, n) == file.by > n \/ (file.by = n /\ file.whole)

\* What is listed and announced can be had (fragment_repository.go:37-81,
\* stream_service_fragments.go:36-50, fragment_handler.go:252-266): a fragment
\* listed with its bytes has a whole file, and so has a download that looked
\* it up, also when uploads fail half-way; only a later upload of the same id
\* takes that away.  An event is published for what is listed, or was.
FragmentsAreWhole ==
    /\ \A frag \in FragmentIds :
           fragments[frag] \in with_data => WholeSince(files[frag], fragments[frag])
    /\ \A d \in Downloaders :
           downloading[d].at = "out" /\ downloading[d].upload \in with_data =>
               WholeSince(downloading[d].got, downloading[d].upload)
    /\ \A n \in announced : \E frag \in FragmentIds : n <= fragments[frag]
=============================================================================
