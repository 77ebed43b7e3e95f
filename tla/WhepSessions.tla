---------------------------- MODULE WhepSessions -----------------------------
(***************************************************************************)
(* WHEP sessions of internal/application/stream_service_whep.go: an offer  *)
(* is passed on to the media server, which opens a session of its own; the *)
(* session listed here keeps its location.  Candidates and the end of a    *)
(* session are passed on by goroutines whose outcome nobody waits for; a   *)
(* pruner removes what has expired.  A session of the media server is      *)
(* known by the offer and the address it was asked for at: each offer asks *)
(* at two, one after the other, and the media server may act on a POST     *)
(* nobody waits for any more.                                              *)
(***************************************************************************)
EXTENDS Naturals

CONSTANTS
    WhepRequests,   \* goroutines that serve a request, one at a time
    MaxSessions     \* bound: offers of a run

ASSUME WhepAssumption == MaxSessions \in Nat

VARIABLES
    offers,         \* session ids drawn so far: 1 .. offers
    serving,        \* per request: where it is and the session it serves
    listed_whep,    \* ids in whepSessions
    upstream,       \* sessions whose location came back: UpstreamLocation
    open_upstream,  \* sessions the media server has open
    late,           \* sessions it may still open for a POST that was given up
    expired,        \* ids whose ExpiresAt is over
    pruned,         \* ids the pruner removed
    in_flight,      \* goroutines that call the media server: method and id
    told,           \* ids that were deleted
    lost            \* history: ids whose DELETE did not arrive

server == <<upstream, open_upstream, late, lost>>
whepVars == <<offers, serving, listed_whep, server, expired, pruned, in_flight, told>>

Ids == 1 .. MaxSessions
NotServing == [at |-> "out", id |-> 0]
Posting == {"post", "post_sub"}
UpstreamSessions == [id : Ids, target : Posting]

\* HandleWHEPOffer: a valid offer draws an id; another one is refused.
Offer(r) ==
    /\ serving[r] = NotServing
    /\ offers < MaxSessions
    /\ offers' = offers + 1
    /\ serving' = [serving EXCEPT ![r] = [at |-> "post", id |-> offers + 1]]
    /\ UNCHANGED <<listed_whep, server, expired, pruned, in_flight, told>>

\* The session that the POST under way asks for: at the address of the stream
\* and then of its sub stream.
Asked(r) == [id |-> serving[r].id, target |-> serving[r].at]

\* An answer 200 or 201 ends the attempts.  With a Location it names the session
\* opened; without one the media server has opened a session all the same, or
\* not.
PostAnswered(r) ==
    /\ serving[r].at \in Posting
    /\ serving' = [serving EXCEPT ![r].at = "store"]
    /\ \/ /\ upstream' = upstream \cup {Asked(r)}
          /\ open_upstream' = open_upstream \cup {Asked(r)}
       \/ /\ open_upstream' \in {open_upstream, open_upstream \cup {Asked(r)}}
          /\ UNCHANGED upstream
    /\ UNCHANGED <<offers, listed_whep, late, lost, expired, pruned, in_flight, told>>

\* It is refused; or it is given up after four seconds, or because the client has
\* gone, and the media server may open the session now or later.
PostFails(r) ==
    /\ \/ serving[r].at = "post" /\ serving' = [serving EXCEPT ![r].at = "post_sub"]
       \/ serving[r].at = "post_sub" /\ serving' = [serving EXCEPT ![r].at = "store"]
    /\ late' \in {late, late \cup {Asked(r)}}
    /\ UNCHANGED <<offers, listed_whep, upstream, open_upstream, lost, expired, pruned, in_flight, told>>

UpstreamOpensLate(session) ==
    /\ session \in late
    /\ late' = late \ {session}
    /\ open_upstream' = open_upstream \cup {session}
    /\ UNCHANGED <<offers, serving, listed_whep, upstream, lost, expired, pruned, in_flight, told>>

\* A bug: a session whose client has gone is not listed.
StoreUnlessGone(r) ==
    /\ serving[r].at = "store"
    /\ listed_whep' \in {listed_whep, listed_whep \cup {serving[r].id}}
    /\ serving' = [serving EXCEPT ![r] = NotServing]
    /\ UNCHANGED <<offers, server, expired, pruned, in_flight, told>>

\* Without an answer it makes one up; the session is listed either way.
StoreSession(r) ==
    /\ serving[r].at = "store"
    /\ listed_whep' = listed_whep \cup {serving[r].id}
    /\ serving' = [serving EXCEPT ![r] = NotServing]
    /\ UNCHANGED <<offers, server, expired, pruned, in_flight, told>>

Located(id) == \E session \in upstream : session.id = id

\* What a listed session sends to its location, if it has one.
PassOn(method, id) ==
    in_flight' = IF Located(id) THEN in_flight \cup {<<method, id>>} ELSE in_flight

\* HandleWHEPPatch: the candidate is kept and passed on.
Patch(r, id) ==
    /\ serving[r] = NotServing
    /\ id \in listed_whep
    /\ PassOn("patch", id)
    /\ UNCHANGED <<offers, serving, listed_whep, server, expired, pruned, told>>

\* HandleWHEPDelete: look-up and removal are under one lock.
Delete(r, id) ==
    /\ serving[r] = NotServing
    /\ id \in listed_whep
    /\ listed_whep' = listed_whep \ {id}
    /\ PassOn("delete", id)
    /\ told' = told \cup {id}
    /\ UNCHANGED <<offers, serving, server, expired, pruned>>

\* A call of such a goroutine reaches the media server, or not; there is no
\* second attempt.  Two PATCHes under way for one session are one.
CallReturns(call) ==
    /\ call \in in_flight
    /\ in_flight' = in_flight \ {call}
    /\ \/ /\ call[1] = "delete"
          /\ open_upstream' = open_upstream \ {session \in upstream : session.id = call[2]}
          /\ UNCHANGED lost
       \/ /\ lost' = IF call[1] = "delete" THEN lost \cup {call[2]} ELSE lost
          /\ UNCHANGED open_upstream
    /\ UNCHANGED <<offers, serving, listed_whep, upstream, late, expired, pruned, told>>

\* The media server ends a session by itself.
UpstreamEnds(session) ==
    /\ session \in open_upstream
    /\ open_upstream' = open_upstream \ {session}
    /\ UNCHANGED <<offers, serving, listed_whep, upstream, late, lost, expired, pruned, in_flight, told>>

\* 30 minutes.
Expire(id) ==
    /\ id \in listed_whep \ expired
    /\ expired' = expired \cup {id}
    /\ UNCHANGED <<offers, serving, listed_whep, server, pruned, in_flight, told>>

\* pruneExpiredWHEPSessions, every two minutes: the media server is not told.
Prune ==
    /\ pruned' = pruned \cup (listed_whep \cap expired)
    /\ listed_whep' = listed_whep \ expired
    /\ UNCHANGED <<offers, serving, server, expired, in_flight, told>>

WhepInit ==
    /\ offers = 0
    /\ serving = [r \in WhepRequests |-> NotServing]
    /\ listed_whep = {} /\ expired = {} /\ pruned = {} /\ in_flight = {} /\ told = {}
    /\ upstream = {} /\ open_upstream = {} /\ late = {} /\ lost = {}

WhepNext ==
    \/ \E r \in WhepRequests : Offer(r) \/ PostAnswered(r) \/ PostFails(r) \/ StoreSession(r)
    \/ \E r \in WhepRequests, id \in Ids : Patch(r, id) \/ Delete(r, id)
    \/ \E call \in in_flight : CallReturns(call)
    \/ \E session \in UpstreamSessions : UpstreamOpensLate(session) \/ UpstreamEnds(session)
    \/ \E id \in Ids : Expire(id)
    \/ Prune

WhepSpec == WhepInit /\ [][WhepNext]_whepVars

-----------------------------------------------------------------------------
(* Properties                                                              *)

WhepTypeOK ==
    /\ offers \in 0 .. MaxSessions
    /\ serving \in [WhepRequests -> [at : {"out", "store"} \cup Posting, id : 0 .. MaxSessions]]
    /\ \A s \in {listed_whep, expired, pruned, told, lost} : s \subseteq Ids
    /\ \A s \in {upstream, open_upstream, late} : s \subseteq UpstreamSessions
    /\ in_flight \subseteq {"patch", "delete"} \X Ids

Offered(id) == \E r \in WhepRequests : serving[r].id = id

DeleteUnderWay(id) == <<"delete", id>> \in in_flight \/ id \in lost

\* A session of the media server whose location came back is not lost sight of
\* (stream_service_whep.go:62-80, 124-166): while it is open its offer is about to
\* list it, or it is listed and can be deleted, or its DELETE is on the way or was
\* lost there (it is tried once), or it expired and was pruned; and an id is never
\* two of these.  Of the sessions whose POST was given up, or answered without a
\* location, it says nothing: nobody can name them.
UpstreamIsOwned ==
    /\ \A session \in open_upstream \cap upstream :
           \/ Offered(session.id)
           \/ session.id \in listed_whep \cup pruned
           \/ DeleteUnderWay(session.id)
    /\ \A id \in listed_whep : ~Offered(id) /\ id \notin told \cup pruned /\ ~DeleteUnderWay(id)
    /\ told \cap pruned = {} /\ pruned \subseteq expired
=============================================================================
