-------------------------------- MODULE Peers --------------------------------
(***************************************************************************)
(* The WebRTC transport of a session's events (zf-serve/src/rtc.rs): the   *)
(* negotiation of a peer in an HTTP request, the task that owns the peer   *)
(* and its permit, the callbacks of the library and the task that sends    *)
(* the events.  They share the flags opened, closed and channel_claimed.   *)
(*                                                                         *)
(* The request is dropped with its connection at any point; the remote     *)
(* side never connects, opens a channel with another name, opens several,  *)
(* stops reading, goes away with or without a notice.  What is sent is the *)
(* matter of SessionSync.                                                  *)
(***************************************************************************)
EXTENDS Integers, FiniteSets

CONSTANTS
    Offers,         \* offers of clients
    Permits,        \* peers at a time (32)
    Buffer          \* payloads the send buffer takes before a send waits

VARIABLES
    request,        \* the HTTP request of each offer: "none", "building",
                    \* "answering", "done"
    permits,        \* free permits
    life,           \* the task that owns the peer
    opened, closed, claimed,
    channel,        \* the task that sends the events
    remote,         \* the other side: "connecting", "live", "silent", "gone"
    peer,           \* the library's connection: "none", "new", "closed"
    queued,         \* payloads in the send buffer
    shutdown

vars == <<request, permits, life, opened, closed, claimed, channel, remote, peer,
          queued, shutdown>>

Init ==
    /\ request = [o \in Offers |-> "none"] /\ permits = Permits
    /\ life = [o \in Offers |-> "none"]
    /\ opened = [o \in Offers |-> FALSE] /\ closed = opened /\ claimed = opened
    /\ channel = [o \in Offers |-> "none"]
    /\ remote = [o \in Offers |-> "connecting"] /\ peer = [o \in Offers |-> "none"]
    /\ queued = [o \in Offers |-> 0] /\ shutdown = FALSE

Set(f, o, x) == [f EXCEPT ![o] = x]
Flags == <<opened, closed, claimed>>
Sides == <<channel, remote, queued, shutdown>>

-----------------------------------------------------------------------------
(***************************************************************************)
(* Negotiation.                                                            *)
(***************************************************************************)

\* An offer without a permit is refused.
AcquirePermit(o) ==
    /\ request[o] = "none" /\ ~shutdown
    /\ IF permits > 0
         THEN request' = Set(request, o, "building") /\ permits' = permits - 1
         ELSE request' = Set(request, o, "done") /\ permits' = permits
    /\ UNCHANGED <<life, peer>> /\ UNCHANGED Flags /\ UNCHANGED Sides

\* Until the peer is built the permit belongs to the request.
BuildPeer(o) ==
    /\ request[o] = "building"
    /\ \/ /\ request' = Set(request, o, "answering")
          /\ peer' = Set(peer, o, "new")
          /\ life' = Set(life, o, "opening")
          /\ permits' = permits
       \/ /\ request' = Set(request, o, "done")       \* an error, or dropped
          /\ permits' = permits + 1
          /\ UNCHANGED <<life, peer>>
    /\ UNCHANGED Flags /\ UNCHANGED Sides

\* The descriptions are applied and the candidates gathered within 15 seconds; an
\* error closes the peer; an answered or dropped request leaves it to its owner.
AnswerOffer(o) ==
    /\ request[o] = "answering"
    /\ request' = Set(request, o, "done")
    /\ peer' \in {peer, Set(peer, o, "closed")}
    /\ UNCHANGED <<permits, life>> /\ UNCHANGED Flags /\ UNCHANGED Sides

-----------------------------------------------------------------------------
(***************************************************************************)
(* The owner of the peer.                                                  *)
(***************************************************************************)

\* Fault: a peer that never opens is waited for.
NegotiationUnbounded(o) ==
    /\ life[o] = "opening"
    /\ \/ opened[o] /\ life' = Set(life, o, "open")
       \/ closed[o] /\ life' = Set(life, o, "closing")
    /\ UNCHANGED <<request, permits, peer>> /\ UNCHANGED Flags /\ UNCHANGED Sides

\* Opened, closed, or 30 seconds have passed.
NegotiationEnds(o) ==
    /\ life[o] = "opening"
    /\ \/ opened[o] /\ life' = Set(life, o, "open")
       \/ life' = Set(life, o, "closing")
    /\ UNCHANGED <<request, permits, peer>> /\ UNCHANGED Flags /\ UNCHANGED Sides

OwnerSeesClosed(o) ==
    /\ life[o] = "open" /\ closed[o]
    /\ life' = Set(life, o, "closing")
    /\ UNCHANGED <<request, permits, peer>> /\ UNCHANGED Flags /\ UNCHANGED Sides

ClosePeer(o) ==
    /\ life[o] = "closing"
    /\ life' = Set(life, o, "ended")
    /\ closed' = Set(closed, o, TRUE)
    /\ peer' = Set(peer, o, "closed")
    /\ permits' = permits + 1
    /\ UNCHANGED <<request, opened, claimed>> /\ UNCHANGED Sides

-----------------------------------------------------------------------------
(***************************************************************************)
(* Callbacks and the channel.                                              *)
(***************************************************************************)

\* The library reports the end of a connection.
ConnectionEnds(o) ==
    /\ peer[o] # "none" /\ ~closed[o]
    /\ peer[o] = "closed" \/ remote[o] = "gone"
    /\ closed' = Set(closed, o, TRUE)
    /\ UNCHANGED <<request, permits, life, opened, claimed, peer>> /\ UNCHANGED Sides

\* A channel with another name, and every channel after the first, is closed.
OnDataChannel(o) ==
    /\ peer[o] = "new" /\ remote[o] \in {"connecting", "live"} /\ ~claimed[o]
    /\ remote' = Set(remote, o, "live")
    /\ \/ claimed' = Set(claimed, o, TRUE) /\ channel' = Set(channel, o, "waiting")
       \/ remote[o] = "connecting" /\ UNCHANGED <<claimed, channel>>
    /\ UNCHANGED <<request, permits, life, opened, closed, peer, queued, shutdown>>

ChannelOpens(o) ==
    /\ channel[o] = "waiting" /\ remote[o] = "live"
    /\ opened' = Set(opened, o, TRUE)
    /\ channel' = Set(channel, o, "sending")
    /\ UNCHANGED <<request, permits, life, closed, claimed, peer, remote, queued, shutdown>>

\* Shutdown, the flag, or the end of the channel.
ChannelEnds(o) ==
    /\ channel[o] \in {"waiting", "sending"}
    /\ shutdown \/ closed[o] \/ peer[o] = "closed"
    /\ channel' = Set(channel, o, "ended")
    /\ closed' = Set(closed, o, TRUE)
    /\ UNCHANGED <<request, permits, life, opened, claimed, peer, remote, queued, shutdown>>

Report(o) ==
    /\ channel' = Set(channel, o, "reporting")
    /\ UNCHANGED <<request, permits, life, peer, remote, queued, shutdown>> /\ UNCHANGED Flags

\* A payload has waited for room for 10 seconds, or cannot be built or sent.
SendTimesOut(o) == channel[o] = "sending" /\ queued[o] = Buffer /\ Report(o)
SubscribeFails(o) == channel[o] = "sending" /\ Report(o)

\* The error is sent on the same channel, without a time limit, before the flag is
\* set: into a full buffer it may fit or wait, for the reader or the connection's end.
Room(o) == queued[o] < Buffer \/ remote[o] = "live" \/ peer[o] = "closed"
ReportSent(o) ==
    /\ channel[o] = "reporting"
    /\ channel' = Set(channel, o, "ended")
    /\ closed' = Set(closed, o, TRUE)
    /\ UNCHANGED <<request, permits, life, opened, claimed, peer, remote, queued, shutdown>>

\* A change or the heartbeat: the next payload.  A live reader takes it.
SendPayload(o) ==
    /\ channel[o] = "sending" /\ remote[o] # "live" /\ queued[o] < Buffer
    /\ queued' = Set(queued, o, queued[o] + 1)
    /\ UNCHANGED <<request, permits, life, peer, channel, remote, shutdown>> /\ UNCHANGED Flags

RemoteChanges(o) ==
    /\ peer[o] = "new" /\ remote[o] # "gone"
    /\ remote' \in {Set(remote, o, "gone"), Set(remote, o, "silent")} \ {remote}
    /\ UNCHANGED <<request, permits, life, peer, channel, queued, shutdown>> /\ UNCHANGED Flags

\* A reader that had stopped empties the buffer.
ReaderResumes(o) ==
    /\ peer[o] = "new" /\ remote[o] = "silent"
    /\ remote' = Set(remote, o, "live") /\ queued' = Set(queued, o, 0)
    /\ UNCHANGED <<request, permits, life, peer, channel, shutdown>> /\ UNCHANGED Flags

Shutdown ==
    /\ ~shutdown /\ shutdown' = TRUE
    /\ UNCHANGED <<request, permits, life, peer, channel, remote, queued>> /\ UNCHANGED Flags

-----------------------------------------------------------------------------
Negotiate(o) == AcquirePermit(o) \/ BuildPeer(o) \/ AnswerOffer(o)
Own(o) == NegotiationEnds(o) \/ OwnerSeesClosed(o) \/ ClosePeer(o)
Subscribe(o) ==
    \/ ChannelOpens(o) \/ ChannelEnds(o) \/ SendPayload(o) \/ SendTimesOut(o)
    \/ Room(o) /\ ReportSent(o)

Next ==
    \/ \E o \in Offers :
          \/ Negotiate(o) \/ Own(o) \/ Subscribe(o)
          \/ SubscribeFails(o) \/ ReportSent(o)
          \/ ConnectionEnds(o) \/ OnDataChannel(o) \/ RemoteChanges(o) \/ ReaderResumes(o)
    \/ Shutdown

\* Tasks are polled, a select that is ready for its end does not choose the next
\* payload for ever, timers fire and the library reports what it closed.  No call
\* is assumed to fail, and no error to fit into a full buffer.
Fairness ==
    \A o \in Offers :
        /\ WF_vars(BuildPeer(o) \/ AnswerOffer(o)) /\ WF_vars(Own(o))
        /\ WF_vars(Subscribe(o)) /\ WF_vars(ChannelEnds(o)) /\ WF_vars(ConnectionEnds(o))

Spec == Init /\ [][Next]_vars /\ Fairness

-----------------------------------------------------------------------------
Holding == {o \in Offers : request[o] = "building" \/ life[o] \in {"opening", "open", "closing"}}

Accounted == permits + Cardinality(Holding) = Permits

\* Only a peer that sends to a client that reads keeps its permit, and one whose
\* error waits for room in the buffer of a client that has stopped reading while the
\* library holds the connection up.  One whose request failed or was dropped, whose
\* channel never opened, whose client has gone, or that is shut down, gives it back.
\* No permit is lost or returned twice, whichever of the tasks ends first.
Streaming(o) == channel[o] = "sending" /\ remote[o] = "live" /\ ~shutdown
Stalled(o) == channel[o] = "reporting" /\ ~Room(o) /\ remote[o] = "silent"
PermitsReturn ==
    /\ []Accounted
    /\ \A o \in Offers : (o \in Holding) ~> (o \notin Holding \/ Streaming(o) \/ Stalled(o))
=============================================================================
