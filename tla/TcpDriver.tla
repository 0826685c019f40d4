------------------------------ MODULE TcpDriver ------------------------------
(***************************************************************************)
(* One end of the TCP fallback (transport/tcp.rs): callers of open_bi, and *)
(* the one task that drives the yamux connection.  yamux opens no stream   *)
(* while Unacked of them are not acknowledged by the peer, and reads the   *)
(* acknowledgements, as everything else, only when it is polled for an     *)
(* inbound stream.                                                         *)
(*                                                                         *)
(* yamux and the peer are external: `wire' is what the peer has sent and   *)
(* yamux has not read.                                                     *)
(***************************************************************************)
EXTENDS Naturals, FiniteSets, Sequences, SequencesExt

CONSTANTS Callers,
          Unacked,      \* yamux's limit of unacknowledged streams
          Requests,     \* what the channel of open requests holds
          MaxInbound    \* bound on the streams the peer opens

ASSUME DriverAssumption ==
    /\ {Unacked, Requests} \subseteq Nat \ {0}
    /\ MaxInbound \in Nat

VARIABLES
    caller,     \* caller -> where its open_bi stands
    requests,   \* the channel of open requests
    pending,    \* <<>> or the request the driver has taken
    driver,     \* where the driver's task stands
    stale,      \* streams opened that the peer has not been told to acknowledge
    unacked,    \* streams not acknowledged, as far as yamux has read
    wire,       \* "ack", "stream" and "goaway", unread
    inbound,    \* streams delivered to accept_bi
    peer,       \* "up", "mute" or "gone"
    closed,     \* TcpTransport.closed
    held        \* whether the transport is still held by its owner

driverVars == <<caller, requests, pending, driver, stale, unacked, wire, inbound, peer,
                closed, held>>

DriverInit ==
    /\ caller = [c \in Callers |-> "idle"]
    /\ requests = <<>> /\ pending = <<>> /\ driver = "serving"
    /\ stale = 0 /\ unacked = 0 /\ wire = <<>> /\ inbound = 0
    /\ peer = "up" /\ closed = FALSE /\ held = TRUE

Becomes(c, l) == caller' = [caller EXCEPT ![c] = l]
Ended == driver \in {"closing", "ended"}

-----------------------------------------------------------------------------
(***************************************************************************)
(* The callers, which hold the transport while they wait.                  *)
(***************************************************************************)
\* A caller opens one stream.  open.send waits for room in the channel, and fails when the driver dropped it.
OpenBi(c) ==
    /\ caller[c] = "idle" /\ held
    /\ Becomes(c, "sending")
    /\ UNCHANGED <<requests, pending, driver, stale, unacked, wire, inbound, peer, closed, held>>

SendRequest(c) ==
    /\ caller[c] = "sending"
    /\ \/ /\ Ended /\ Becomes(c, "failed") /\ UNCHANGED requests
       \/ /\ ~Ended /\ Len(requests) < Requests
          /\ Becomes(c, "waiting") /\ requests' = Append(requests, c)
    /\ UNCHANGED <<pending, driver, stale, unacked, wire, inbound, peer, closed, held>>

Close ==
    /\ ~closed /\ held /\ closed' = TRUE
    /\ UNCHANGED <<caller, requests, pending, driver, stale, unacked, wire, inbound, peer, held>>

\* The owner lets go of the transport: no caller is left, and the channel closes.
DropTransport ==
    /\ held /\ \A c \in Callers : caller[c] \notin {"sending", "waiting"}
    /\ held' = FALSE
    /\ UNCHANGED <<caller, requests, pending, driver, stale, unacked, wire, inbound, peer, closed>>

-----------------------------------------------------------------------------
(***************************************************************************)
(* The peer: acknowledges what was opened, opens streams, and may leave or *)
(* go mute.  The heartbeat on the control stream notices a mute peer, and  *)
(* its owner closes the transport.                                         *)
(***************************************************************************)
PeerAcks ==
    /\ peer = "up" /\ stale > 0 /\ ~Ended
    /\ stale' = stale - 1 /\ wire' = Append(wire, "ack")
    /\ UNCHANGED <<caller, requests, pending, driver, unacked, inbound, peer, closed, held>>

PeerOpens ==
    /\ peer = "up" /\ ~Ended
    /\ inbound + Len(SelectSeq(wire, LAMBDA f : f = "stream")) < MaxInbound
    /\ wire' = Append(wire, "stream")
    /\ UNCHANGED <<caller, requests, pending, driver, stale, unacked, inbound, peer, closed, held>>

PeerLeaves ==
    /\ peer = "up"
    /\ \/ peer' = "mute" /\ UNCHANGED wire
       \/ peer' = "gone" /\ wire' = Append(wire, "goaway")
    /\ UNCHANGED <<caller, requests, pending, driver, stale, unacked, inbound, closed, held>>

HeartbeatLost ==
    /\ peer = "mute" /\ ~closed
    /\ closed' = TRUE
    /\ UNCHANGED <<caller, requests, pending, driver, stale, unacked, wire, inbound, peer, held>>

-----------------------------------------------------------------------------
(***************************************************************************)
(* The driver.  A poll of poll_step is one step: the task does not yield   *)
(* within it.                                                              *)
(***************************************************************************)
\* poll_next_inbound: yamux reads every acknowledgement up to the first frame that
\* makes it return.
Stops(frame) == frame # "ack"
Read ==
    LET ends == {i \in DOMAIN wire : Stops(wire[i])}
    IN  IF ends = {} THEN Len(wire) ELSE (CHOOSE i \in ends : \A j \in ends : i <= j)
Acked(n) == Cardinality({i \in 1..n : wire[i] = "ack"})

\* The request a poll works on: the one it holds, or the next in the channel.
Taken == IF pending # <<>> THEN pending
         ELSE IF requests # <<>> THEN <<Head(requests)>> ELSE <<>>
Left  == IF pending # <<>> \/ requests = <<>> THEN requests ELSE Tail(requests)

\* The request is answered, and the loop takes the next; or it stays pending while
\* yamux has no room.
Answer(taken, room) ==
    IF taken # <<>> /\ room < Unacked
      THEN /\ Becomes(taken[1], "opened")
           /\ pending' = <<>> /\ stale' = stale + 1 /\ unacked' = room + 1
      ELSE /\ pending' = taken /\ unacked' = room /\ UNCHANGED <<caller, stale>>

\* Mutant: a request that finds no room is waited for in an arm of its own, and yamux
\* is not polled for inbound streams meanwhile.
Polled_Alone == driver = "serving" /\ pending = <<>>
\* The task is polled, and polls yamux, whether or not a request is pending.
Polled       == driver = "serving"

\* poll_step, and what serve does with it: a request is taken, yamux reads, and only
\* then is a stream opened for the request.  It ends when the peer has gone, when no
\* request can come any more, and when nobody is left to deliver a stream to.
PollStep ==
    /\ Polled
    /\ IF Taken = <<>> /\ ~held
         THEN /\ driver' = "closing"
              /\ UNCHANGED <<caller, requests, pending, stale, unacked, wire, inbound>>
         ELSE LET n    == Read
                  last == IF n = 0 THEN "ack" ELSE wire[n]
                  room == unacked - Acked(n)
              IN  /\ wire' = SubSeq(wire, n + 1, Len(wire))
                  /\ requests' = Left
                  /\ inbound' = IF last = "stream" THEN inbound + 1 ELSE inbound
                  /\ driver' = IF last = "goaway" \/ (last = "stream" /\ ~held)
                                 THEN "closing" ELSE driver
                  /\ IF Stops(last)
                       THEN /\ pending' = Taken /\ unacked' = room
                            /\ UNCHANGED <<caller, stale>>
                       ELSE Answer(Taken, room)
    /\ UNCHANGED <<peer, closed, held>>

\* The select's other arm.
SeesClosed ==
    /\ driver = "serving" /\ closed
    /\ driver' = "closing"
    /\ UNCHANGED <<caller, requests, pending, stale, unacked, wire, inbound, peer, closed, held>>

\* The requests and the pending one are dropped before the go-away is flushed, for
\* which a wedged socket may take the whole grace.
DropRequests ==
    /\ driver = "closing" /\ (requests # <<>> \/ pending # <<>>)
    /\ caller' = [c \in Callers |-> IF c \in ToSet(requests \o pending) THEN "failed"
                                    ELSE caller[c]]
    /\ requests' = <<>> /\ pending' = <<>>
    /\ UNCHANGED <<driver, stale, unacked, wire, inbound, peer, closed, held>>

Goodbye ==
    /\ driver = "closing" /\ requests = <<>> /\ pending = <<>>
    /\ driver' = "ended" /\ closed' = TRUE
    /\ UNCHANGED <<caller, requests, pending, stale, unacked, wire, inbound, peer, held>>

DriverStep == PollStep \/ SeesClosed \/ DropRequests \/ Goodbye

DriverNext ==
    \/ \E c \in Callers : OpenBi(c) \/ SendRequest(c)
    \/ Close \/ DropTransport
    \/ PeerAcks \/ PeerOpens \/ PeerLeaves \/ HeartbeatLost
    \/ DriverStep

(***************************************************************************)
(* The driver is polled when a request, a frame or the close is there; a   *)
(* peer that is up acknowledges, and a mute one is noticed in the end.     *)
(***************************************************************************)
DriverFairness ==
    /\ WF_driverVars(PollStep) /\ WF_driverVars(SeesClosed)
    /\ WF_driverVars(DropRequests) /\ WF_driverVars(Goodbye)
    /\ \A c \in Callers : WF_driverVars(SendRequest(c))
    /\ WF_driverVars(PeerAcks) /\ WF_driverVars(HeartbeatLost)

-----------------------------------------------------------------------------
\* Every open_bi is answered, with a stream or an error: although streams go unacked
\* past yamux's limit, the peer opens streams of its own, leaves or falls silent, and
\* the transport is closed while callers wait in the channel.
OpensAnswered ==
    \A c \in Callers : caller[c] \in {"sending", "waiting"} ~> caller[c] \in {"opened", "failed"}
=============================================================================
