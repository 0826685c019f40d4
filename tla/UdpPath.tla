------------------------------- MODULE UdpPath -------------------------------
(***************************************************************************)
(* The payloads of one UDP session between server and client (udp.rs): the *)
(* sender at each end, which takes a datagram where the payload fits and   *)
(* the queue of the bulk stream where not, and never waits; the bulk task  *)
(* at each end (server/udp/mod.rs, client/udp.rs), which drains its queue  *)
(* into the stream and reads the other's frames out of it; and the demux   *)
(* of datagrams.  Whose session a packet is of, SessionTable and UdpLocal  *)
(* have; when the server opens the stream, Tunnel.  What is dropped is     *)
(* counted by nothing here: no step reads the counts.                      *)
(*                                                                         *)
(* A payload is a number and a size.  A frame is two pieces on the stream, *)
(* its length and its body, which are written and read apart.              *)
(***************************************************************************)
EXTENDS Naturals, Sequences, SequencesExt

CONSTANTS Sizes,        \* the sizes of packets, headers included
          MaxFrame,     \* MAX_FRAME
          MaxMtu,       \* what max_datagram_size may come to be on QUIC
          QueueSpace,   \* quinn's buffer of outgoing datagrams, in sizes
          BulkQueue,    \* BULK_QUEUE
          MaxOffered    \* end -> bound on the payloads it sends

ASSUME UdpPathAssumption ==
    /\ Sizes \subseteq Nat \ {0} /\ {MaxFrame, MaxMtu, QueueSpace} \subseteq Nat
    /\ MaxMtu <= QueueSpace /\ BulkQueue \in Nat \ {0}
    /\ MaxOffered \in [{"server", "client"} -> Nat]

VARIABLES
    mtu,        \* max_datagram_size; 0 for none, on TCP
    up,         \* the connection stands
    offered,    \* end -> payloads it was given to send
    hand,       \* end -> <<>> or what dispatch is about to send, and by which path
    quinn,      \* end -> datagrams quinn has queued
    air,        \* end -> datagrams on their way
    queue,      \* end -> the bulk queue
    task,       \* end -> its bulk task: "none", "open", "over", "refused", or
                \* "gone" when the server's never came to open the stream
    writing,    \* end -> <<>> or the pieces of a frame drain has still to write
    wire,       \* end -> pieces the other end has not read
    reading,    \* end -> what read_body is to read next: <<>>, or the body of that head
    taken       \* end -> what deliver got of the payloads it sent, in order

pathVars == <<mtu, up, offered, hand, quinn, air, queue, task, writing, wire, reading,
              taken>>

Ends    == {"server", "client"}
Peer(n) == IF n = "server" THEN "client" ELSE "server"

\* Sender::new at each end, on either transport.
PathInit ==
    /\ mtu \in {0, 1} /\ up = TRUE
    /\ offered = [n \in Ends |-> 0] /\ hand = [n \in Ends |-> <<>>]
    /\ quinn = [n \in Ends |-> <<>>] /\ air = [n \in Ends |-> {}]
    /\ queue = [n \in Ends |-> <<>>] /\ task = [n \in Ends |-> "none"]
    /\ writing = [n \in Ends |-> <<>>] /\ wire = [n \in Ends |-> <<>>]
    /\ reading = [n \in Ends |-> <<>>] /\ taken = [n \in Ends |-> <<>>]

Of(f, n, x) == [f EXCEPT ![n] = x]

-----------------------------------------------------------------------------
(***************************************************************************)
(* Sender::dispatch.  One task at each end sends what a session has.       *)
(***************************************************************************)
SizeOf(packets) == FoldLeft(LAMBDA sum, p : sum + p.size, 0, packets)

\* The packet is encoded, which drops one no frame could hold, and the size of a
\* datagram is looked at.
Dispatch(n, size) ==
    LET packet == [id |-> offered[n] + 1, size |-> size,
                   by |-> IF size <= mtu THEN "datagram" ELSE "bulk"]
    IN  /\ hand[n] = <<>> /\ offered[n] < MaxOffered[n]
        /\ offered' = Of(offered, n, packet.id)
        /\ hand' = Of(hand, n, IF size > MaxFrame THEN <<>> ELSE <<packet>>)
        /\ UNCHANGED <<mtu, up, quinn, air, queue, task, writing, wire, reading, taken>>

\* quinn makes room by evicting the oldest it has queued, and no more than it must.
Left(packets, k) == SubSeq(packets, k + 1, Len(packets))
Frees(packets, k, size) ==
    /\ SizeOf(Left(packets, k)) + size <= QueueSpace
    /\ \A j \in 0..(k - 1) : SizeOf(Left(packets, j)) + size > QueueSpace

ToBulk(n) == hand' = Of(hand, n, <<[hand[n][1] EXCEPT !.by = "bulk"]>>)

\* send_datagram: the connection may have failed, and the path's MTU shrunk, since the
\* size was looked at.
SendDatagram(n) ==
    /\ hand[n] # <<>> /\ hand[n][1].by = "datagram"
    /\ LET packet == hand[n][1]
       IN  IF ~up THEN hand' = Of(hand, n, <<>>) /\ UNCHANGED quinn
           ELSE IF packet.size > mtu THEN ToBulk(n) /\ UNCHANGED quinn
           ELSE \E k \in 0..Len(quinn[n]) :
                   /\ Frees(quinn[n], k, packet.size)
                   /\ quinn' = Of(quinn, n, Append(Left(quinn[n], k), packet))
                   /\ hand' = Of(hand, n, <<>>)
    /\ UNCHANGED <<mtu, up, offered, air, queue, task, writing, wire, reading, taken>>

\* try_send: a queue that is full, or whose receiver is gone, drops it.
QueueBulk(n) ==
    /\ hand[n] # <<>> /\ hand[n][1].by = "bulk"
    /\ hand' = Of(hand, n, <<>>)
    /\ IF Len(queue[n]) < BulkQueue /\ task[n] \notin {"over", "gone"}
         THEN queue' = Of(queue, n, Append(queue[n], hand[n][1])) ELSE UNCHANGED queue
    /\ UNCHANGED <<mtu, up, offered, quinn, air, task, writing, wire, reading, taken>>

-----------------------------------------------------------------------------
(***************************************************************************)
(* deliver, of a packet of n off either path at the other end.  It may     *)
(* find no session or no socket for it; either way the packet is done      *)
(* with.                                                                   *)
(***************************************************************************)
Delivered(n, id, by) == taken' = Of(taken, n, Append(taken[n], [id |-> id, by |-> by]))

Transmit(n) ==
    /\ up /\ quinn[n] # <<>>
    /\ quinn' = Of(quinn, n, Tail(quinn[n])) /\ air' = Of(air, n, air[n] \cup {Head(quinn[n]).id})
    /\ UNCHANGED <<mtu, up, offered, hand, queue, task, writing, wire, reading, taken>>

\* demux: in any order, or not at all; and not when the service is not bound.
Demux(n) ==
    /\ up
    /\ \E id \in air[n] :
          /\ air' = Of(air, n, air[n] \ {id})
          /\ Delivered(n, id, "datagram") \/ UNCHANGED taken
    /\ UNCHANGED <<mtu, up, offered, hand, quinn, queue, task, writing, wire, reading>>

\* MTU discovery, and a black hole.
MtuMoves ==
    /\ mtu # 0 /\ mtu' \in (1..MaxMtu) \ {mtu}
    /\ UNCHANGED <<up, offered, hand, quinn, air, queue, task, writing, wire, reading, taken>>

-----------------------------------------------------------------------------
(***************************************************************************)
(* The bulk stream: the server opens it, and the client takes its queue to *)
(* it or, when the service was never bound, refuses it.                    *)
(***************************************************************************)
OpenBulk ==
    /\ up /\ task["server"] = "none"
    /\ task' = Of(task, "server", "open")
    /\ UNCHANGED <<mtu, up, offered, hand, quinn, air, queue, writing, wire, reading, taken>>

ServeBulk ==
    /\ up /\ task["server"] \in {"open", "over"} /\ task["client"] = "none"
    /\ \E to \in {"open", "refused"} : task' = Of(task, "client", to)
    /\ UNCHANGED <<mtu, up, offered, hand, quinn, air, queue, writing, wire, reading, taken>>

\* Mutant: the select is entered again for every packet, which drops a read begun.
Reads_Anew(n) == reading' = Of(reading, n, <<>>)
\* One select: the read that is under way goes on.
Reads(n)      == UNCHANGED reading

\* drain: the next packet, written as a frame.
Drain(n) ==
    /\ task[n] = "open" /\ writing[n] = <<>> /\ queue[n] # <<>>
    /\ writing' = Of(writing, n, <<[id |-> Head(queue[n]).id, part |-> "length"],
                                   [id |-> Head(queue[n]).id, part |-> "body"]>>)
    /\ queue' = Of(queue, n, Tail(queue[n]))
    /\ Reads(n)
    /\ UNCHANGED <<mtu, up, offered, hand, quinn, air, task, wire, taken>>

\* write_body, within a window of one piece.
WriteBody(n) ==
    /\ up /\ task[n] = "open" /\ writing[n] # <<>> /\ wire[n] = <<>>
    /\ wire' = Of(wire, n, <<Head(writing[n])>>)
    /\ writing' = Of(writing, n, Tail(writing[n]))
    /\ UNCHANGED <<mtu, up, offered, hand, quinn, air, queue, task, reading, taken>>

\* Mutant: one loop that writes what it has before it reads.
ReadsOn_InTurn(n) == task[n] = "open" /\ writing[n] = <<>>
\* The select polls the reads whatever the drain is doing.
ReadsOn(n)        == task[n] = "open"

\* read_body: the length, then the body; the same read goes on until the task ends.
ReadBody(n) ==
    /\ up /\ ReadsOn(n) /\ wire[Peer(n)] # <<>>
    /\ wire' = Of(wire, Peer(n), Tail(wire[Peer(n)]))
    /\ LET piece == Head(wire[Peer(n)])
       IN  IF reading[n] = <<>> THEN reading' = Of(reading, n, <<piece>>) /\ UNCHANGED taken
           ELSE /\ reading' = Of(reading, n, <<>>)
                /\ Delivered(Peer(n), piece.id,
                           IF reading[n][1] = [piece EXCEPT !.part = "length"] /\ piece.part = "body"
                             THEN "bulk" ELSE "torn")
    /\ UNCHANGED <<mtu, up, offered, hand, quinn, air, queue, task, writing>>

\* The service is cancelled, or the stream or the connection has failed: the queue goes
\* with the task, and what it was writing.
EndBulk(n) ==
    /\ task[n] = "open" \/ (n = "server" /\ task[n] = "none")
    /\ task' = Of(task, n, IF task[n] = "open" THEN "over" ELSE "gone")
    /\ queue' = Of(queue, n, <<>>) /\ writing' = Of(writing, n, <<>>)
    /\ UNCHANGED <<mtu, up, offered, hand, quinn, air, wire, reading, taken>>

LoseConnection ==
    /\ up /\ up' = FALSE
    /\ UNCHANGED <<mtu, offered, hand, quinn, air, queue, task, writing, wire, reading, taken>>

PathNext ==
    \/ \E n \in Ends : \/ \E size \in Sizes : Dispatch(n, size)
                       \/ SendDatagram(n) \/ QueueBulk(n) \/ Transmit(n) \/ Demux(n)
                       \/ Drain(n) \/ WriteBody(n) \/ ReadBody(n) \/ EndBulk(n)
    \/ MtuMoves \/ OpenBulk \/ ServeBulk \/ LoseConnection

PathSpec == PathInit /\ [][PathNext]_pathVars

\* The bulk tasks are polled; nothing makes the network deliver or a task end.
PathFairness ==
    \A n \in Ends : /\ WF_pathVars(Drain(n)) /\ WF_pathVars(WriteBody(n))
                    /\ WF_pathVars(ReadBody(n))

-----------------------------------------------------------------------------
\* Of what an end sends, the other gets no payload twice, although a send that failed
\* as a datagram is made again on the bulk stream; none that is put together from the
\* pieces of two frames; and what comes by the bulk stream in the order it was sent.
PacketsIntact ==
    \A n \in Ends : \A i, j \in DOMAIN taken[n] :
        LET a == taken[n][i]
            b == taken[n][j]
        IN  /\ a.by # "torn"
            /\ i < j => a.id # b.id
            /\ i < j /\ a.by = "bulk" /\ b.by = "bulk" => a.id < b.id

\* What is queued for a stream that is open at both ends comes through, although both
\* ends may be writing into a full window: the two never wait for each other.
Flowing == up /\ \A n \in Ends : task[n] = "open"
BulkFlows ==
    \A n \in Ends : \A id \in 1..MaxOffered[n] :
        (\E i \in DOMAIN queue[n] : queue[n][i].id = id) ~>
            (~Flowing \/ \E i \in DOMAIN taken[n] : taken[n][i].id = id)
=============================================================================
