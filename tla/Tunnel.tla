------------------------------- MODULE Tunnel -------------------------------
(***************************************************************************)
(* The visitor streams of one session: the listener that takes a visitor   *)
(* in (server/listener.rs), the stream it opens to the client              *)
(* (transport/), the client's end of it (client/visitor.rs), and the pump  *)
(* at each end (pump.rs) between its socket and the stream; with the bulk  *)
(* stream of a UDP service (server/udp/mod.rs), which is taken out of the  *)
(* same budget.  The listener and the bulk task stop when the session       *)
(* cancels them, which may be at any time; visitors in the pump go on.      *)
(*                                                                         *)
(* Bytes have no content: each place of the pipe counts how many have come *)
(* past it.  What a TCP transport writes as records is here one record to  *)
(* a byte, and the finish and the reset the last records; RecordCodec has  *)
(* the records themselves.                                                 *)
(***************************************************************************)
EXTENDS Integers, FiniteSets, AllowList

CONSTANTS Visitors,     \* places for visitors, each taken by many in turn
          ClientNets,   \* the allow list of the service, and
          CeilingNets,  \* the server's ceiling for the client
          Streams,      \* limits.streams_per_client
          Bytes         \* flow -> bound on the bytes its source writes

ASSUME TunnelAssumption == /\ ClientNets \subseteq Net /\ CeilingNets \subseteq Net
                           /\ Effective(ClientNets, CeilingNets) # NoList
                           /\ Streams \in Nat \ {0}
                           /\ Bytes \in [{"up", "down"} -> Nat]

(***************************************************************************)
(* The server's pump has the visitor's socket, the client's pump that of   *)
(* the local service.  Each sends what its socket reads, and writes to its *)
(* socket what the other sends.                                            *)
(***************************************************************************)
Flows == {"up", "down"}
Nodes == {"server", "client"}
Out(n)  == IF n = "server" THEN "up" ELSE "down"
In(n)   == IF n = "server" THEN "down" ELSE "up"
Near(d) == IF d = "up" THEN "server" ELSE "client"
Far(d)  == IF d = "up" THEN "client" ELSE "server"

VARIABLES
    kind,       \* the transport's TransportKind
    conn,       \* whether the connection stands
    permits,    \* free permits of the session's stream budget
    bulk,       \* where the UDP service's bulk task is
    stage,      \* visitor -> node -> where that end's task is
    left,       \* visitor -> nodes whose socket the application has reset
    aborted,    \* visitor -> nodes that closed their socket with a reset
    flow        \* visitor -> flow -> the bytes and the end of that direction

vars == <<kind, conn, permits, bulk, stage, left, aborted, flow>>

ServerStage == {"away", "barred", "opening", "heading", "pumping", "over"}
ClientStage == {"away", "dialing", "pumping", "refusing", "refused", "over"}
BulkStage   == {"waiting", "opening", "heading", "open", "finishing", "over"}

\* sent and fin are the source's doing, got and saw the sink's.  The pump near the
\* source has read that many bytes, the transport has taken `out' of them and then
\* the mark, if `gone'; the far pump has taken and put that many, and shut its side.
Flow == [sent : Nat, fin : BOOLEAN, read : Nat, out : Nat,
         mark : {"none", "finish", "reset"}, gone : {"no", "yes", "failed"},
         taken : Nat, put : Nat, shut : BOOLEAN,
         got : Nat, saw : {"nothing", "end", "reset"}]
Still == [sent |-> 0, fin |-> FALSE, read |-> 0, out |-> 0,
          mark |-> "none", gone |-> "no",
          taken |-> 0, put |-> 0, shut |-> FALSE, got |-> 0, saw |-> "nothing"]

TypeOK == /\ kind \in {"quic", "tcp"} /\ conn \in BOOLEAN
          /\ permits \in 0..Streams /\ bulk \in BulkStage
          /\ stage \in [Visitors -> [Nodes -> ServerStage \cup ClientStage]]
          /\ left \in [Visitors -> SUBSET Nodes]
          /\ aborted \in [Visitors -> SUBSET Nodes]
          /\ flow \in [Visitors -> [Flows -> Flow]]

Init == /\ kind \in {"quic", "tcp"} /\ conn = TRUE
        /\ permits = Streams /\ bulk = "waiting"
        /\ stage = [v \in Visitors |-> [n \in Nodes |-> "away"]]
        /\ left = [v \in Visitors |-> {}]
        /\ aborted = [v \in Visitors |-> {}]
        /\ flow = [v \in Visitors |-> [d \in Flows |-> Still]]

-----------------------------------------------------------------------------
(***************************************************************************)
(* tokio's semaphore: a permit that comes back goes to whoever waits for   *)
(* one, and only the bulk task waits.                                      *)
(***************************************************************************)
\* Mutant: the permit is not returned.
Release_Kept == UNCHANGED <<permits, bulk>>
Release == IF bulk = "waiting"
           THEN bulk' = "opening" /\ UNCHANGED permits
           ELSE permits' = permits + 1 /\ UNCHANGED bulk

Goto(v, n, s) == stage' = [stage EXCEPT ![v] = [@ EXCEPT ![n] = s]]
Abort(v, n)   == aborted' = [aborted EXCEPT ![v] = @ \cup {n}]
Set(v, d, f)  == flow' = [flow EXCEPT ![v] = [@ EXCEPT ![d] = f]]

Over(v, n)    == stage[v][n] \in {"over", "refused"}
Pumping(v, n) == stage[v][n] = "pumping"
Live(v, n)    == n \notin left[v] /\ n \notin aborted[v]

-----------------------------------------------------------------------------
(***************************************************************************)
(* The listener and the visitor's task, up to the pump.                    *)
(***************************************************************************)
Permitted(ip) == \E list \in Effective(ClientNets, CeilingNets) : Permits(list, ip)

\* Not on the allow list, or admitted and gone before its local address is read, when
\* the permit goes straight back: the socket is dropped.
Bar(v) ==
    /\ stage[v]["server"] = "away" /\ \E ip \in Ip : ~Permitted(ip) \/ permits > 0
    /\ Goto(v, "server", "barred")
    /\ UNCHANGED <<kind, conn, permits, bulk, left, aborted, flow>>

TryAcquire == permits > 0 /\ permits' = permits - 1

Admit(v) ==
    /\ stage[v]["server"] = "away" /\ \E ip \in Ip : Permitted(ip)
    /\ TryAcquire
    /\ Goto(v, "server", "opening")
    /\ UNCHANGED <<kind, conn, bulk, left, aborted, flow>>

TurnAway(v) ==
    /\ stage[v]["server"] = "away" /\ \E ip \in Ip : Permitted(ip)
    /\ permits = 0
    /\ Abort(v, "server")
    /\ Goto(v, "server", "over")
    /\ UNCHANGED <<kind, conn, permits, bulk, left, flow>>

\* open_bi, and then the header.
OpenStream(v) ==
    /\ conn
    /\ \/ stage[v]["server"] = "opening" /\ Goto(v, "server", "heading")
       \/ stage[v]["server"] = "heading" /\ Goto(v, "server", "pumping")
    /\ UNCHANGED <<kind, conn, permits, bulk, left, aborted, flow>>

OpenFails(v) ==
    /\ ~conn /\ stage[v]["server"] \in {"opening", "heading"}
    /\ Abort(v, "server")
    /\ Goto(v, "server", "over")
    /\ Release
    /\ UNCHANGED <<kind, conn, left, flow>>

-----------------------------------------------------------------------------
(***************************************************************************)
(* serve_stream and visitor::serve on the client, up to the pump.          *)
(***************************************************************************)
HeaderSent(v) == Pumping(v, "server") \/ (Over(v, "server") /\ flow[v]["up"].mark # "none")

\* The header is read; on QUIC a reset may have overtaken it.
TakeStream(v) ==
    /\ conn /\ stage[v]["client"] = "away" /\ HeaderSent(v)
    /\ \/ Goto(v, "client", "dialing")
       \/ flow[v]["up"].mark = "reset" /\ Goto(v, "client", "refusing")
    /\ UNCHANGED <<kind, conn, permits, bulk, left, aborted, flow>>

\* The service is not ours, or the local service does not take the connection or
\* the PROXY header: a socket that was connected by then is dropped.
GiveUp(v) ==
    /\ stage[v]["client"] = "dialing"
    /\ Goto(v, "client", "refusing")
    /\ UNCHANGED <<kind, conn, permits, bulk, left, aborted, flow>>

Dial(v) ==
    /\ stage[v]["client"] = "dialing"
    /\ Goto(v, "client", "pumping")
    /\ UNCHANGED <<kind, conn, permits, bulk, left, aborted, flow>>

\* refuse: the reset leaves, or FINISH_WAIT passes on TCP and the stream is dropped.
Refuse(v) ==
    /\ stage[v]["client"] = "refusing"
    /\ \E g \in IF kind = "quic" THEN {"yes"} ELSE {"yes", "failed"} :
          Set(v, "down", [flow[v]["down"] EXCEPT !.mark = "reset", !.gone = g])
    /\ Goto(v, "client", "refused")
    /\ UNCHANGED <<kind, conn, permits, bulk, left, aborted>>

-----------------------------------------------------------------------------
(***************************************************************************)
(* The applications at both edges, and the sockets between them and the    *)
(* pumps: environment.  A socket holds one byte the sink has not read.     *)
(***************************************************************************)
Connected(v, n) == stage[v][n] \in {"opening", "heading", "pumping"}

AppWrites(v, d) ==
    LET f == flow[v][d]
    IN  /\ Connected(v, Near(d)) /\ Live(v, Near(d)) /\ ~f.fin /\ f.sent < Bytes[d]
        /\ Set(v, d, [f EXCEPT !.sent = @ + 1])
        /\ UNCHANGED <<kind, conn, permits, bulk, stage, left, aborted>>

AppFinishes(v, d) ==
    LET f == flow[v][d]
    IN  /\ Connected(v, Near(d)) /\ Live(v, Near(d)) /\ ~f.fin
        /\ Set(v, d, [f EXCEPT !.fin = TRUE])
        /\ UNCHANGED <<kind, conn, permits, bulk, stage, left, aborted>>

\* The FIN: by the half-close, or by a drop that no abort came before.
Closed(v, d) == flow[v][d].shut \/ (stage[v][Far(d)] = "over" /\ Far(d) \notin aborted[v])

\* A read of the sink: a byte, the end, or the reset, which drops what is queued.
AppReads(v, d) ==
    LET f == flow[v][d]
    IN  /\ f.saw = "nothing" /\ Far(d) \notin left[v]
        /\ \/ f.got < f.put /\ Set(v, d, [f EXCEPT !.got = @ + 1])
           \/ f.got = f.put /\ Closed(v, d) /\ Set(v, d, [f EXCEPT !.saw = "end"])
           \/ Far(d) \in aborted[v] /\ Set(v, d, [f EXCEPT !.saw = "reset"])
        /\ UNCHANGED <<kind, conn, permits, bulk, stage, left, aborted>>

AppResets(v, n) ==
    /\ Connected(v, n) /\ Live(v, n)
    /\ left' = [left EXCEPT ![v] = @ \cup {n}]
    /\ UNCHANGED <<kind, conn, permits, bulk, stage, aborted, flow>>

-----------------------------------------------------------------------------
(***************************************************************************)
(* The pump of node n.  Its two arms are polled in turn, and either's      *)
(* error drops both.                                                       *)
(***************************************************************************)
\* to_stream: waiting for its socket, or with a byte the stream has not taken.
Reading(v, d) == flow[v][d].mark = "none" /\ flow[v][d].read = flow[v][d].out
Writing(v, d) == flow[v][d].mark = "none" /\ flow[v][d].read > flow[v][d].out

ReadSocket(v, n) ==
    LET f == flow[v][Out(n)]
    IN  /\ Pumping(v, n) /\ Reading(v, Out(n)) /\ Live(v, n)
        /\ \/ f.read < f.sent /\ Set(v, Out(n), [f EXCEPT !.read = @ + 1])
           \* finish: at once on QUIC; on TCP the record has to leave.
           \/ /\ f.read = f.sent /\ f.fin
              /\ Set(v, Out(n), [f EXCEPT !.mark = "finish",
                                          !.gone = IF kind = "quic" THEN "yes" ELSE "no"])
        /\ UNCHANGED <<kind, conn, permits, bulk, stage, left, aborted>>

\* write_bytes, within the stream's window of one byte.
WriteStream(v, n) ==
    LET f == flow[v][Out(n)]
    IN  /\ Pumping(v, n) /\ Writing(v, Out(n)) /\ conn
        /\ f.out = f.taken
        /\ Set(v, Out(n), [f EXCEPT !.out = @ + 1])
        /\ UNCHANGED <<kind, conn, permits, bulk, stage, left, aborted>>

\* The finish record leaves; an error of the shutdown is ignored.
FinishLeaves(v, n) ==
    LET f == flow[v][Out(n)]
    IN  /\ Pumping(v, n) /\ f.mark = "finish" /\ f.gone = "no"
        /\ \/ conn /\ Set(v, Out(n), [f EXCEPT !.gone = "yes"])
           \/ ~conn /\ Set(v, Out(n), [f EXCEPT !.gone = "failed"])
        /\ UNCHANGED <<kind, conn, permits, bulk, stage, left, aborted>>

\* to_socket: a read of the stream gives a byte or, after the finish, the end: the
\* socket is half-closed, and an error of that ignored.
ReadStream(v, n) ==
    LET f == flow[v][In(n)]
    IN  /\ Pumping(v, n) /\ ~f.shut /\ f.taken = f.put
        /\ \/ f.taken < f.out /\ Set(v, In(n), [f EXCEPT !.taken = @ + 1])
           \/ /\ f.taken = f.out /\ f.mark = "finish" /\ f.gone = "yes"
              /\ Set(v, In(n), [f EXCEPT !.shut = TRUE])
        /\ UNCHANGED <<kind, conn, permits, bulk, stage, left, aborted>>

WriteSocket(v, n) ==
    LET f == flow[v][In(n)]
    IN  /\ Pumping(v, n) /\ f.taken > f.put /\ n \notin left[v]
        /\ f.put = f.got
        /\ Set(v, In(n), [f EXCEPT !.put = @ + 1])
        /\ UNCHANGED <<kind, conn, permits, bulk, stage, left, aborted>>

\* What fails a read of the stream.  A QUIC reset overtakes the bytes before it.  A
\* TCP stream reads as reset when its writer is gone and no finish came of it.
Broken(v, d) ==
    LET f == flow[v][d]
    IN  \/ ~conn
        \/ kind = "quic" /\ f.mark = "reset"
        \/ kind = "tcp" /\ f.taken = f.out /\ Over(v, Near(d))
                        /\ ~(f.mark = "finish" /\ f.gone = "yes")

\* What fails a write: the connection is gone, or the reader has let the stream go.
Unwritable(v, d) == ~conn \/ Over(v, Far(d))

\* Mutant: the pump joins its arms, and hears of no error before both have ended.
Failing_Joined(v, n) ==
    /\ Reading(v, Out(n)) => n \in left[v]
    /\ Writing(v, Out(n)) => Unwritable(v, Out(n))
    /\ ~flow[v][In(n)].shut /\ flow[v][In(n)].taken = flow[v][In(n)].put => Broken(v, In(n))
Failing(v, n) ==
    LET i == flow[v][In(n)]
    IN  \/ Reading(v, Out(n)) /\ n \in left[v]
        \/ Writing(v, Out(n)) /\ Unwritable(v, Out(n))
        \/ ~i.shut /\ i.taken = i.put /\ Broken(v, In(n))
        \/ i.taken > i.put /\ n \in left[v]

\* Mutant: the dropped stream finishes, as quinn does by itself.
Reset_Finishes(f) == {[f EXCEPT !.mark = "finish", !.gone = "yes"]}
\* ResetOnDrop, unless the stream was taken out of it for the finish.  On TCP one
\* poll has to do for what is queued and the reset.
Reset(f) ==
    IF f.mark # "none" THEN {f}
    ELSE LET r == [f EXCEPT !.mark = "reset"]
         IN  IF kind = "quic" THEN {[r EXCEPT !.gone = "yes"]}
             ELSE {r, [r EXCEPT !.out = f.read], [r EXCEPT !.out = f.read, !.gone = "yes"]}

\* AbortOnDrop: the socket is closed with a reset.
AbortOnDrop(v, n) == Abort(v, n)

\* The end of the pump's task: on the server it holds the permit.
EndTask(v, n) == /\ Goto(v, n, "over")
                 /\ IF n = "server" THEN Release ELSE UNCHANGED <<permits, bulk>>

DropPump(v, n) ==
    /\ \E f \in Reset(flow[v][Out(n)]) : Set(v, Out(n), f)
    /\ AbortOnDrop(v, n)
    /\ EndTask(v, n)
    /\ UNCHANGED <<kind, conn, left>>

PumpFails(v, n) == Pumping(v, n) /\ Failing(v, n) /\ DropPump(v, n)

\* The task goes with its process, which has closed the connection by then.
ExitDrops(v, n) == Pumping(v, n) /\ ~conn /\ DropPump(v, n)

\* Both arms are through.
PumpEnds(v, n) ==
    /\ Pumping(v, n)
    /\ flow[v][Out(n)].mark = "finish" /\ flow[v][Out(n)].gone # "no"
    /\ flow[v][In(n)].shut
    /\ EndTask(v, n)
    /\ UNCHANGED <<kind, conn, left, aborted, flow>>

-----------------------------------------------------------------------------
(***************************************************************************)
(* The bulk task of a UDP service: a permit, the stream, its header, and   *)
(* then packets until the service is cancelled or the stream ends.         *)
(***************************************************************************)
BulkAcquires ==
    /\ bulk = "waiting" /\ TryAcquire
    /\ bulk' = "opening"
    /\ UNCHANGED <<kind, conn, stage, left, aborted, flow>>

BulkOpens ==
    /\ conn
    /\ \/ bulk = "opening" /\ bulk' = "heading"
       \/ bulk = "heading" /\ bulk' = "open"
    /\ UNCHANGED <<kind, conn, permits, stage, left, aborted, flow>>

\* Cancelled or failed before it is open: the task is over, its permit back.
BulkGivesUp ==
    /\ \/ bulk = "waiting" /\ UNCHANGED permits
       \/ bulk \in {"opening", "heading"} /\ permits' = permits + 1
    /\ bulk' = "over"
    /\ UNCHANGED <<kind, conn, stage, left, aborted, flow>>

\* The client may refuse the stream or let it go.
BulkEnds ==
    /\ bulk = "open" /\ bulk' = "finishing"
    /\ UNCHANGED <<kind, conn, permits, stage, left, aborted, flow>>

\* The finish leaves, or FINISH_WAIT is over.
BulkFinishes ==
    /\ bulk = "finishing" /\ bulk' = "over"
    /\ permits' = permits + 1
    /\ UNCHANGED <<kind, conn, stage, left, aborted, flow>>

-----------------------------------------------------------------------------
\* The session closes its transport, or the network takes the connection.
Disconnect ==
    /\ conn /\ conn' = FALSE
    /\ UNCHANGED <<kind, permits, bulk, stage, left, aborted, flow>>

\* Both ends have let the stream go: the visitor's place is free for another.
Settled(v) == /\ stage[v]["server"] \in {"barred", "over"}
              /\ Over(v, "client") \/ (stage[v]["client"] = "away"
                                                /\ ~(conn /\ HeaderSent(v)))
Depart(v) ==
    /\ Settled(v)
    /\ stage' = [stage EXCEPT ![v] = [n \in Nodes |-> "away"]]
    /\ left' = [left EXCEPT ![v] = {}]
    /\ aborted' = [aborted EXCEPT ![v] = {}]
    /\ flow' = [flow EXCEPT ![v] = [d \in Flows |-> Still]]
    /\ UNCHANGED <<kind, conn, permits, bulk>>

Accept(v)  == Bar(v) \/ Admit(v) \/ TurnAway(v)
Open(v)    == OpenStream(v) \/ OpenFails(v)
Serve(v)   == TakeStream(v) \/ GiveUp(v) \/ Dial(v) \/ Refuse(v)
Pump(v, n) == \/ ReadSocket(v, n) \/ WriteStream(v, n) \/ FinishLeaves(v, n)
              \/ ReadStream(v, n) \/ WriteSocket(v, n)
              \/ PumpFails(v, n) \/ PumpEnds(v, n)
Bulk       == \/ BulkAcquires \/ BulkOpens \/ BulkGivesUp \/ BulkEnds \/ BulkFinishes

Next == \/ \E v \in Visitors : \/ Accept(v) \/ Open(v) \/ Serve(v) \/ Depart(v)
                               \/ \E n \in Nodes : Pump(v, n) \/ ExitDrops(v, n) \/ AppResets(v, n)
                               \/ \E d \in Flows : \/ AppWrites(v, d) \/ AppFinishes(v, d)
                                                   \/ AppReads(v, d)
        \/ Bulk \/ Disconnect

Spec == Init /\ [][Next]_vars

(***************************************************************************)
(* Tasks are scheduled, and the applications read what they are sent.      *)
(* Visitors, the local service and the network need do nothing else.       *)
(***************************************************************************)
FairSpec ==
    /\ Spec
    /\ \A v \in Visitors :
          /\ WF_vars(Open(v)) /\ WF_vars(Serve(v))
          /\ \A n \in Nodes : WF_vars(Pump(v, n))
          /\ \A d \in Flows : WF_vars(AppReads(v, d))

-----------------------------------------------------------------------------
(***************************************************************************)
(* Properties.                                                             *)
(***************************************************************************)
\* An application that reads the end of its stream has every byte the other one sent,
\* and the other one ended it: no failure of a socket, of either arm of either pump,
\* of the stream or of the connection, passes for the end of a transfer.
CleanEndIsWhole ==
    \A v \in Visitors, d \in Flows :
        flow[v][d].saw = "end" => flow[v][d].fin /\ flow[v][d].got = flow[v][d].sent

\* The permits that are out are those of tasks that still run: every way a visitor
\* or the bulk task can end brings its permit back, once.
Holders == {v \in Visitors : stage[v]["server"] \in {"opening", "heading", "pumping"}}
BudgetExact ==
    permits + Cardinality(Holders)
        + (IF bulk \in {"opening", "heading", "open", "finishing"} THEN 1 ELSE 0) = Streams

\* A connection that is lost ends the tasks on it, at both ends, whichever arm was
\* waiting for what.  The one exception: a pump that has delivered its socket the end
\* has only that socket left to wait for, and no way to notice the loss.
HalfClosed(v, n) == Pumping(v, n) /\ flow[v][In(n)].shut /\ Reading(v, Out(n))
LossEndsTasks ==
    \A v \in Visitors, n \in Nodes :
        [](~conn => <>(stage[v][n] \in {"away", "barred", "refused", "over"} \/ HalfClosed(v, n)))
=============================================================================
