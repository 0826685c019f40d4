------------------------------ MODULE UdpLocal ------------------------------
(***************************************************************************)
(* One UDP service on the client (client/udp.rs): its entry in the         *)
(* registry, its sessions towards the local service, one socket and one    *)
(* reader task each, and the two tasks that deliver the server's packets,  *)
(* `demux' off the datagrams and `serve_bulk' off the stream.              *)
(*                                                                         *)
(* The map of sessions is behind a mutex, which no task holds across an    *)
(* await: every lock is one step, and what a task does between two locks   *)
(* is a step too.  A session is a handle (an Arc): the map, its reader and *)
(* a deliverer may each hold one.                                          *)
(***************************************************************************)
EXTENDS Integers, FiniteSets

CONSTANTS Ids,          \* session ids, which the server chooses
          NoId,
          Cap,          \* SESSION_CAP
          Idle,         \* IDLE, in ticks
          MaxNow,       \* bound on the clock
          MaxPackets    \* bound on the server's packets, and so on sessions

Tasks   == {"demux", "bulk"}
Handles == 1..MaxPackets
None    == 0

ASSUME UdpAssumption == /\ NoId \notin Ids
                        /\ Cap \in Nat \ {0} /\ Idle \in Nat \ {0}
                        /\ MaxNow \in Nat /\ MaxPackets \in Nat

VARIABLES
    now,
    service,    \* the registry's entry and the service's token
    notified,   \* whether the bulk task's Notified has been woken
    packets,    \* packets the server has sent
    at,         \* where each delivering task is
    wants,      \* the session id of the packet it has in hand
    holds,      \* the handle it holds
    sessions,   \* the map: id -> handle
    handle      \* handle -> session

vars == <<now, service, notified, packets, at, wants, holds, sessions, handle>>

(***************************************************************************)
(* The service from Bound to its end: inserted before its waiters are      *)
(* notified; removed before it is cancelled if it is unbound, cancelled    *)
(* before the registry is cleared if the session ends.                     *)
(***************************************************************************)
Registered == service \in {"inserted", "bound", "stopped"}
Cancelled  == service \in {"stopped", "gone"}

\* wait_for, and then deliver.
Waiting  == {"unopened", "looking", "missed", "asleep"}
Location == Waiting \cup {"idle", "locking", "connecting", "spawning", "touching",
                          "sending", "ended"}

Reader  == {"none", "running", "checking", "forgetting", "expired", "gone"}
Session == [id : Ids \cup {NoId}, used : 0..MaxNow, expires : 0..(MaxNow + Idle),
            cancelled : BOOLEAN, reader : Reader]
Unused  == [id |-> NoId, used |-> 0, expires |-> 0, cancelled |-> FALSE,
            reader |-> "none"]

TypeOK == /\ now \in 0..MaxNow /\ packets \in 0..MaxPackets
          /\ service \in {"unbound", "inserted", "bound", "removed", "stopped", "gone"}
          /\ notified \in BOOLEAN
          /\ at \in [Tasks -> Location]
          /\ wants \in [Tasks -> Ids \cup {NoId}]
          /\ holds \in [Tasks -> Handles \cup {None}]
          /\ sessions \in [Ids -> Handles \cup {None}]
          /\ handle \in [Handles -> Session]

Init == /\ now = 0 /\ packets = 0
        /\ service = "unbound" /\ notified = FALSE
        /\ at = [d \in Tasks |-> IF d = "bulk" THEN "unopened" ELSE "idle"]
        /\ wants = [d \in Tasks |-> NoId]
        /\ holds = [d \in Tasks |-> None]
        /\ sessions = [i \in Ids |-> None]
        /\ handle = [h \in Handles |-> Unused]

Held      == {i \in Ids : sessions[i] # None}
InMap(h)  == \E i \in Ids : sessions[i] = h
Goto(d, l) == at' = [at EXCEPT ![d] = l]
\* Mutant: a session's token is not the service's child.
Stopped_Own(h) == handle[h].cancelled
\* session.cancel, by an eviction or with the service's token.
Stopped(h)     == handle[h].cancelled \/ Cancelled

-----------------------------------------------------------------------------
(***************************************************************************)
(* The registry, and the bulk task that waits in it for its service.       *)
(***************************************************************************)
Insert ==
    /\ service = "unbound"
    /\ service' = "inserted"
    /\ UNCHANGED <<now, notified, packets, at, wants, holds, sessions, handle>>

NotifyWaiters ==
    /\ service = "inserted"
    /\ service' = "bound"
    /\ notified' = (at["bulk"] \in {"looking", "missed", "asleep"} \/ notified)
    /\ UNCHANGED <<now, packets, at, wants, holds, sessions, handle>>

\* An unbind takes the service out of the registry, and cancels it then; the end of
\* the session cancels it, and clears the registry then.
Unregister ==
    /\ \/ service = "bound" /\ service' \in {"removed", "stopped"}
       \/ service \in {"removed", "stopped"} /\ service' = "gone"
    /\ UNCHANGED <<now, notified, packets, at, wants, holds, sessions, handle>>

\* The stream may come before Bound.  A Notified is made, and then the lookup.
Enlist ==
    /\ at["bulk"] = "unopened" \/ (at["bulk"] = "asleep" /\ notified)
    /\ Goto("bulk", "looking")
    /\ notified' = FALSE
    /\ UNCHANGED <<now, service, packets, wants, holds, sessions, handle>>

FindService ==
    /\ at["bulk"] = "looking"
    /\ Goto("bulk", IF Registered THEN "idle" ELSE "missed")
    /\ UNCHANGED <<now, service, notified, packets, wants, holds, sessions, handle>>

\* Mutant: the Notified is made after the lookup.
Sleep_Late ==
    /\ at["bulk"] = "missed"
    /\ Goto("bulk", "asleep")
    /\ notified' = FALSE
    /\ UNCHANGED <<now, service, packets, wants, holds, sessions, handle>>
Sleep ==
    /\ at["bulk"] = "missed"
    /\ Goto("bulk", "asleep")
    /\ UNCHANGED <<now, service, notified, packets, wants, holds, sessions, handle>>

\* BOUND_WAIT is over: the stream is refused.
NeverBound ==
    /\ at["bulk"] \in {"missed", "asleep"}
    /\ Goto("bulk", "ended")
    /\ UNCHANGED <<now, service, notified, packets, wants, holds, sessions, handle>>

\* The select drops what the bulk task was waiting for, or the stream ends; demux
\* ends with the transport.
EndDelivery(d) ==
    /\ \/ d = "bulk" /\ at[d] \in {"idle", "connecting", "sending"}
       \/ d = "demux" /\ at[d] = "idle" /\ Cancelled
    /\ Goto(d, "ended")
    /\ wants' = [wants EXCEPT ![d] = NoId]
    /\ holds' = [holds EXCEPT ![d] = None]
    /\ UNCHANGED <<now, service, notified, packets, sessions, handle>>

-----------------------------------------------------------------------------
(***************************************************************************)
(* deliver.                                                                *)
(***************************************************************************)
Arrive(d, i) ==
    /\ at[d] = "idle" /\ packets < MaxPackets
    /\ d = "demux" => Registered
    /\ packets' = packets + 1
    /\ Goto(d, "locking")
    /\ wants' = [wants EXCEPT ![d] = i]
    /\ UNCHANGED <<now, service, notified, holds, sessions, handle>>

LookUp(d) ==
    LET h == sessions[wants[d]]
    IN  /\ at[d] = "locking"
        /\ Goto(d, IF h = None THEN "connecting" ELSE "touching")
        /\ holds' = [holds EXCEPT ![d] = h]
        /\ UNCHANGED <<now, service, notified, packets, wants, sessions, handle>>

\* No socket to be had: the packet is dropped.
ConnectFails(d) ==
    /\ at[d] = "connecting"
    /\ Goto(d, "idle")
    /\ wants' = [wants EXCEPT ![d] = NoId]
    /\ UNCHANGED <<now, service, notified, packets, holds, sessions, handle>>

Full(i) == Cardinality(Held) >= Cap /\ sessions[i] = None

\* quietest: any of the sessions used longest ago.
Quietest == {i \in Held : \A j \in Held :
                 handle[sessions[i]].used <= handle[sessions[j]].used}

\* Another task opened the session while this one connected its socket.
FindOpened(d) ==
    /\ at[d] = "connecting" /\ sessions[wants[d]] # None
    /\ holds' = [holds EXCEPT ![d] = sessions[wants[d]]]
    /\ Goto(d, "touching")
    /\ UNCHANGED <<now, service, notified, packets, wants, sessions, handle>>

\* The handle this insert makes: one that no insert made before.
Fresh(h) == handle[h].id = NoId /\ \A g \in Handles : g < h => handle[g].id # NoId
Opened(i) == [id |-> i, used |-> now, expires |-> now + Idle, cancelled |-> FALSE,
              reader |-> "none"]

Vacant(i) == sessions[i] = None

\* The eviction, at the cap, and the insert are under one lock; the reader is
\* spawned after it.
OpenSession(d) ==
    /\ at[d] = "connecting" /\ Vacant(wants[d])
    /\ \E h \in Handles : \E gone \in IF Full(wants[d]) THEN Quietest ELSE {NoId} :
          /\ Fresh(h)
          /\ sessions' = [i \in Ids |-> CASE i = wants[d] -> h
                                          [] i = gone     -> None
                                          [] OTHER        -> sessions[i]]
          /\ handle' = [g \in Handles |->
                CASE g = h -> Opened(wants[d])
                  [] gone # NoId /\ g = sessions[gone] -> [handle[g] EXCEPT !.cancelled = TRUE]
                  [] OTHER -> handle[g]]
          /\ holds' = [holds EXCEPT ![d] = h]
    /\ Goto(d, "spawning")
    /\ UNCHANGED <<now, service, notified, packets, wants>>

SpawnReader(d) ==
    /\ at[d] = "spawning"
    /\ handle' = [handle EXCEPT ![holds[d]] = [@ EXCEPT !.reader = "running"]]
    /\ Goto(d, "touching")
    /\ UNCHANGED <<now, service, notified, packets, wants, holds, sessions>>

Touch(d) ==
    /\ at[d] = "touching"
    /\ handle' = [handle EXCEPT ![holds[d]] = [@ EXCEPT !.used = now]]
    /\ Goto(d, "sending")
    /\ UNCHANGED <<now, service, notified, packets, wants, holds, sessions>>

\* The packet is on its way to the local service, or its socket refused it.
Send(d) ==
    /\ at[d] = "sending"
    /\ Goto(d, "idle")
    /\ wants' = [wants EXCEPT ![d] = NoId]
    /\ holds' = [holds EXCEPT ![d] = None]
    /\ UNCHANGED <<now, service, notified, packets, sessions, handle>>

-----------------------------------------------------------------------------
(***************************************************************************)
(* read_replies.                                                           *)
(***************************************************************************)
ReaderGoes(h, l) == handle' = [handle EXCEPT ![h] = [@ EXCEPT !.reader = l]]

\* Mutant: whoever holds the id is forgotten.
Forget_Blind(h) == sessions' = [sessions EXCEPT ![handle[h].id] = None]
\* forget: only while the id is still this session's.
Forget(h) == sessions' = [sessions EXCEPT ![handle[h].id] = IF @ = h THEN None ELSE @]

\* The local service answers: the reply goes to the server, and the loop starts over.
Reply(h) ==
    /\ handle[h].reader = "running"
    /\ handle' = [handle EXCEPT ![h] = [@ EXCEPT !.used = now, !.expires = now + Idle]]
    /\ UNCHANGED <<now, service, notified, packets, at, wants, holds, sessions>>

\* Cancelled, or a socket error that a refused datagram does not explain.
ReaderBreaks(h) ==
    /\ handle[h].reader = "running"
    /\ ReaderGoes(h, "forgetting")
    /\ UNCHANGED <<now, service, notified, packets, at, wants, holds, sessions>>

ReaderCancelled(h) == Stopped(h) /\ ReaderBreaks(h)

ReaderForgets(h) ==
    /\ handle[h].reader = "forgetting"
    /\ Forget(h)
    /\ ReaderGoes(h, "gone")
    /\ UNCHANGED <<now, service, notified, packets, at, wants, holds>>

\* sleep_until the time the loop worked out when it started over.
ReaderWakes(h) ==
    /\ handle[h].reader = "running" /\ handle[h].expires <= now
    /\ ReaderGoes(h, "checking")
    /\ UNCHANGED <<now, service, notified, packets, at, wants, holds, sessions>>

IsIdle(h) == handle[h].used + Idle <= now

\* Under the lock: still idle and forgotten, or used since.
Recheck(h) ==
    /\ handle[h].reader = "checking"
    /\ \/ IsIdle(h) /\ Forget(h) /\ ReaderGoes(h, "expired")
       \/ /\ ~IsIdle(h)
          /\ handle' = [handle EXCEPT ![h] = [@ EXCEPT !.reader = "running",
                                                       !.expires = handle[h].used + Idle]]
          /\ UNCHANGED sessions
    /\ UNCHANGED <<now, service, notified, packets, at, wants, holds>>

\* A tick is a fraction of a minute: no task spends one between two awaits.
Between == \/ \E d \in Tasks : at[d] \in {"locking", "spawning", "touching"}
           \/ \E h \in Handles : handle[h].reader \in {"checking", "forgetting"}

Tick ==
    /\ now < MaxNow /\ ~Between
    /\ now' = now + 1
    /\ UNCHANGED <<service, notified, packets, at, wants, holds, sessions, handle>>

-----------------------------------------------------------------------------
\* A handle still counts as an open session in the service's meter.
Open(h) == \/ InMap(h)
           \/ handle[h].reader \in {"running", "checking", "forgetting"}
           \/ \E d \in Tasks : holds[d] = h

\* The service is over and so are its tasks.
Finished ==
    /\ service = "gone" /\ \A h \in Handles : ~Open(h)
    /\ at["bulk"] \in {"unopened", "ended"} /\ at["demux"] = "ended"
    /\ UNCHANGED vars

Deliver(d) == \/ LookUp(d) \/ ConnectFails(d) \/ FindOpened(d) \/ OpenSession(d)
              \/ SpawnReader(d) \/ Touch(d) \/ Send(d)
Read(h)    == ReaderCancelled(h) \/ ReaderForgets(h) \/ ReaderWakes(h) \/ Recheck(h)

Next == \/ Insert \/ NotifyWaiters \/ Unregister
        \/ Enlist \/ FindService \/ Sleep \/ NeverBound
        \/ \E d \in Tasks : EndDelivery(d) \/ Deliver(d) \/ \E i \in Ids : Arrive(d, i)
        \/ \E h \in Handles : Read(h) \/ Reply(h) \/ ReaderBreaks(h)
        \/ Tick
        \/ Finished

(***************************************************************************)
(* Every task is scheduled, and a cancelled arm is taken in spite of a     *)
(* local service that always has a reply ready, since select polls its     *)
(* arms in random order.  The clock, the server and the local service are  *)
(* free to do nothing.                                                     *)
(***************************************************************************)
Spec == Init /\ [][Next]_vars
Fairness == /\ \A d \in Tasks : WF_vars(Deliver(d))
            /\ \A h \in Handles : WF_vars(Read(h)) /\ SF_vars(ReaderCancelled(h))
FairSpec == Spec /\ Fairness

-----------------------------------------------------------------------------
(***************************************************************************)
(* Properties.                                                             *)
(***************************************************************************)
\* The map and the readers belong together.  Every session in the map has a reader to
\* take it out again, or the task that put it there is about to spawn one: an id is
\* never stuck with a dead socket.  And a reader that goes on reading belongs to the
\* session the map has for its id, unless it is being stopped: no visitor has two
\* sockets towards the local service.  So the cap on the map, with two tasks opening
\* sessions, bounds the sockets.
MapAndReaders ==
    /\ Cardinality(Held) <= Cap
    /\ \A i \in Ids : sessions[i] # None =>
           \/ handle[sessions[i]].reader \in {"running", "checking", "forgetting"}
           \/ \E d \in Tasks : at[d] = "spawning" /\ holds[d] = sessions[i]
    /\ \A h \in Handles : handle[h].reader \in {"running", "checking"} =>
           sessions[handle[h].id] = h \/ Stopped(h)

\* A bulk stream that waits for its service is woken by the Bound that registers it,
\* wherever that falls between the lookup and the wait.
NoLostWakeup ==
    at["bulk"] = "asleep" /\ service = "bound" => notified

\* The end of the service ends its sessions: no reader, socket or count of an open
\* visitor outlives it, one that was opened meanwhile included.
Drains == [](Cancelled => <>[](\A h \in Handles : ~Open(h)))

\* What the comment on the expiry says: a packet that `deliver' sends on a session it
\* took from the map, and has just touched, does not find its session expired: its
\* reply would be lost.
TouchedHasReader ==
    \A d \in Tasks :
        at[d] = "sending" /\ handle[holds[d]].used = now /\ ~Stopped(holds[d])
            => handle[holds[d]].reader # "expired"
=============================================================================
