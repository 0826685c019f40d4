--------------------------- MODULE ServerSessions ---------------------------
(***************************************************************************)
(* The sessions of a hawse server (server/session.rs) and the services     *)
(* they bind (server/listener.rs, server/udp/mod.rs): one task per         *)
(* connection, from the first Hello to the closed transport, racing with   *)
(* the sessions of other clients for ports, with a newer session of its    *)
(* own client for the key, with policy reloads and with the shutdown of    *)
(* the server.                                                             *)
(*                                                                         *)
(* Every await of the code ends a step here, and so does every lock that   *)
(* two tasks take, since tokio runs them on several threads.  Timeouts are *)
(* steps that may come at any moment while their wait lasts.  What is on   *)
(* the wire towards the client is the subject of module ControlProtocol.   *)
(***************************************************************************)
EXTENDS PortAllocator, Sequences

CONSTANTS Conns,        \* the connections that clients make
          NoConn,
          Keys,         \* the public keys of the clients
          KeyOf,        \* the key that TLS proved for each connection
          Names,        \* valid names of services
          Policies,     \* what the [clients.*] tables may hold, key by key
          InitPolicy,
          NoGrant,
          NoRequest,
          Asks,         \* the binds that clients ask for
          MaxId,        \* u16::MAX, the last id a session can give a service
          MaxReloads    \* bound on policy reloads

(***************************************************************************)
(* A grant: the fixed ports it allows, and in `terms' its name, address    *)
(* and allow list, which a session only ever compares for equality.        *)
(***************************************************************************)
Grant == (UNION {{p[k] : k \in Keys} : p \in Policies}) \ {NoGrant}

ASSUME PolicyAssumption ==
    \A p \in Policies : DOMAIN p = Keys /\ \A k \in Keys :
        p[k] # NoGrant => /\ DOMAIN p[k] = {"ports", "terms"}
                          /\ p[k].ports \subseteq Port

\* A service a session has bound; `fixed' when its port was asked for by number.
Bound == [name : Names, id : 1..MaxId, port : Port, fixed : BOOLEAN]

\* What a session sends: an answer to its client, or its own end.
Reply == {"answer", "shutdown"}

\* What a client asks for: one port by number, or, with `fixed' false, any of the
\* pool's, and `number' is then the last one tried.
Request == [name : Names, kind : Kinds, number : Numbers, fixed : BOOLEAN]

ASSUME SessionAssumption == /\ NoConn \notin Conns
                            /\ KeyOf \in [Conns -> Keys]
                            /\ NoRequest \notin Request
                            /\ Asks \subseteq Request
                            /\ MaxId \in Nat /\ MaxReloads \in Nat
                            /\ InitPolicy \in Policies

(***************************************************************************)
(* Where a connection is in `run' and `serve'.                             *)
(***************************************************************************)
BeforeClaim == {"absent", "greeting", "lookup", "denied", "staking"}
Waiting     == {"cancelling", "superseding"}
InLoop      == {"serving", "opening", "binding", "freeing", "replying"}
Welcomed    == InLoop \cup {"leaving"}
HoldsClaim  == Waiting \cup {"welcoming"} \cup Welcomed
Ended       == {"dropping", "lingering", "closed"}
Location    == BeforeClaim \cup HoldsClaim \cup Ended
Subscribed  == {"lookup", "staking"} \cup HoldsClaim

VARIABLES policy,       \* Shared.policy: key -> grant
          reloads,      \* how often it was replaced
          sessions,     \* Shared.sessions: key -> the session that holds it
          serverCancel, \* the server's token, parent of every session's
          at,           \* connection -> Location
          conn,         \* connection -> the rest of its task's state
          held,         \* connection -> ports claimed in `open', not yet bound
          tasks,        \* the listener and UDP tasks, each with its socket
          overdue       \* history: keys for which a wait ran out

vars == <<cursor, inUse, policy, reloads, sessions, serverCancel, at, conn,
          held, tasks, overdue>>
portVars == <<cursor, inUse, held, tasks>>
world    == <<policy, reloads, serverCancel>>

Task == [conn : Conns, id : 1..MaxId, port : Port,
         socket : {"open", "stopping", "closed"}]

Given == Seq(1..MaxId)

Conn == [grant     : Grant \cup {NoGrant},
         changed   : BOOLEAN,                \* the policy receiver has news
         previous  : Conns \cup {NoConn},    \* whose `done' it waits for
         cancelled : BOOLEAN,                \* live.cancel, by a superseder
         done      : BOOLEAN,                \* live.done
         services  : SUBSET Bound,
         lastId    : 0..MaxId,
         given     : Given,                  \* history: the ids it gave, in order
         pending   : SUBSET (Names \cup {"shutdown"}),
         reply     : Reply,
         request   : Request \cup {NoRequest}] \* the message in hand

AskedFor(b)  == [name |-> b.name, kind |-> b.port.kind, number |-> b.port.number,
                 fixed |-> b.fixed]
Requested(r) == [number |-> r.number, kind |-> r.kind]

TypeOK == /\ AllocTypeOK
          /\ policy \in Policies
          /\ reloads \in 0..MaxReloads
          /\ sessions \in [Keys -> Conns \cup {NoConn}]
          /\ serverCancel \in BOOLEAN
          /\ at \in [Conns -> Location]
          /\ conn \in [Conns -> Conn]
          /\ held \in [Conns -> SUBSET Port]
          /\ tasks \in SUBSET Task
          /\ overdue \in SUBSET Keys

NewConn == [grant |-> NoGrant, changed |-> FALSE, previous |-> NoConn,
            cancelled |-> FALSE, done |-> FALSE, services |-> {}, lastId |-> 0,
            given |-> <<>>, pending |-> {}, reply |-> "answer", request |-> NoRequest]

Init == /\ AllocInit
        /\ policy = InitPolicy
        /\ reloads = 0
        /\ sessions = [k \in Keys |-> NoConn]
        /\ serverCancel = FALSE
        /\ at = [c \in Conns |-> "absent"]
        /\ conn = [c \in Conns |-> NewConn]
        /\ held = [c \in Conns |-> {}]
        /\ tasks = {}
        /\ overdue = {}

\* Mutant: a session's token that is no child of the server's.
IsCancelled_Unlinked(c) == conn[c].cancelled
\* live.cancel: cancelled by a newer session of the key, or with its parent.
IsCancelled(c) == conn[c].cancelled \/ serverCancel
Goto(c, l)     == at' = [at EXCEPT ![c] = l]
Become(c, r)   == conn' = [conn EXCEPT ![c] = r]

-----------------------------------------------------------------------------
(***************************************************************************)
(* run: from the handshake to the claim on the key.                        *)
(***************************************************************************)
Connect(c) ==
    /\ at[c] = "absent" /\ ~serverCancel
    /\ Goto(c, "greeting")
    /\ UNCHANGED <<portVars, sessions, conn, overdue, world>>

\* No key, no Hello in time, something else than a Hello, or the shutdown.
CloseUngreeted(c) ==
    /\ at[c] = "greeting"
    /\ Goto(c, "closed")
    /\ UNCHANGED <<portVars, sessions, conn, overdue, world>>

\* After the Hello the session subscribes, and only then looks its grant up.
Subscribe(c) ==
    /\ at[c] = "greeting"
    /\ Goto(c, "lookup")
    /\ Become(c, [conn[c] EXCEPT !.changed = FALSE])
    /\ UNCHANGED <<portVars, sessions, overdue, world>>

\* borrow_and_update reads the latest policy and marks it as seen.
LookUp(c) ==
    /\ at[c] = "lookup"
    /\ Become(c, [conn[c] EXCEPT !.changed = FALSE, !.grant = policy[KeyOf[c]]])
    /\ Goto(c, IF policy[KeyOf[c]] = NoGrant THEN "denied" ELSE "staking")
    /\ UNCHANGED <<portVars, sessions, overdue, world>>

\* Denied is sent, or cannot be; the client leaves, the linger or the server ends.
CloseDenied(c) ==
    /\ at[c] = "denied"
    /\ Goto(c, "closed")
    /\ UNCHANGED <<portVars, sessions, conn, overdue, world>>

\* Claim::stake: the newest session of a key replaces the one before it.
Stake(c) ==
    /\ at[c] = "staking"
    /\ Become(c, [conn[c] EXCEPT !.previous = sessions[KeyOf[c]]])
    /\ sessions' = [sessions EXCEPT ![KeyOf[c]] = c]
    /\ Goto(c, IF sessions[KeyOf[c]] = NoConn THEN "welcoming" ELSE "cancelling")
    /\ UNCHANGED <<portVars, overdue, world>>

CancelPrevious(c) ==
    /\ at[c] = "cancelling"
    /\ LET p == conn[c].previous IN Become(p, [conn[p] EXCEPT !.cancelled = TRUE])
    /\ Goto(c, "superseding")
    /\ UNCHANGED <<portVars, sessions, overdue, world>>

\* Mutant: welcomed as soon as the previous session has been told to stop.
PreviousDone_NoWait(c) ==
    /\ at[c] = "superseding"
    /\ Goto(c, "welcoming")
    /\ UNCHANGED <<portVars, sessions, conn, overdue, world>>
PreviousDone(c) ==
    /\ at[c] = "superseding" /\ conn[conn[c].previous].done
    /\ Goto(c, "welcoming")
    /\ UNCHANGED <<portVars, sessions, conn, overdue, world>>

\* SUPERSEDE_WAIT runs out.
SupersedeTimeout(c) ==
    /\ at[c] = "superseding" /\ ~conn[conn[c].previous].done
    /\ Goto(c, "welcoming")
    /\ overdue' = overdue \cup {KeyOf[c]}
    /\ UNCHANGED <<portVars, sessions, conn, world>>

\* Drop for Claim signals `done', and then takes the lock to give the key up.
SignalDone(c) == /\ Become(c, [conn[c] EXCEPT !.done = TRUE])
                 /\ Goto(c, "dropping")

SupersedeShutdown(c) ==
    /\ at[c] = "superseding" /\ serverCancel
    /\ SignalDone(c)
    /\ UNCHANGED <<portVars, sessions, overdue, world>>

Welcome(c) ==
    /\ at[c] = "welcoming"
    /\ Goto(c, "serving")
    /\ UNCHANGED <<portVars, sessions, conn, overdue, world>>

\* Mutant: the early return does not drop the claim.
WelcomeFails_Leaks(c) ==
    /\ at[c] = "welcoming"
    /\ Goto(c, "closed")
    /\ UNCHANGED <<portVars, sessions, conn, overdue, world>>
WelcomeFails(c) ==
    /\ at[c] = "welcoming"
    /\ SignalDone(c)
    /\ UNCHANGED <<portVars, sessions, overdue, world>>

\* Mutant: the claim is dropped without a look at who holds the key.
GiveUpKey_Blind(c) ==
    /\ at[c] = "dropping"
    /\ sessions' = [sessions EXCEPT ![KeyOf[c]] = NoConn]
    /\ Goto(c, "lingering")
    /\ UNCHANGED <<portVars, conn, overdue, world>>
\* The key stays with a newer session that has taken it.
GiveUpKey(c) ==
    /\ at[c] = "dropping"
    /\ sessions' = [sessions EXCEPT ![KeyOf[c]] = IF @ = c THEN NoConn ELSE @]
    /\ Goto(c, "lingering")
    /\ UNCHANGED <<portVars, conn, overdue, world>>

\* A client that was told why is given time to read it, any other none.
CloseTransport(c) ==
    /\ at[c] = "lingering"
    /\ Goto(c, "closed")
    /\ UNCHANGED <<portVars, sessions, conn, overdue, world>>

-----------------------------------------------------------------------------
(***************************************************************************)
(* serve: one turn of the loop picks an arm, and sends what it returned.   *)
(***************************************************************************)
\* unbind_quietly: the services leave the session, their tasks are told to stop.
StopServices(c, bs) ==
    tasks' = {IF t.conn = c /\ t.socket = "open" /\ \E b \in bs : b.id = t.id
                  THEN [t EXCEPT !.socket = "stopping"] ELSE t : t \in tasks}

\* The loop breaks: every service is stopped and the drain begins.
End(c) ==
    /\ StopServices(c, conn[c].services)
    /\ Become(c, [conn[c] EXCEPT !.services = {},
                                 !.pending = {},
                                 !.reply = "answer",
                                 !.request = NoRequest])
    /\ Goto(c, "leaving")
    /\ UNCHANGED <<cursor, inUse, held, sessions, overdue, world>>

\* The arm of mine.cancelled(): superseded, or the server is shutting down.
Stopped(c) == at[c] = "serving" /\ IsCancelled(c) /\ End(c)

\* Nothing heard for PONG_DEADLINE, before a turn or while a reply is sent.
Unresponsive(c) == at[c] \in {"serving", "replying"} /\ End(c)

\* PeerLeft, a malformed frame, or a second Hello.
ControlEnds(c) == at[c] = "serving" /\ conn[c].pending = {} /\ End(c)

SendFails(c) == at[c] = "replying" /\ End(c)

Answer(c, r) == /\ Become(c, [conn[c] EXCEPT !.reply = r, !.request = NoRequest])
                /\ Goto(c, "replying")

\* A ping is due, or the client's Ping is answered.
Chatter(c) ==
    /\ at[c] = "serving"
    /\ Answer(c, "answer")
    /\ UNCHANGED <<portVars, sessions, overdue, world>>

TakePending(c) ==
    /\ at[c] = "serving"
    /\ \E m \in conn[c].pending :
           Become(c, [conn[c] EXCEPT !.pending = @ \ {m},
                                     !.reply = IF m = "shutdown" THEN m ELSE "answer"])
    /\ Goto(c, "replying")
    /\ UNCHANGED <<portVars, sessions, overdue, world>>

\* regrant: what a reload left of the grant, and what to tell the client of it.
Regrant(c) ==
    LET new   == policy[KeyOf[c]]
        lost  == {b \in conn[c].services : b.fixed /\ b.port \notin new.ports}
        stays == new # NoGrant /\ new.terms = conn[c].grant.terms
    IN  /\ at[c] = "serving" /\ conn[c].changed /\ conn[c].pending = {}
        /\ IF stays
             THEN /\ Become(c, [conn[c] EXCEPT !.changed = FALSE,
                                               !.grant = new,
                                               !.services = @ \ lost,
                                               !.pending = {b.name : b \in lost}])
                  /\ StopServices(c, lost)
             ELSE /\ Become(c, [conn[c] EXCEPT !.changed = FALSE,
                                               !.pending = {"shutdown"}])
                  /\ UNCHANGED tasks
        /\ UNCHANGED <<cursor, inUse, held, sessions, at, overdue, world>>

-----------------------------------------------------------------------------
(***************************************************************************)
(* bind and open.  The allocator's lock is taken once for every port tried,*)
(* and the host is asked for the port with the lock released.              *)
(***************************************************************************)
IdsLeft(c) == conn[c].lastId < MaxId
NextId(c)  == conn[c].lastId + 1

\* A bad name, one already bound, or an allow list the grant's excludes; then the
\* ids, of which a session that has used the last can only start over.
Bind(c, r) ==
    /\ at[c] = "serving" /\ conn[c].pending = {}
    /\ \/ Answer(c, "answer")
       \/ /\ \A b \in conn[c].services : b.name # r.name
          /\ IF IdsLeft(c)
                THEN /\ Become(c, [conn[c] EXCEPT !.request = r])
                     /\ Goto(c, "opening")
                ELSE Answer(c, "shutdown")
    /\ UNCHANGED <<portVars, sessions, overdue, world>>

ClaimFixed(c) ==
    LET port == Requested(conn[c].request)
    IN  /\ at[c] = "opening" /\ conn[c].request.fixed
        /\ port \in conn[c].grant.ports
        /\ Claim(port)
        /\ held' = [held EXCEPT ![c] = @ \cup {port}]
        /\ Goto(c, "binding")
        /\ UNCHANGED <<tasks, sessions, conn, overdue, world>>

\* The port the walk stopped at becomes the request's.
ClaimFromPool(c) ==
    /\ at[c] = "opening" /\ ~conn[c].request.fixed
    /\ \E port \in Port :
          /\ ClaimDynamic(conn[c].request.kind, port)
          /\ held' = [held EXCEPT ![c] = @ \cup {port}]
          /\ Become(c, [conn[c] EXCEPT !.request.number = port.number])
    /\ Goto(c, "binding")
    /\ UNCHANGED <<tasks, sessions, overdue, world>>

\* What a failed open gives back.  Mutant: the ports the host refused stay claimed.
GiveBack_None(c) == Release({}) /\ held' = [held EXCEPT ![c] = {}]
GiveBack(c)      == Release(held[c]) /\ held' = [held EXCEPT ![c] = {}]

\* Not granted, taken, or no port left; ports the host refused go back.
OpenFails(c) ==
    LET r == conn[c].request
    IN  /\ at[c] = "opening"
        /\ IF r.fixed THEN \/ Requested(r) \notin conn[c].grant.ports
                           \/ Requested(r) \in inUse
                      ELSE Exhausted(r.kind)
        /\ GiveBack(c)
        /\ Answer(c, "answer")
        /\ UNCHANGED <<tasks, sessions, overdue, world>>

\* The host has the port to itself already: a fixed request fails, a dynamic one
\* walks on, and keeps the port claimed so that the walk ends.
HostRefuses(c) ==
    /\ at[c] = "binding"
    /\ IF conn[c].request.fixed
          THEN /\ GiveBack(c)
               /\ Answer(c, "answer")
          ELSE /\ Goto(c, "opening")
               /\ UNCHANGED <<cursor, inUse, held, conn>>
    /\ UNCHANGED <<tasks, sessions, overdue, world>>

HostBinds(c) ==
    LET r     == conn[c].request
        port  == Requested(r)
        id    == NextId(c)
        bound == [name |-> r.name, id |-> id, port |-> port, fixed |-> r.fixed]
    IN  /\ at[c] = "binding"
        /\ Release(held[c] \ {port})
        /\ held' = [held EXCEPT ![c] = {}]
        /\ tasks' = tasks \cup {[conn |-> c, id |-> id, port |-> port,
                                 socket |-> "open"]}
        /\ Become(c, [conn[c] EXCEPT !.lastId = id,
                                     !.given = Append(@, id),
                                     !.reply = "answer",
                                     !.request = NoRequest,
                                     !.services = @ \cup {bound}])
        /\ Goto(c, "replying")
        /\ UNCHANGED <<sessions, overdue, world>>

-----------------------------------------------------------------------------
\* Unbind stops the service and waits for its port; an unknown name is ignored.
Unbind(c, b) ==
    /\ at[c] = "serving" /\ conn[c].pending = {} /\ b \in conn[c].services
    /\ StopServices(c, {b})
    /\ Become(c, [conn[c] EXCEPT !.services = @ \ {b},
                                 !.request = AskedFor(b)])
    /\ Goto(c, "freeing")
    /\ UNCHANGED <<cursor, inUse, held, sessions, overdue, world>>

\* Mutant: the next message is read at once.
Freed_AtOnce(c) ==
    /\ at[c] = "freeing"
    /\ Become(c, [conn[c] EXCEPT !.request = NoRequest])
    /\ Goto(c, "serving")
    /\ UNCHANGED <<portVars, sessions, overdue, world>>
\* Mutant: the ids start over once the last service is gone.
Freed_StartsOver(c) ==
    /\ at[c] = "freeing"
    /\ overdue' = IF Requested(conn[c].request) \notin inUse THEN overdue
                  ELSE overdue \cup {KeyOf[c]}
    /\ Become(c, [conn[c] EXCEPT !.request = NoRequest,
                                 !.lastId = IF conn[c].services = {} THEN 0 ELSE @])
    /\ Goto(c, "serving")
    /\ UNCHANGED <<portVars, sessions, world>>
\* freed: the port came free, or UNBIND_WAIT is over.
Freed(c) ==
    LET gone == Requested(conn[c].request) \notin inUse
    IN  /\ at[c] = "freeing"
        /\ overdue' = IF gone THEN overdue ELSE overdue \cup {KeyOf[c]}
        /\ Become(c, [conn[c] EXCEPT !.request = NoRequest])
        /\ Goto(c, "serving")
        /\ UNCHANGED <<portVars, sessions, world>>

\* Mutant: the loop goes on after a Shutdown it has sent.
SendReply_GoesOn(c) ==
    /\ at[c] = "replying"
    /\ Become(c, [conn[c] EXCEPT !.reply = "answer"])
    /\ Goto(c, "serving")
    /\ UNCHANGED <<portVars, sessions, overdue, world>>
\* A Shutdown that was sent ends the session, its client told.
SendReply(c) ==
    /\ at[c] = "replying"
    /\ \/ conn[c].reply = "shutdown" /\ End(c)
       \/ /\ conn[c].reply = "answer"
          /\ Goto(c, "serving")
          /\ UNCHANGED <<portVars, sessions, conn, overdue, world>>

\* A stop that wins against the send drops the reply, and is taken next turn.
ReplyOvertaken(c) ==
    /\ at[c] = "replying" /\ IsCancelled(c)
    /\ Become(c, [conn[c] EXCEPT !.reply = "answer"])
    /\ Goto(c, "serving")
    /\ UNCHANGED <<portVars, sessions, overdue, world>>

\* leave: the tasks of the session end, or the drain is over before they do.
Leave(c) ==
    LET left == {t \in tasks : t.conn = c}
    IN  /\ at[c] = "leaving"
        /\ SignalDone(c)
        /\ overdue' = IF left = {} THEN overdue ELSE overdue \cup {KeyOf[c]}
        /\ UNCHANGED <<portVars, sessions, world>>

\* Mutant: `done' fires before the services are told to stop.
Unwind_DoneFirst(c) ==
    /\ at[c] \in {"serving", "freeing", "replying"}
    /\ SignalDone(c)
    /\ overdue' = overdue \cup {KeyOf[c]}
    /\ UNCHANGED <<portVars, sessions, world>>
\* A panic in the loop: dropping the services stops them, and then `done' fires.
Unwind(c) ==
    /\ at[c] \in {"serving", "freeing", "replying"}
    /\ StopServices(c, conn[c].services)
    /\ Become(c, [conn[c] EXCEPT !.services = {}, !.done = TRUE])
    /\ Goto(c, "dropping")
    /\ overdue' = overdue \cup {KeyOf[c]}
    /\ UNCHANGED <<cursor, inUse, held, sessions, world>>

-----------------------------------------------------------------------------
(***************************************************************************)
(* The tasks of the services, the operator's reload and the shutdown.      *)
(***************************************************************************)
\* Mutant: the port is released with its socket still open.
CloseSocket_Released(t) ==
    /\ t.socket = "stopping"
    /\ Release({t.port})
    /\ tasks' = (tasks \ {t}) \cup {[t EXCEPT !.socket = "closed"]}
    /\ UNCHANGED <<held, sessions, at, conn, overdue, world>>
\* A stopped task drops its socket, and then releases the port.
CloseSocket(t) ==
    /\ t.socket = "stopping"
    /\ tasks' = (tasks \ {t}) \cup {[t EXCEPT !.socket = "closed"]}
    /\ UNCHANGED <<cursor, inUse, held, sessions, at, conn, overdue, world>>

ReleasePort(t) ==
    /\ t.socket = "closed"
    /\ Release({t.port})
    /\ tasks' = tasks \ {t}
    /\ UNCHANGED <<held, sessions, at, conn, overdue, world>>

\* The receivers of a reload.  Mutant: sessions subscribe once they serve.
Notified_Late(c) == at[c] \in InLoop
Notified(c)      == at[c] \in Subscribed

\* send_replace: every receiver has news, whether its own grant changed or not.
Reload(p) ==
    /\ reloads < MaxReloads /\ ~serverCancel
    /\ policy' = p
    /\ reloads' = reloads + 1
    /\ conn' = [c \in Conns |-> [conn[c] EXCEPT !.changed = @ \/ Notified(c)]]
    /\ UNCHANGED <<portVars, sessions, serverCancel, at, overdue>>

ShutDown ==
    /\ ~serverCancel
    /\ serverCancel' = TRUE
    /\ UNCHANGED <<portVars, policy, reloads, sessions, at, conn, overdue>>

\* Nothing is left to do: the server is down and every task has ended.
Finished ==
    /\ serverCancel /\ tasks = {}
    /\ \A c \in Conns : at[c] \in {"absent", "closed"}
    /\ UNCHANGED vars

-----------------------------------------------------------------------------
Greet(c) == Subscribe(c) \/ LookUp(c) \/ Stake(c) \/ CancelPrevious(c)
Settle(c) == PreviousDone(c) \/ SupersedeShutdown(c) \/ Welcome(c) \/ WelcomeFails(c)
Close(c) == CloseUngreeted(c) \/ CloseDenied(c) \/ GiveUpKey(c) \/ CloseTransport(c)
Open(c)  == ClaimFixed(c) \/ ClaimFromPool(c) \/ OpenFails(c) \/ HostRefuses(c)
            \/ HostBinds(c)
Hear(c)  == \/ Chatter(c)
            \/ \E r \in Asks : Bind(c, r)
            \/ \E b \in conn[c].services : Unbind(c, b)
Break(c) == Unresponsive(c) \/ ControlEnds(c) \/ SendFails(c) \/ Unwind(c)
Turn(c)  == TakePending(c) \/ Freed(c) \/ SendReply(c) \/ ReplyOvertaken(c) \/ Leave(c)

Next == \/ \E c \in Conns : \/ Connect(c) \/ Greet(c) \/ Close(c)
                            \/ Settle(c) \/ SupersedeTimeout(c)
                            \/ Hear(c) \/ Open(c) \/ Break(c) \/ Turn(c)
                            \/ Stopped(c) \/ Regrant(c)
        \/ \E t \in tasks : CloseSocket(t) \/ ReleasePort(t)
        \/ \E p \in Policies : Reload(p)
        \/ ShutDown
        \/ Finished

(***************************************************************************)
(* Every task is scheduled and every timeout fires.  The arms of a select  *)
(* are polled in random order, so an arm that is ready in every turn is    *)
(* taken in one of them: strong fairness for the three that the client's   *)
(* messages compete with.  Nothing obliges a client to speak or to leave,  *)
(* and SUPERSEDE_WAIT is not relied on: the previous session does end.     *)
(***************************************************************************)
Fairness ==
    /\ \A c \in Conns : /\ WF_vars(Greet(c)) /\ WF_vars(Settle(c))
                        /\ WF_vars(Close(c)) /\ WF_vars(Open(c))
                        /\ WF_vars(Turn(c))
                        /\ SF_vars(Stopped(c)) /\ SF_vars(Regrant(c))
                        /\ SF_vars(TakePending(c))
    /\ WF_vars(\E t \in tasks : CloseSocket(t) \/ ReleasePort(t))

Spec == Init /\ [][Next]_vars
FairSpec == Spec /\ Fairness

-----------------------------------------------------------------------------
(***************************************************************************)
(* Safety.                                                                 *)
(***************************************************************************)
TasksOf(c)  == {t \in tasks : t.conn = c}
PortsOf(ts) == {t.port : t \in ts}

\* A public port has one owner: no two tasks have the same port, whatever sessions
\* they belong to, until the socket of the first is closed and its claim released;
\* and none has the listen port of the server itself.
PortExclusive ==
    /\ \A t, u \in tasks : t.port = u.port => t = u
    /\ \A t \in tasks : t.port \notin Reserved

\* The allocator neither leaks a port nor forgets one: what it calls in use is the
\* listen port, the ports of the tasks, and those a bind is trying right now.
AllocatorExact ==
    inUse = Reserved \cup PortsOf(tasks) \cup UNION {held[c] : c \in Conns}

\* A key has one session: every session with a claim is the one the map names, or
\* has been told to stop, or is about to be by the session that replaced it.  And the
\* map never names a session that is gone, or one of another key: the next session
\* would wait for it in vain.
OneSessionPerKey ==
    /\ \A c \in Conns : at[c] \in HoldsClaim =>
           \/ sessions[KeyOf[c]] = c
           \/ conn[c].cancelled
           \/ \E d \in Conns : at[d] = "cancelling" /\ conn[d].previous = c
    /\ \A k \in Keys : sessions[k] # NoConn =>
           /\ KeyOf[sessions[k]] = k
           /\ at[sessions[k]] \in HoldsClaim \cup {"dropping"}

\* When `done' is signalled, on any way out and even on a panic, no service of the
\* session still takes visitors.
DoneMeansStopped ==
    \A c \in Conns : conn[c].done => \A t \in TasksOf(c) : t.socket # "open"

\* A client that comes back finds the ports of its last session free: once it is
\* welcomed, no other task of its key is left, unless a wait ran out or the server
\* is going down.
WelcomeFindsPortsFree ==
    \A c \in Conns : at[c] \in Welcomed =>
        \/ serverCancel \/ KeyOf[c] \in overdue
        \/ \A t \in tasks : KeyOf[t.conn] = KeyOf[c] => t.conn = c

\* A client that changes a service (Unbind, then Bind of the same port) is not
\* refused because of its own old listener, unless a wait ran out or a reload took
\* the service away.
RebindFindsPortFree ==
    \A c \in Conns : at[c] = "opening" =>
        \/ KeyOf[c] \in overdue \/ reloads > 0 \/ serverCancel
        \/ \A t \in TasksOf(c) : t.port = Requested(conn[c].request)
                                    => t.socket = "open"

\* A session that has taken up the last reload holds no fixed port the policy does
\* not grant, and serves under the terms the policy now has; one that cannot has
\* its own end to send.
GrantHonoured ==
    \A c \in Conns : at[c] \in InLoop /\ ~conn[c].changed =>
        \/ "shutdown" \in conn[c].pending \/ conn[c].reply = "shutdown"
        \/ IsCancelled(c)
        \/ /\ conn[c].grant = policy[KeyOf[c]]
           /\ \A b \in conn[c].services : b.fixed => b.port \in conn[c].grant.ports

\* A session never gives an id twice, so that one names one service for as long as the
\* session lasts, after the service and its task are gone too (last_id in session.rs);
\* its tasks, those that linger included, have different ids, and each bound service
\* has its running task.
IdsNameOneService ==
    /\ \A c \in Conns : \A i, j \in DOMAIN conn[c].given :
           conn[c].given[i] = conn[c].given[j] => i = j
    /\ \A t, u \in tasks : t.conn = u.conn /\ t.id = u.id => t = u
    /\ \A c \in Conns : \A b \in conn[c].services :
           [conn |-> c, id |-> b.id, port |-> b.port, socket |-> "open"] \in tasks

(***************************************************************************)
(* Liveness.                                                               *)
(***************************************************************************)
\* A shutdown ends every session and gives every port back; and a session that was
\* superseded lets go of its key and its ports.
ShutdownCompletes ==
    /\ serverCancel ~> /\ \A c \in Conns : at[c] \in {"absent", "closed"}
                       /\ inUse = Reserved
    /\ \A c \in Conns : conn[c].cancelled ~> conn[c].done

\* A client that the policy knows is welcomed or told off, however many sessions of
\* its key are in the way: no session waits forever for the one before it.
ClaimSettles ==
    \A c \in Conns : at[c] \in Waiting ~> at[c] \in Welcomed \cup Ended

\* A key taken out of the policy for good ends up with no port open.
RevocationReaches ==
    \A k \in Keys :
        <>[](policy[k] = NoGrant) =>
            <>[](\A t \in tasks : KeyOf[t.conn] # k)
=============================================================================
