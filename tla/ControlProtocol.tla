-------------------------- MODULE ControlProtocol --------------------------
(***************************************************************************)
(* The control stream between one client (client/mod.rs) and its session   *)
(* on the server (server/session.rs): the client asks for its services to  *)
(* be bound and unbound, the server answers in order, and either end may   *)
(* have its configuration reloaded at any moment.  Nothing on the wire     *)
(* says which bind an answer is for: the client counts.                    *)
(*                                                                         *)
(* The stream is ordered and reliable while the session lasts, and what is *)
(* in it is lost when the session ends.  Pings are left out: they hold up  *)
(* nothing and change nothing but the deadline that may end the session.   *)
(***************************************************************************)
EXTENDS Integers, Sequences, SequencesExt, FiniteSets

CONSTANTS Services,         \* names of services
          Settings,         \* what an [expose.*] table may say: port, allow list...
          Absent,           \* no such table
          InitExpose, InitPolicy,
          MaxId,            \* u16::MAX, the last id of a session
          MaxReexposes,     \* bound on reloads of the client
          MaxRegrants,      \* bound on reloads of the server
          MaxSessions       \* bound on sessions, the first included

Expose == [Services -> Settings \cup {Absent}]
NoId   == 0

ASSUME ProtocolAssumption == /\ Absent \notin Settings /\ IsFiniteSet(Services)
                             /\ InitExpose \in Expose
                             /\ InitPolicy \in SUBSET Settings
                             /\ MaxId \in Nat /\ MaxReexposes \in Nat
                             /\ MaxRegrants \in Nat /\ MaxSessions \in Nat

VARIABLES
    \* the client's configuration, and whether its session has yet to read it
    wanted, unread, reexposes,
    \* the client's session: Services, what it has yet to send, and the map from the
    \* ids of services to what they forward to, which outlives the session
    link, exposed, ids, failed, unanswered, pending, targets,
    \* the control stream
    toServer, toClient,
    \* the server's session: the settings it may bind, the id of each bound service,
    \* the settings each id was bound with, what a reload left to tell the client
    grant, bound, given, lastId, lost,
    \* what the server's policy grants, and whether the session has yet to take it up
    policy, changed, regrants,
    \* bound on sessions; history: services for which the count once ran short
    started, miscounted

config     == <<wanted, reexposes>>
clientVars == <<exposed, ids, failed, unanswered, pending, targets, miscounted>>
serverVars == <<grant, bound, given, lastId, lost>>
policyVars == <<policy, regrants>>
vars == <<config, unread, link, clientVars, toServer, toClient, serverVars,
          policyVars, changed, started>>

Asking    == [op : {"bind"}, service : Services, settings : Settings]
             \cup [op : {"unbind"}, service : Services]
\* `asked' is not on the wire: it marks the BindFailed that a reload sends unasked.
Answering == [op : {"bound"}, service : Services, id : 1..MaxId]
             \cup [op : {"failed"}, service : Services, asked : BOOLEAN]

TypeOK ==
    /\ wanted \in Expose /\ exposed \in Expose
    /\ unread \in BOOLEAN /\ changed \in BOOLEAN
    /\ link \in {"down", "greeting", "up"}
    /\ ids \in [Services -> 0..MaxId] /\ bound \in [Services -> 0..MaxId]
    /\ failed \in SUBSET Services /\ lost \in SUBSET Services
    /\ miscounted \in SUBSET Services
    /\ unanswered \in [Services -> Nat]
    /\ pending \in Seq(Asking) /\ toServer \in Seq(Asking)
    /\ toClient \in Seq(Answering)
    /\ targets \in [1..MaxId -> Settings \cup {Absent}]
    /\ given \in [1..MaxId -> Settings \cup {Absent}]
    /\ lastId \in 0..MaxId
    /\ grant \in SUBSET Settings /\ policy \in SUBSET Settings
    /\ reexposes \in 0..MaxReexposes /\ regrants \in 0..MaxRegrants
    /\ started \in 0..MaxSessions

NoIds     == [s \in Services |-> NoId]
NoTargets == [i \in 1..MaxId |-> Absent]

Init == /\ wanted = InitExpose /\ unread = FALSE /\ reexposes = 0
        /\ link = "down" /\ started = 0
        /\ exposed = InitExpose /\ ids = NoIds /\ failed = {}
        /\ unanswered = [s \in Services |-> 0]
        /\ pending = <<>> /\ targets = NoTargets /\ miscounted = {}
        /\ toServer = <<>> /\ toClient = <<>>
        /\ bound = NoIds /\ given = NoTargets /\ lastId = 0 /\ lost = {}
        /\ grant = InitPolicy /\ policy = InitPolicy /\ changed = FALSE /\ regrants = 0

-----------------------------------------------------------------------------
(***************************************************************************)
(* The session from the dial to its end.                                   *)
(***************************************************************************)
Bind(s, e)  == [op |-> "bind", service |-> s, settings |-> e]
Unbind(s)   == [op |-> "unbind", service |-> s]
Listed(e)   == {s \in Services : e[s] # Absent}
\* The tables of a BTreeMap come in one order.
InOrder(ss) == SetToSeq(ss)

\* Services::new: the configuration as it is now, each of its binds unanswered.  The
\* server reads the Hello, subscribes to its policy and looks the grant up.
Dial ==
    /\ link = "down" /\ started < MaxSessions
    /\ link' = "greeting"
    /\ started' = started + 1
    /\ unread' = FALSE
    /\ exposed' = wanted
    /\ unanswered' = [s \in Services |-> IF wanted[s] # Absent THEN 1 ELSE 0]
    /\ ids' = NoIds /\ failed' = {} /\ pending' = <<>> /\ miscounted' = {}
    /\ grant' = policy /\ changed' = FALSE
    /\ UNCHANGED <<config, targets, toServer, toClient, bound, given, lastId, lost,
                   policyVars>>

\* The welcome is followed by a bind for each service; then the targets are cleared,
\* and the loop begins.
Welcomed ==
    /\ link = "greeting"
    /\ link' = "up"
    /\ LET asks == InOrder(Listed(exposed))
       IN  toServer' = [i \in 1..Len(asks) |-> Bind(asks[i], exposed[asks[i]])]
    /\ targets' = NoTargets
    /\ UNCHANGED <<config, unread, exposed, ids, failed, unanswered, pending,
                   miscounted, toClient, serverVars, policyVars, changed, started>>

\* Either end stops, or the link dies; the server's session starts over next time.
SessionEnds ==
    /\ link # "down"
    /\ link' = "down"
    /\ toServer' = <<>> /\ toClient' = <<>>
    /\ bound' = NoIds /\ given' = NoTargets /\ lastId' = 0 /\ lost' = {}
    /\ UNCHANGED <<config, unread, clientVars, grant, policyVars, changed, started>>

-----------------------------------------------------------------------------
(***************************************************************************)
(* The client's loop.                                                      *)
(***************************************************************************)
\* rebind: what is gone, changed or was refused is unbound; what is new, changed or
\* was refused is bound.
Rebind(next) ==
    LET gone  == {s \in Listed(exposed) : s \in failed \/ exposed[s] # next[s]}
        fresh == {s \in Listed(next) : s \in failed \/ exposed[s] # next[s]}
    IN  [unbinds |-> gone, binds |-> fresh]

\* forget: the targets of these services go.
Forget(ss) == [i \in 1..MaxId |-> IF \E s \in ss : ids[s] = i THEN Absent ELSE targets[i]]

Reexpose ==
    LET todo  == Rebind(wanted)
        gone  == InOrder(todo.unbinds)
        fresh == InOrder(todo.binds)
    IN  /\ link = "up" /\ unread
        /\ unread' = FALSE
        /\ pending' = pending \o [i \in 1..Len(gone) |-> Unbind(gone[i])]
                              \o [i \in 1..Len(fresh) |-> Bind(fresh[i], wanted[fresh[i]])]
        /\ targets' = Forget(todo.unbinds)
        /\ ids' = [s \in Services |-> IF s \in todo.unbinds THEN NoId ELSE ids[s]]
        /\ unanswered' = [s \in Services |->
                             unanswered[s] + IF s \in todo.binds THEN 1 ELSE 0]
        /\ failed' = {}
        /\ exposed' = wanted
        /\ UNCHANGED <<config, link, miscounted, toServer, toClient, serverVars,
                       policyVars, changed, started>>

ClientSends ==
    /\ link = "up" /\ pending # <<>>
    /\ toServer' = Append(toServer, Head(pending))
    /\ pending' = Tail(pending)
    /\ UNCHANGED <<config, unread, link, exposed, ids, failed, unanswered, targets,
                   miscounted, toClient, serverVars, policyVars, changed, started>>

\* Mutant: every answer is taken for the last.
Answered_Any(s) == TRUE
\* answered: whether the count, one lower but not below zero, is at zero.
Answered(s) == unanswered[s] <= 1
Count(s)    == unanswered' = [unanswered EXCEPT ![s] = IF @ = 0 THEN 0 ELSE @ - 1]

\* An answer to the last bind, for a service that is still wanted, is registered in
\* place of what the service had; any other is dropped.
HearBound(m) ==
    /\ m.op = "bound"
    /\ Count(m.service)
    /\ IF Answered(m.service) /\ exposed[m.service] # Absent
         THEN /\ failed' = failed \ {m.service}
              /\ ids' = [ids EXCEPT ![m.service] = m.id]
              /\ targets' = [Forget({m.service}) EXCEPT ![m.id] = exposed[m.service]]
         ELSE UNCHANGED <<failed, ids, targets>>
    /\ UNCHANGED miscounted

HearFailed(m) ==
    /\ m.op = "failed"
    /\ Count(m.service)
    /\ IF Answered(m.service)
         THEN /\ targets' = Forget({m.service})
              /\ ids' = [ids EXCEPT ![m.service] = NoId]
              /\ failed' = failed \cup {m.service}
         ELSE UNCHANGED <<failed, ids, targets>>
    /\ miscounted' = IF ~m.asked /\ unanswered[m.service] > 0
                       THEN miscounted \cup {m.service} ELSE miscounted

\* Mutant: what was refused is asked for again at once.
ClientHears_Retries ==
    /\ link = "up" /\ toClient # <<>>
    /\ LET m == Head(toClient)
       IN  \/ HearBound(m) /\ UNCHANGED pending
           \/ /\ HearFailed(m)
              /\ pending' = Append(pending, Bind(m.service, exposed[m.service]))
    /\ toClient' = Tail(toClient)
    /\ UNCHANGED <<config, unread, link, exposed, toServer, serverVars, policyVars,
                   changed, started>>
ClientHears ==
    /\ link = "up" /\ toClient # <<>>
    /\ HearBound(Head(toClient)) \/ HearFailed(Head(toClient))
    /\ toClient' = Tail(toClient)
    /\ UNCHANGED <<config, unread, link, exposed, pending, toServer, serverVars,
                   policyVars, changed, started>>

-----------------------------------------------------------------------------
(***************************************************************************)
(* The server's loop.                                                      *)
(***************************************************************************)
Tell(m) == toClient' = Append(toClient, m)

\* bind: the name is taken, the port not granted or not to be had, or it is bound
\* under an id of its own.
ServerBinds(m) ==
    /\ m.op = "bind"
    /\ \/ /\ Tell([op |-> "failed", service |-> m.service, asked |-> TRUE])
          /\ UNCHANGED <<bound, given, lastId>>
       \/ /\ bound[m.service] = NoId /\ m.settings \in grant /\ lastId < MaxId
          /\ Tell([op |-> "bound", service |-> m.service, id |-> lastId + 1])
          /\ bound' = [bound EXCEPT ![m.service] = lastId + 1]
          /\ given' = [given EXCEPT ![lastId + 1] = m.settings]
          /\ lastId' = lastId + 1

ServerUnbinds(m) ==
    /\ m.op = "unbind"
    /\ bound' = [bound EXCEPT ![m.service] = NoId]
    /\ UNCHANGED <<toClient, given, lastId>>

\* Mutant: the next message is read while a reload's are still to be sent.
CanRead_Always == toServer # <<>>
CanRead        == toServer # <<>> /\ lost = {}

ServerHears ==
    /\ link = "up" /\ CanRead
    /\ ServerBinds(Head(toServer)) \/ ServerUnbinds(Head(toServer))
    /\ toServer' = Tail(toServer)
    /\ UNCHANGED <<config, unread, link, clientVars, grant, lost, policyVars, changed,
                   started>>

\* regrant: services whose port is no longer granted are unbound, to be told next.
\* A grant that is gone, or that changed otherwise, ends the session (SessionEnds).
Regrant ==
    LET revoked == {s \in Services : bound[s] # NoId /\ given[bound[s]] \notin policy}
    IN  /\ link = "up" /\ changed /\ lost = {}
        /\ changed' = FALSE
        /\ grant' = policy
        /\ lost' = revoked
        /\ bound' = [s \in Services |-> IF s \in revoked THEN NoId ELSE bound[s]]
        /\ UNCHANGED <<config, unread, link, clientVars, toServer, toClient, given,
                       lastId, policyVars, started>>

TellLost ==
    /\ link = "up"
    /\ \E s \in lost :
          /\ Tell([op |-> "failed", service |-> s, asked |-> FALSE])
          /\ lost' = lost \ {s}
    /\ UNCHANGED <<config, unread, link, clientVars, toServer, grant, bound, given,
                   lastId, policyVars, changed, started>>

-----------------------------------------------------------------------------
ReloadClient(e) ==
    /\ reexposes < MaxReexposes
    /\ wanted' = e /\ unread' = TRUE /\ reexposes' = reexposes + 1
    /\ UNCHANGED <<link, clientVars, toServer, toClient, serverVars, policyVars,
                   changed, started>>

ReloadServer(g) ==
    /\ regrants < MaxRegrants
    /\ policy' = g /\ changed' = TRUE /\ regrants' = regrants + 1
    /\ UNCHANGED <<config, unread, link, clientVars, toServer, toClient, serverVars,
                   started>>

Work == \/ Dial \/ Welcomed
        \/ Reexpose \/ ClientSends \/ ClientHears
        \/ ServerHears \/ Regrant \/ TellLost

\* No session is left to the bound.
Over == link = "down" /\ started = MaxSessions /\ UNCHANGED vars

Next == \/ Work
        \/ SessionEnds
        \/ \E e \in Expose : ReloadClient(e)
        \/ \E g \in SUBSET Settings : ReloadServer(g)
        \/ Over

(***************************************************************************)
(* Both loops run, and the stream delivers, for as long as the session     *)
(* lasts; the operators and the failures are free to come or not.          *)
(***************************************************************************)
Spec == Init /\ [][Next]_vars
FairSpec == Spec /\ WF_vars(Work)

-----------------------------------------------------------------------------
(***************************************************************************)
(* Properties.                                                             *)
(***************************************************************************)
\* Nothing is left to be read, sent or told on either end.
Quiet == /\ link = "up" /\ ~unread /\ ~changed
         /\ pending = <<>> /\ toServer = <<>> /\ toClient = <<>> /\ lost = {}

\* The ends agree on a service: bound under one id and the settings the client now
\* has, or refused and remembered as refused, or not wanted and not bound.
Agree(s) ==
    IF exposed[s] = Absent
      THEN bound[s] = NoId /\ ids[s] = NoId
      ELSE \/ bound[s] # NoId /\ ids[s] = bound[s] /\ given[bound[s]] = exposed[s]
           \/ bound[s] = NoId /\ ids[s] = NoId /\ s \in failed

\* Whenever the stream falls quiet the ends agree on every service, whatever reloads
\* of either end crossed on the way: the server binds nothing the client would turn
\* visitors away from, and the client waits for nothing the server has dropped.
QuietAgree == Quiet => exposed = wanted /\ \A s \in Services : Agree(s)

\* The client forwards for exactly the ids it was given in this session for services it
\* still wants; and visitors of an id were admitted under the settings its target was
\* taken from: the answer to a replaced bind is not taken for the last, unless a
\* BindFailed sent unasked was counted while an answer was outstanding.
TargetsCurrent ==
    link = "up" =>
        /\ {i \in 1..MaxId : targets[i] # Absent} = {ids[s] : s \in Services} \ {NoId}
        /\ \A s \in Services :
              ids[s] # NoId /\ given[ids[s]] # exposed[s] => s \in miscounted

\* A session that lasts falls quiet for good, once the reloads are over.
Settles == (<>[](link = "up")) => <>[]Quiet
=============================================================================
