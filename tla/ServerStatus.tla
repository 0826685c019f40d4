---------------------------- MODULE ServerStatus ----------------------------
(* What the server tells of one client name: the events its sessions send, the *)
(* keeper that answers a status request from them, and the count of sessions   *)
(* in the line systemd shows. A reload may take the name away or move it to    *)
(* another key, and sessions of the name overlap when it does or when          *)
(* SUPERSEDE_WAIT runs out.                                                    *)
(*                                                                             *)
(* A policy gives a key to the name (`ours'), to another one, or to nobody;    *)
(* the events of the other names only take up room in the receivers' queues,   *)
(* and so do those of the keys that are turned away.                           *)
EXTENDS Naturals, FiniteSets, Sequences

CONSTANTS
    Keys,           \* the public keys of the clients
    Offered,        \* the services a session may bind
    MaxSessions,    \* bound on the connections
    MaxReloads,     \* bound on the reloads of the policy
    Backlog         \* EVENTS: what a receiver may fall behind

ASSUME StatusAssumption ==
    {MaxSessions, Backlog} \subseteq Nat \ {0} /\ MaxReloads \in Nat

VARIABLES
    policy,     \* Shared.policy: key -> whose it is
    reloads,    \* how often it was replaced
    keyOf,      \* session -> the key that TLS proved for it
    nameOf,     \* session -> the name of its grant
    serving,    \* session -> where it stands
    bound,      \* session -> the services it has bound
    live,       \* Shared.sessions: key -> {} or {the session that holds it}
    told,       \* the keeper's receiver: events not taken in
    unread,     \* the status line's receiver
    lagged,     \* the receivers that have missed an event
    record,     \* Keeper.sessions for the name: {} or {[session, services]}
    sessions,   \* notify::Server.sessions for the name
    staker,     \* history: key -> {} or {the last session to stake it}
    latest,     \* history: {} or {the last session of the name to connect}
    overtaken   \* history: an earlier one has spoken since

policyVars == <<policy, reloads>>
statusVars == <<policyVars, keyOf, nameOf, serving, bound, live, told, unread, lagged,
                record, sessions, staker, latest, overtaken>>
queues == <<told, unread, lagged>>
kept == <<record, sessions>>
history == <<staker, latest, overtaken>>

Ids == 1 .. MaxSessions
Owners == {"nobody", "ours", "other"}
Claiming == {"staked", "on", "ended"}

(* A name has one table, and so one key at most. *)
Policies == {p \in [Keys -> Owners] :
                \A j, k \in Keys : p[j] = "ours" /\ p[k] = "ours" => j = k}

StatusInit ==
    /\ policy \in Policies /\ reloads = 0
    /\ keyOf \in [Ids -> Keys] /\ nameOf = [s \in Ids |-> "nobody"]
    /\ serving = [s \in Ids |-> "none"] /\ bound = [s \in Ids |-> {}]
    /\ live = [k \in Keys |-> {}] /\ told = <<>> /\ unread = <<>> /\ lagged = {}
    /\ record = {} /\ sessions = 0
    /\ staker = [k \in Keys |-> {}] /\ latest = {} /\ overtaken = FALSE

-----------------------------------------------------------------------------
(* The server's side.                                                          *)

PolicyReload(p) ==
    /\ reloads < MaxReloads
    /\ policy' = p /\ reloads' = reloads + 1
    /\ UNCHANGED <<keyOf, nameOf, serving, bound, live, queues, kept, history>>

(* A broadcast: a receiver at its limit loses its oldest event. *)
Push(queue, event) ==
    Append(IF Len(queue) = Backlog THEN Tail(queue) ELSE queue, event)

Tell(event) ==
    /\ told' = Push(told, event) /\ unread' = Push(unread, event)
    /\ lagged' = lagged \cup {r \in {"keeper", "line"} :
                    Len(IF r = "keeper" THEN told ELSE unread) = Backlog}
    /\ UNCHANGED kept

(* An event of a session, under the name of its grant. *)
TellOf(s, event) == Tell(IF nameOf[s] = "ours" THEN event ELSE [kind |-> "Other"])

Becomes(s, to) == serving' = [serving EXCEPT ![s] = to]

(* run looks the key's grant up, *)
LookUp(s) ==
    /\ serving[s] = "none"
    /\ policy[keyOf[s]] # "nobody"
    /\ Becomes(s, "staking") /\ nameOf' = [nameOf EXCEPT ![s] = policy[keyOf[s]]]
    /\ UNCHANGED <<policyVars, keyOf, bound, live, queues, kept, history>>

Denied(s) ==
    /\ serving[s] = "none"
    /\ policy[keyOf[s]] = "nobody"
    /\ Becomes(s, "gone") /\ Tell([kind |-> "Denied"])
    /\ UNCHANGED <<policyVars, keyOf, nameOf, bound, live, history>>

(* stakes its claim on the key, and tells the session before to stop, *)
Stake(s) ==
    /\ serving[s] = "staking"
    /\ Becomes(s, "staked")
    /\ live' = [live EXCEPT ![keyOf[s]] = {s}]
    /\ staker' = [staker EXCEPT ![keyOf[s]] = {s}]
    /\ UNCHANGED <<policyVars, keyOf, nameOf, bound, queues, kept, latest, overtaken>>

(* and, that one gone or waited for, sends the Welcome and says so.            *)
Connected(s) ==
    /\ serving[s] = "staked"
    /\ Becomes(s, "on")
    /\ TellOf(s, [kind |-> "Connected", session |-> s])
    /\ latest' = IF nameOf[s] = "ours" THEN {s} ELSE latest
    /\ overtaken' = (overtaken /\ nameOf[s] # "ours")
    /\ UNCHANGED <<policyVars, keyOf, nameOf, bound, live, staker>>

Speaks(s) == /\ overtaken' = (overtaken \/ (nameOf[s] = "ours" /\ s \notin latest))
             /\ UNCHANGED <<policyVars, keyOf, nameOf, serving, live, staker, latest>>

Bound(s, service) ==
    /\ serving[s] = "on" /\ service \notin bound[s]
    /\ bound' = [bound EXCEPT ![s] = @ \cup {service}]
    /\ TellOf(s, [kind |-> "Bound", service |-> service]) /\ Speaks(s)

Unbound(s, service) ==
    /\ serving[s] = "on" /\ service \in bound[s]
    /\ bound' = [bound EXCEPT ![s] = @ \ {service}]
    /\ TellOf(s, [kind |-> "Unbound", service |-> service]) /\ Speaks(s)

(* The session's loop is over: it says so, and unbinds its services quietly. *)
Ended(s) ==
    /\ serving[s] = "on"
    /\ Becomes(s, "ended")
    /\ bound' = [bound EXCEPT ![s] = {}]
    /\ TellOf(s, [kind |-> "Ended"])
    /\ UNCHANGED <<policyVars, keyOf, nameOf, live, history>>

(* Claim::drop: the key is given up unless a newer session has it. *)
GivesUp(s) ==
    /\ live' = [live EXCEPT ![keyOf[s]] = @ \ {s}]
    /\ UNCHANGED <<policyVars, keyOf, nameOf, bound, queues, kept, history>>

(* After the drain; or before the Welcome, when the server stops in the wait   *)
(* for the session before or the Welcome cannot be sent.                       *)
ClaimDrops(s) == serving[s] \in {"staked", "ended"} /\ Becomes(s, "gone") /\ GivesUp(s)

(* A session that panics says nothing. *)
Unwinds(s) == serving[s] = "on" /\ Becomes(s, "unwound") /\ GivesUp(s)

-----------------------------------------------------------------------------
(* The receivers.                                                              *)

(* Mutant: an `Ended' that takes its name's record with it. *)
ApplyRecord_Ended(e) ==
    CASE e.kind = "Connected" -> {[session |-> e.session, services |-> {}]}
      [] e.kind = "Bound"     -> {[r EXCEPT !.services = @ \cup {e.service}] : r \in record}
      [] e.kind = "Unbound"   -> {[r EXCEPT !.services = @ \ {e.service}] : r \in record}
      [] e.kind = "Ended"     -> {}
      [] OTHER                -> record

(* Keeper::apply on the sessions: an `Ended' leaves the record in place, which *)
(* a newer session may own already.                                            *)
ApplyRecord(e) ==
    CASE e.kind = "Connected" -> {[session |-> e.session, services |-> {}]}
      [] e.kind = "Bound"     -> {[r EXCEPT !.services = @ \cup {e.service}] : r \in record}
      [] e.kind = "Unbound"   -> {[r EXCEPT !.services = @ \ {e.service}] : r \in record}
      [] OTHER                -> record

Keep ==
    /\ told # <<>> /\ told' = Tail(told)
    /\ record' = ApplyRecord(Head(told))
    /\ UNCHANGED <<policyVars, keyOf, nameOf, serving, bound, live, unread, lagged, sessions,
                   history>>

(* notify::Server::apply: a name with no sessions is not in the map, and an    *)
(* `Ended' for one is let be.                                                  *)
Count(e) ==
    CASE e.kind = "Connected"              -> sessions + 1
      [] e.kind = "Ended" /\ sessions > 0  -> sessions - 1
      [] OTHER                             -> sessions

Line ==
    /\ unread # <<>> /\ unread' = Tail(unread)
    /\ sessions' = Count(Head(unread))
    /\ UNCHANGED <<policyVars, keyOf, nameOf, serving, bound, live, told, lagged, record, history>>

(* Keeper::snapshot: an entry for the name if the policy has it, connected     *)
(* exactly when the key that the policy gives it is live, with the details     *)
(* that the keeper has of the name.                                            *)
Holders == UNION {live[k] : k \in {j \in Keys : policy[j] = "ours"}}
Presence ==
    [connected |-> Holders # {},
     services  |-> IF Holders = {} THEN {} ELSE UNION {r.services : r \in record}]

StatusNext ==
    \/ \E p \in Policies : PolicyReload(p)
    \/ \E s \in Ids :
          \/ LookUp(s) \/ Denied(s) \/ Stake(s) \/ Connected(s) \/ Ended(s)
          \/ ClaimDrops(s) \/ Unwinds(s)
          \/ \E service \in Offered : Bound(s, service) \/ Unbound(s, service)
    \/ Keep \/ Line

-----------------------------------------------------------------------------

(* Once the events are taken in, the keeper's record of a name whose latest    *)
(* session runs is of that session and exactly its services, although the one  *)
(* it replaced ends, says so and gives up its claim later; a status request is *)
(* answered with them for as long as the policy gives the name that session's  *)
(* key and no other session has staked it. The name is shown as connected      *)
(* exactly while the last session to stake the key that the policy gives it    *)
(* has not given it up. The line systemd shows counts the sessions of the name *)
(* that run, and those that panicked. A receiver that lagged makes no such     *)
(* promise, and neither does a record an earlier session has spoken into.      *)
StatusNamesLatest ==
    /\ told = <<>> /\ "keeper" \notin lagged /\ ~overtaken =>
          \A s \in latest : serving[s] = "on" =>
                /\ record = {[session |-> s, services |-> bound[s]]}
                /\ policy[keyOf[s]] = "ours" /\ staker[keyOf[s]] = {s} =>
                      Presence.connected /\ Presence.services = bound[s]
    /\ Presence.connected <=> \E k \in Keys : policy[k] = "ours"
                                 /\ \E s \in staker[k] : serving[s] \in Claiming
    /\ unread = <<>> /\ "line" \notin lagged =>
          sessions = Cardinality({s \in Ids : nameOf[s] = "ours" /\ serving[s] \in {"on", "unwound"}})

=============================================================================
