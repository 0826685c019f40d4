---------------------------- MODULE ClientStatus ----------------------------
(* What a client process says of itself: the events its client sends, the      *)
(* keeper that answers status requests (status/client.rs), the printer behind  *)
(* the keeper (the panel, or the log lines with systemd's status), and the     *)
(* totals a status reports across the clients that reloads start.              *)
(*                                                                             *)
(* Clients are numbered; `shown' is the watch that tells the readers which one *)
(* runs and with which config, and each reader compares the number with the    *)
(* one it has, as the code compares the Arc of its traffic.  A service's       *)
(* settings are a number, 0 when it is not exposed; they are compared by value *)
(* and a reload may bring some that were in force before, or none that are     *)
(* new.                                                                        *)
EXTENDS Naturals, Sequences

CONSTANTS
    Services,       \* the services a config may expose
    MaxClients,     \* bound on the clients one process starts
    MaxSettings,    \* how many settings a service may have
    MaxConfigs,     \* bound on the reloads
    MaxCounted,     \* bound on what is counted
    MaxConnects,    \* bound on the sessions of the clients
    Queue           \* what each of the two event channels holds

ASSUME ClientStatusAssumption ==
    /\ {MaxClients, MaxSettings, MaxCounted, MaxConnects, Queue} \subseteq Nat \ {0}
    /\ MaxConfigs \in Nat

VARIABLES
    printer,    \* "panel" or "log"
    turn,       \* "run", "ending", "carry" or "over": the loop of run
    client,     \* the client that runs: [n, link, dialed, expose, answers]
    configs,    \* reloads so far
    connects,   \* sessions so far
    shown,      \* the watch: [n, cfg, carried]
    expose,     \* the client's expose watch,
    news,       \* and whether its session has yet to see a change of it
    counted,    \* client -> what its traffic has counted
    carried,    \* every finished client's totals
    events,     \* the channel from the client to the keeper
    missed,     \* an event found no room in it, and no word on the link has since
    forwarded,  \* the channel from the keeper to the printer
    held,       \* <<>>, or the event the keeper waits to pass on
    keeper,     \* [n, link, answers, changed]
    panel,      \* the printer's: [n, link, answers, changed, stopped]
    misread,    \* history: services whose last answer the printer took in while it
                \* was shown other settings than the client had asked with
    moved,      \* history: everything counted,
    late        \* and what a client's tasks counted once it was summed

watch == <<expose, news>>
loopVars == <<turn, configs, shown, carried>>
totals == <<counted, moved, late>>
readers == <<forwarded, held, keeper, panel, misread>>
clientVars == <<printer, client, connects, loopVars, watch, totals, events, missed, readers>>

Unanswered == [s \in Services |-> {}]
NewClient(n, cfg) == [n |-> n, link |-> "connecting", dialed |-> FALSE, expose |-> cfg,
                      answers |-> Unanswered]

ClientStatusInit ==
    /\ printer \in {"panel", "log"} /\ turn = "run"
    /\ configs = 0 /\ connects = 0
    /\ expose = [s \in Services |-> 1] /\ news = FALSE /\ client = NewClient(1, expose)
    /\ shown = [n |-> 1, cfg |-> expose, carried |-> 0]
    /\ counted = [n \in 1 .. MaxClients |-> 0] /\ carried = 0
    /\ events = <<>> /\ missed = FALSE /\ forwarded = <<>> /\ held = <<>>
    /\ keeper = [n |-> 1, link |-> "connecting", answers |-> Unanswered, changed |-> FALSE]
    /\ panel = [n |-> 1, link |-> "connecting", answers |-> Unanswered, changed |-> FALSE,
                stopped |-> FALSE]
    /\ misread = {} /\ moved = 0 /\ late = 0

-----------------------------------------------------------------------------
(* The client, which goes on until it notices that it was cancelled.           *)

(* emit: an event that finds the channel full is dropped. *)
Send(event) ==
    /\ turn \in {"run", "ending"}
    /\ IF Len(events) < Queue
         THEN events' = Append(events, event) /\ missed' = (missed /\ event.kind = "Answer")
         ELSE missed' = TRUE /\ UNCHANGED events
    /\ UNCHANGED <<printer, loopVars, totals, readers>>

(* serve: the services to ask for are read before the greeting. *)
Dialed ==
    /\ turn \in {"run", "ending"} /\ client.link # "stopped" /\ ~client.dialed
    /\ client' = [client EXCEPT !.dialed = TRUE, !.expose = expose]
    /\ news' = FALSE
    /\ UNCHANGED <<printer, connects, loopVars, expose, totals, events, missed, readers>>

Connect ==
    /\ client.link # "up" /\ client.dialed /\ connects < MaxConnects
    /\ connects' = connects + 1
    /\ client' = [client EXCEPT !.link = "up"]
    /\ Send([kind |-> "Connected"])
    /\ UNCHANGED watch

(* Bound, for a service that is asked for, or BindFailed, which a server's      *)
(* reload also says of a port it no longer grants: unasked, and more than once.*)
AnswerComes(s, outcome) ==
    /\ client.link = "up" /\ (outcome = "bound" => client.expose[s] # 0)
    /\ client' = [client EXCEPT !.answers[s] = {outcome}]
    /\ Send([kind |-> "Answer", service |-> s, is |-> outcome])
    /\ UNCHANGED <<connects, watch>>

(* The session ends, or a dial fails: with a retry, or stopped for good. One   *)
(* that was cancelled by then says nothing.                                    *)
Disconnect(link) ==
    /\ client.link # "stopped" /\ turn = "run"
    /\ client' = [client EXCEPT !.link = link, !.dialed = FALSE, !.answers = Unanswered]
    /\ Send([kind |-> "Disconnected", link |-> link])
    /\ UNCHANGED <<connects, watch>>

(* reexpose: the session takes up what a reload left in the watch, and asks    *)
(* again for a service whose settings differ, or that was refused.             *)
TakeExpose ==
    /\ turn \in {"run", "ending"} /\ client.link = "up" /\ news
    /\ client' = [client EXCEPT
          !.expose = expose,
          !.answers = [s \in Services |-> IF expose[s] = client.expose[s] THEN @[s] \ {"refused"}
                                                                         ELSE {}]]
    /\ news' = FALSE
    /\ UNCHANGED <<printer, connects, loopVars, expose, totals, events, missed, readers>>

(* A task of any client so far: hang_up waits for them no longer than DRAIN,    *)
(* and one that outlives it goes on to count.                                  *)
CountMoves(n) ==
    /\ n <= client.n /\ counted[n] < MaxCounted
    /\ counted' = [counted EXCEPT ![n] = @ + 1] /\ moved' = moved + 1
    /\ late' = late + IF n = client.n /\ turn \in {"run", "ending"} THEN 0 ELSE 1
    /\ UNCHANGED <<printer, client, connects, loopVars, watch, events, missed, readers>>

-----------------------------------------------------------------------------
(* The loop of commands/client.rs run.                                         *)

Changes == /\ keeper' = [keeper EXCEPT !.changed = TRUE]
           /\ panel' = [panel EXCEPT !.changed = TRUE]

(* A reload: the readers are shown the config, then the client gets the        *)
(* services, or ends when more than [expose.*] changed.                        *)
Reload(cfg, reconnects) ==
    /\ turn = "run" /\ client.link # "stopped" /\ configs < MaxConfigs
    /\ reconnects => client.n < MaxClients
    /\ configs' = configs + 1
    /\ shown' = [shown EXCEPT !.cfg = cfg] /\ Changes
    /\ IF reconnects THEN turn' = "ending" /\ UNCHANGED watch
                     ELSE expose' = cfg /\ news' = TRUE /\ UNCHANGED turn
    /\ UNCHANGED <<printer, client, connects, carried, totals, events, missed, forwarded, held,
                   misread>>

(* Mutant: the finished client's totals are shown before its traffic is        *)
(* replaced.                                                                   *)
RunOver_ShowsFirst ==
    /\ turn \in {"run", "ending"}
    /\ turn' = IF turn = "ending" THEN "carry" ELSE "over"
    /\ carried' = carried + counted[client.n]
    /\ shown' = [shown EXCEPT !.carried = carried']
    /\ UNCHANGED <<printer, client, configs, connects, watch, totals, events, missed, readers>>

(* run.await after session.cancel, or a run that ended by itself, because the  *)
(* client stopped for good or the process was told to: a cancelled client      *)
(* sends no event.                                                             *)
RunOver ==
    /\ turn \in {"run", "ending"}
    /\ turn' = IF turn = "ending" THEN "carry" ELSE "over"
    /\ carried' = carried + counted[client.n]
    /\ UNCHANGED <<printer, client, configs, connects, shown, watch, totals, events, missed,
                   readers>>

(* The next client, on the config the reload read: its traffic and what the    *)
(* finished ones carried are shown in one change.                              *)
NextClient ==
    /\ turn = "carry"
    /\ turn' = "run"
    /\ expose' = shown.cfg /\ news' = FALSE /\ client' = NewClient(client.n + 1, shown.cfg)
    /\ shown' = [shown EXCEPT !.n = client.n + 1, !.carried = carried]
    /\ Changes
    /\ UNCHANGED <<printer, configs, connects, carried, totals, events, missed, forwarded, held,
                   misread>>

-----------------------------------------------------------------------------
(* The readers.                                                                *)

(* What an event makes of a link and of a service's answers. *)
Linked(link, e) ==
    CASE e.kind = "Connected"    -> "up"
      [] e.kind = "Disconnected" -> e.link
      [] OTHER                   -> link

(* Model::apply *)
Modelled(answers, e) ==
    CASE e.kind = "Connected" -> Unanswered
      [] e.kind = "Answer"    -> [answers EXCEPT ![e.service] = {e.is}]
      [] OTHER                -> answers

(* panel's State::apply and notify::Client::apply: an answer is recorded       *)
(* against the settings in force, if the service still has any.                *)
Recorded(answers, e) ==
    CASE e.kind = "Connected" -> Unanswered
      [] e.kind = "Answer" /\ shown.cfg[e.service] # 0 ->
            [answers EXCEPT ![e.service] = {[asked |-> shown.cfg[e.service], is |-> e.is]}]
      [] OTHER -> answers

(* keep, whose select takes a change before an event: a new client starts      *)
(* from a model that knows nothing.                                            *)
KeeperChanges ==
    /\ keeper.changed /\ held = <<>>
    /\ keeper' = IF keeper.n = shown.n THEN [keeper EXCEPT !.changed = FALSE]
                 ELSE [n |-> shown.n, link |-> "connecting", answers |-> Unanswered,
                       changed |-> FALSE]
    /\ UNCHANGED <<printer, client, connects, loopVars, watch, totals, events, missed, forwarded,
                   held, panel, misread>>

(* Mutant: without `biased', whichever is ready. *)
Takes_Any(reader, queue) == queue # <<>>

Takes(reader, queue) == queue # <<>> /\ ~reader.changed

KeeperTakes ==
    /\ held = <<>> /\ Takes(keeper, events)
    /\ events' = Tail(events) /\ held' = <<Head(events)>>
    /\ keeper' = [keeper EXCEPT !.link = Linked(@, Head(events)),
                                !.answers = Modelled(@, Head(events))]
    /\ UNCHANGED <<printer, client, connects, loopVars, watch, totals, missed, forwarded, panel,
                   misread>>

Forward ==
    /\ held # <<>> /\ Len(forwarded) < Queue
    /\ forwarded' = forwarded \o held /\ held' = <<>>
    /\ UNCHANGED <<printer, client, connects, loopVars, watch, totals, events, missed, keeper,
                   panel, misread>>

(* The panel keeps a replaced client's answers until the new one connects; the *)
(* status line starts from nothing.                                            *)
PanelChanges ==
    /\ panel.changed
    /\ panel' = IF panel.n = shown.n THEN [panel EXCEPT !.changed = FALSE]
                ELSE [panel EXCEPT !.n = shown.n, !.changed = FALSE, !.link = "connecting",
                                   !.answers = IF printer = "log" THEN Unanswered ELSE @]
    /\ UNCHANGED <<printer, client, connects, loopVars, watch, totals, events, missed, forwarded,
                   held, keeper, misread>>

Misread(e) ==
    CASE e.kind = "Connected" -> {}
      [] e.kind = "Answer" -> IF shown.cfg[e.service] = client.expose[e.service]
                                THEN misread \ {e.service} ELSE misread \cup {e.service}
      [] OTHER -> misread

PanelTakes ==
    /\ Takes(panel, forwarded)
    /\ forwarded' = Tail(forwarded)
    /\ panel' = [panel EXCEPT !.link = Linked(@, Head(forwarded)),
                              !.answers = Recorded(@, Head(forwarded)),
                              !.stopped = @ \/ Linked("", Head(forwarded)) = "stopped"]
    /\ misread' = Misread(Head(forwarded))
    /\ UNCHANGED <<printer, client, connects, loopVars, watch, totals, events, missed, held,
                   keeper>>

(* State::rows and Client::line: an answer for other settings than the config's *)
(* is left out.                                                                *)
Rows(s) == {a.is : a \in {b \in panel.answers[s] : b.asked = shown.cfg[s]}}

(* A status's totals: what finished clients carried and what the shown one has *)
(* counted.                                                                    *)
Reported == shown.carried + counted[shown.n]

ClientStatusNext ==
    \/ Dialed \/ Connect \/ \E s \in Services, o \in {"bound", "refused"} : AnswerComes(s, o)
    \/ \E link \in {"down", "stopped"} : Disconnect(link)
    \/ TakeExpose \/ \E n \in 1 .. MaxClients : CountMoves(n)
    \/ \E cfg \in [Services -> 0 .. MaxSettings], reconnects \in BOOLEAN : Reload(cfg, reconnects)
    \/ RunOver \/ NextClient
    \/ KeeperChanges \/ KeeperTakes \/ Forward \/ PanelChanges \/ PanelTakes

-----------------------------------------------------------------------------

TakenIn == events = <<>> /\ held = <<>> /\ forwarded = <<>> /\ ~keeper.changed /\ ~panel.changed

(* Once everything said is taken in and the running client has said how it     *)
(* stands, the status reply and the panel or status line agree with it: the    *)
(* link, and the last answer for each service since the client asked for it;   *)
(* and a client that stopped for good is known to the exit code. Reloads, also *)
(* ones that undo others, new clients and events of a client that was replaced *)
(* may come in any order before. An event that is dropped is made up for by    *)
(* the next word on the link that is not; an answer the printer took in under  *)
(* settings that were replaced and then restored has no row until the next.    *)
StatusAgrees ==
    TakenIn /\ ~missed /\ turn \in {"run", "over"} /\ client.link # "connecting" =>
        /\ keeper.link = client.link /\ panel.link = client.link
        /\ client.link = "stopped" => panel.stopped
        /\ \A s \in Services : client.answers[s] # {} =>
              /\ keeper.answers[s] = client.answers[s]
              /\ client.expose[s] # 0 /\ shown.cfg[s] = client.expose[s] /\ s \notin misread =>
                    Rows(s) = client.answers[s]

(* Everything counted is in a status once, and in the totals at the end: a     *)
(* finished client's is never there twice while the next one takes over, and   *)
(* all that is missing is what tasks that outlived their client's DRAIN        *)
(* counted after it was summed.                                                *)
TotalsExact ==
    /\ Reported <= moved /\ moved <= Reported + late
    /\ moved = late + carried + IF turn \in {"run", "ending"} THEN counted[client.n] ELSE 0

=============================================================================
