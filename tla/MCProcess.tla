----------------------------- MODULE MCProcess -----------------------------
(* Four parts of a hawse process that share nothing, checked in one run: a     *)
(* behaviour is one of the client's run, of the reloads of a config, of the    *)
(* panel's figures, or of the TCP transport's driver.                          *)
EXTENDS ClientRun, ConfigReload, Figures, TcpDriver

CONSTANTS p1, p2

\* One client dials both transports, the other only TCP.
AutoAndTcp == [p \in Clients |-> IF p = p1 THEN "auto" ELSE "tcp"]

\* Configs that load, that a client must reconnect for, whose grant is in the pool of
\* another, and that do not load.
Transport == [buffer |-> 1, idle |-> 1, stream |-> 1, connection |-> 1]
Client(k, ports) == [key |-> k, ports |-> ports, named |-> TRUE, mapped |-> FALSE]
Service(mapped)  == [named |-> TRUE, local |-> TRUE, mapped |-> mapped]
Server(first)    == [listen |-> 1, pool |-> [first |-> first, last |-> first + 1],
                     transport |-> Transport, streams |-> 2, udpSessions |-> 1]
Host(named)      == [server |-> TRUE, named |-> named, transport |-> Transport]
NoOne   == [n \in {} |-> 0]
Ports(first) == {[first |-> first, last |-> first + 1]}
Both(k) == [n \in {"a", "b"} |-> IF n = "a" THEN Client("k", Ports(3)) ELSE Client(k, {})]
MCLive  == [server |-> {NoOne, Both("k"), Both("l")},
            client |-> {NoOne, [n \in {"w"} |-> Service(FALSE)],
                        [n \in {"w"} |-> Service(TRUE)]}]
MCFixed == [server |-> {Server(2), Server(5)},
            client |-> {Host(TRUE), [Host(TRUE) EXCEPT !.transport.buffer = 2]}]
MCDefault == [live |-> NoOne, fixed |-> Server(5)]

\* `rivals': either one client alone, with everything that can happen to it, or two
\* that contend for the key for as long as nothing else happens to either.
VARIABLES part, rivals

others == <<part, rivals>>

\* A part that the behaviour is not of is over, and has nothing left to do.
RunOff == /\ run = [p \in Clients |-> [NewRun EXCEPT !.at = "stopped"]]
          /\ cancel = [p \in Clients |-> TRUE] /\ holder = NoClient /\ calm = TRUE
ReloadOff == /\ role = "client" /\ terminal = FALSE /\ watching = FALSE /\ listen = {}
             /\ file = {} /\ writes = MaxWrites /\ raised = FALSE
             /\ wakeup = FALSE /\ hup = FALSE /\ cancelled = TRUE
             /\ phase = "stopped" /\ read = {} /\ look = {}
             /\ started = {} /\ inForce = {} /\ upcoming = {}
FiguresOff == /\ moves = 0 /\ total = 0 /\ moving = FALSE /\ permit = FALSE
              /\ pump = [p \in Pumps |-> "idle"] /\ at = "asleep" /\ ticking = FALSE
              /\ sampled = 0 /\ rate = 0 /\ openDrawn = 0
DriverOff == /\ caller = [c \in Callers |-> "failed"] /\ requests = <<>> /\ pending = <<>>
             /\ driver = "ended" /\ stale = 0 /\ unacked = 0 /\ wire = <<>> /\ inbound = 0
             /\ peer = "gone" /\ closed = TRUE /\ held = FALSE

OneRun == /\ run = [p \in Clients |-> IF p = p1 THEN NewRun
                                      ELSE [NewRun EXCEPT !.at = "stopped"]]
          /\ cancel = [p \in Clients |-> p # p1] /\ holder = NoClient /\ calm = TRUE

MCInit ==
    /\ part \in {"client", "reload", "figures", "driver"}
    /\ rivals \in (IF part = "client" THEN BOOLEAN ELSE {FALSE})
    /\ IF part # "client" THEN RunOff ELSE IF rivals THEN RunInit ELSE OneRun
    /\ IF part = "reload" THEN ReloadInit ELSE ReloadOff
    /\ IF part = "figures" THEN FiguresInit ELSE FiguresOff
    /\ IF part = "driver" THEN DriverInit ELSE DriverOff

MCNext ==
    \/ /\ part = "client" /\ RunNext /\ (rivals => calm')
       /\ UNCHANGED <<others, reloadVars, figureVars, driverVars>>
    \/ part = "reload" /\ ReloadNext /\ UNCHANGED <<others, runVars, figureVars, driverVars>>
    \/ part = "figures" /\ FiguresNext /\ UNCHANGED <<others, runVars, reloadVars, driverVars>>
    \/ part = "driver" /\ DriverNext /\ UNCHANGED <<others, runVars, reloadVars, figureVars>>

MCSpec ==
    /\ MCInit /\ [][MCNext]_<<others, runVars, reloadVars, figureVars, driverVars>>
    /\ RunFairness /\ ReloadFairness
    /\ FiguresFairness /\ DriverFairness
=============================================================================
