----------------------------- MODULE ClientRun -----------------------------
(***************************************************************************)
(* A client from its start to its stop (client/mod.rs): it resolves the    *)
(* server, dials its addresses in turn, over QUIC and a little later over  *)
(* TCP beside it (client/race.rs), greets, serves, hangs up, backs off     *)
(* (client/backoff.rs) and dials again.  Several processes may run with    *)
(* one key, and the server then gives it to the last that said Hello.      *)
(*                                                                         *)
(* Time is in ticks, and every timer counts down, so that no bound on the  *)
(* clock is needed.  What a session does while it is up is the subject of  *)
(* modules ControlProtocol and UdpLocal.                                   *)
(***************************************************************************)
EXTENDS Integers, FiniteSets

CONSTANTS Clients,          \* the processes that run with one key
          NoClient,
          Prefer,           \* transport.prefer of each
          MaxAddrs,         \* bound on the addresses of the server
          FallbackAfter,    \* FALLBACK_AFTER
          First, Cap,       \* FIRST and CAP, the waits between dials
          Healthy,          \* HEALTHY
          DialTime, Drain   \* what a dial with its greeting, and a hang-up, take at
                            \* most when nothing is amiss

\* The failure from which the wait is Cap: more of them change nothing.
Top == CHOOSE n \in 0..Cap : First * 2^n >= Cap /\ \A m \in 0..(n - 1) : First * 2^m < Cap

Prefers == {"auto", "quic", "tcp"}

ASSUME RunAssumption == /\ NoClient \notin Clients
                        /\ Prefer \in [Clients -> Prefers]
                        /\ MaxAddrs \in Nat /\ FallbackAfter \in Nat
                        /\ First \in Nat \ {0} /\ Cap \in Nat /\ First <= Cap
                        /\ DialTime \in Nat /\ Drain \in Nat
                        /\ Healthy \in Nat
                        /\ Cap + 2 * DialTime + 2 * Drain < Healthy

VARIABLES run,      \* the task of each client
          cancel,   \* its token
          holder,   \* whose session the server has for the key
          calm      \* history: no session ended, and no dial failed or was slow, for
                    \* another reason than a rival's Hello; nobody was stopped

runVars == <<run, cancel, holder, calm>>

(***************************************************************************)
(* A dial that failed did so for now ("failed") or for a reason that a     *)
(* retry cannot fix ("broken"): what classify tells apart.                 *)
(***************************************************************************)
Failure  == {"failed", "broken"}
Attempt  == {"off", "trying"} \cup Failure
Location == {"starting", "dialing", "hello", "greeting", "binding", "up", "hanging",
             "over", "waiting", "stopped"}
Run == [at       : Location,
        quic     : Attempt, tcp : Attempt,
        left     : 0..MaxAddrs,         \* addresses to dial, this one included
        timer    : 0..(Cap + FallbackAfter),
        budget   : 0..(DialTime + Drain),
        outcome  : {"stop"} \cup Failure,
        told     : BOOLEAN,             \* Shutdown is on its way: superseded
        welcomed : BOOLEAN,
        lasted   : 0..Healthy,          \* since it was welcomed
        failures : 0..Top]

RunTypeOK == /\ run \in [Clients -> Run]
          /\ cancel \in [Clients -> BOOLEAN]
          /\ holder \in Clients \cup {NoClient}
          /\ calm \in BOOLEAN

NewRun == [at |-> "starting", quic |-> "off", tcp |-> "off", left |-> 0, timer |-> 0,
           budget |-> 0, outcome |-> "failed", told |-> FALSE,
           welcomed |-> FALSE, lasted |-> 0, failures |-> 0]

RunInit == /\ run = [p \in Clients |-> NewRun]
        /\ cancel = [p \in Clients |-> FALSE]
        /\ holder = NoClient
        /\ calm = TRUE

Become(p, r) == run' = [run EXCEPT ![p] = r]
At(p)        == run[p].at
Connected(p) == At(p) \in {"hello", "greeting", "binding", "up"}

-----------------------------------------------------------------------------
(***************************************************************************)
(* dial: resolve, dial_each, connect and race.                             *)
(***************************************************************************)
\* The first dial of an address: TCP waits for its turn beside QUIC.
Launched(p, r) == [r EXCEPT !.at = "dialing",
                            !.quic = IF Prefer[p] = "tcp" THEN "off" ELSE "trying",
                            !.tcp = IF Prefer[p] = "tcp" THEN "trying" ELSE "off",
                            !.timer = FallbackAfter]

Start(p) ==
    /\ At(p) = "starting" /\ ~cancel[p]
    /\ \E n \in 1..MaxAddrs :
           Become(p, Launched(p, [run[p] EXCEPT !.left = n, !.budget = DialTime]))
    /\ UNCHANGED <<cancel, holder, calm>>

\* The name does not resolve for now, or to no address, or the setting is no host and
\* port, or a buffer does not fit the machine.
Unresolved(p) ==
    /\ At(p) = "starting" /\ ~cancel[p]
    /\ \E f \in Failure : Become(p, [run[p] EXCEPT !.at = "over", !.outcome = f])
    /\ calm' = FALSE
    /\ UNCHANGED <<cancel, holder>>

\* QUIC fails: what follows is TCP's turn, if it has not come already.
QuicFails(p) ==
    /\ At(p) = "dialing" /\ run[p].quic = "trying"
    /\ \E f \in Failure :
           Become(p, [run[p] EXCEPT !.quic = f,
                                    !.tcp = IF Prefer[p] = "auto" /\ @ = "off"
                                              THEN "trying" ELSE @])
    /\ calm' = FALSE
    /\ UNCHANGED <<cancel, holder>>

FallbackDue(p) ==
    /\ At(p) = "dialing" /\ Prefer[p] = "auto"
    /\ run[p].quic = "trying" /\ run[p].tcp = "off" /\ run[p].timer = 0
    /\ Become(p, [run[p] EXCEPT !.tcp = "trying"])
    /\ UNCHANGED <<cancel, holder, calm>>

\* A TCP dial that fails leaves QUIC running.
TcpFails(p) ==
    /\ At(p) = "dialing" /\ run[p].tcp = "trying"
    /\ \E f \in Failure : Become(p, [run[p] EXCEPT !.tcp = f])
    /\ calm' = FALSE
    /\ UNCHANGED <<cancel, holder>>

\* The first to connect wins, and the other is dropped where it stands.
Connect(p) ==
    /\ At(p) = "dialing" /\ "trying" \in {run[p].quic, run[p].tcp}
    /\ Become(p, [run[p] EXCEPT !.at = "hello", !.quic = "off", !.tcp = "off"])
    /\ UNCHANGED <<cancel, holder, calm>>

\* Mutant: one hopeless transport is enough to give up.
Classify_Either(r) == IF "broken" \in {r.quic, r.tcp} THEN "broken" ELSE "failed"
\* classify: a dial is hopeless if every transport it tried is.
Classify(r) == IF "failed" \in {r.quic, r.tcp} THEN "failed" ELSE "broken"

\* No transport connects: the next address, or the error of the last.
AddressFails(p) ==
    /\ At(p) = "dialing" /\ "trying" \notin {run[p].quic, run[p].tcp}
    /\ Become(p, IF run[p].left > 1
                   THEN Launched(p, [run[p] EXCEPT !.left = @ - 1])
                   ELSE [run[p] EXCEPT !.at = "over", !.outcome = Classify(run[p])])
    /\ UNCHANGED <<cancel, holder, calm>>

\* session: a stop drops the dial.
DialStopped(p) ==
    /\ At(p) = "dialing" /\ cancel[p]
    /\ Become(p, [run[p] EXCEPT !.at = "stopped"])
    /\ UNCHANGED <<cancel, holder, calm>>

-----------------------------------------------------------------------------
(***************************************************************************)
(* serve: the greeting, which no stop interrupts, and the session.         *)
(***************************************************************************)
Hanging(r, o) == [r EXCEPT !.at = "hanging", !.outcome = o, !.told = FALSE,
                           !.budget = Drain, !.quic = "off", !.tcp = "off"]
LetGo(p)      == holder' = IF holder = p THEN NoClient ELSE holder

\* The server reads the Hello: the key is this session's, and the one that had it is
\* told to end.
Hello(p) ==
    /\ At(p) = "hello"
    /\ run' = [q \in Clients |->
                 CASE q = p      -> [run[q] EXCEPT !.at = "greeting", !.told = FALSE]
                   [] q = holder -> [run[q] EXCEPT !.told = TRUE]
                   [] OTHER      -> run[q]]
    /\ holder' = p
    /\ UNCHANGED <<cancel, calm>>

\* Welcome, and a Connected for whoever listens; then the binds.
Welcomed(p) ==
    /\ At(p) = "greeting"
    /\ Become(p, [run[p] EXCEPT !.at = "binding", !.welcomed = TRUE])
    /\ UNCHANGED <<cancel, holder, calm>>

BindsSent(p) ==
    /\ At(p) = "binding"
    /\ Become(p, [run[p] EXCEPT !.at = "up"])
    /\ UNCHANGED <<cancel, holder, calm>>

\* Denied, another message, the end of the stream, or a message that cannot be
\* encoded, which no retry can fix; once up, also a server that stopped answering.  A
\* server that superseded the session closes it, which may be seen before its Shutdown.
SessionFails(p) ==
    /\ Connected(p)
    /\ \E f \in Failure : Become(p, Hanging(run[p], f))
    /\ LetGo(p)
    /\ calm' = (calm /\ run[p].told)
    /\ UNCHANGED cancel

Superseded(p) ==
    /\ At(p) = "up" /\ run[p].told
    /\ Become(p, Hanging(run[p], "failed"))
    /\ LetGo(p)
    /\ UNCHANGED <<cancel, calm>>

\* Mutant: the loop does not look at the token.
Stopped_Never(p) == FALSE
Stopped(p) ==
    /\ At(p) = "up" /\ cancel[p]
    /\ Become(p, Hanging(run[p], "stop"))
    /\ LetGo(p)
    /\ UNCHANGED <<cancel, calm>>

\* hang_up waits for the session's tasks, up to DRAIN.
HungUp(p) ==
    /\ At(p) = "hanging"
    /\ Become(p, [run[p] EXCEPT !.at = IF run[p].outcome = "stop" THEN "stopped"
                                                                 ELSE "over"])
    /\ UNCHANGED <<cancel, holder, calm>>

-----------------------------------------------------------------------------
(***************************************************************************)
(* run: what a session's end comes to.                                     *)
(***************************************************************************)
\* Mutant: a session as long as the longest wait starts the waits over.
Counted_AtCap(r) == IF r.lasted >= Cap THEN 0 ELSE r.failures
\* Backoff::next: the failures that count, and the waits they may come to.
Counted(r) == IF r.lasted >= Healthy THEN 0 ELSE r.failures
Step(n)    == IF First * 2^n <= Cap THEN First * 2^n ELSE Cap
Waits(n)   == {w \in 1..Cap : 2 * w >= Step(n) /\ w <= Step(n)}

\* A failure after a stop is no news; a hopeless one ends the client.
Retry(p) ==
    LET n == Counted(run[p])
    IN  /\ At(p) = "over" /\ ~cancel[p] /\ run[p].outcome = "failed"
        /\ \E w \in Waits(n) :
               Become(p, [NewRun EXCEPT !.at = "waiting", !.timer = w,
                                        !.failures = IF n = Top THEN Top ELSE n + 1])
        /\ UNCHANGED <<cancel, holder, calm>>

GiveUp(p) ==
    /\ At(p) = "over" /\ (cancel[p] \/ run[p].outcome = "broken")
    /\ Become(p, [run[p] EXCEPT !.at = "stopped"])
    /\ UNCHANGED <<cancel, holder, calm>>

Waited(p) ==
    /\ At(p) = "waiting" /\ run[p].timer = 0
    /\ Become(p, [run[p] EXCEPT !.at = "starting"])
    /\ UNCHANGED <<cancel, holder, calm>>

\* A stop ends the wait, or is seen before the next dial.
WaitStopped(p) ==
    /\ At(p) \in {"waiting", "starting"} /\ cancel[p]
    /\ Become(p, [run[p] EXCEPT !.at = "stopped"])
    /\ UNCHANGED <<cancel, holder, calm>>

Stop(p) ==
    /\ ~cancel[p]
    /\ cancel' = [cancel EXCEPT ![p] = TRUE]
    /\ calm' = FALSE
    /\ UNCHANGED <<run, holder>>

-----------------------------------------------------------------------------
\* Steps that take no time: nothing is waited for.
Due(p) == \/ At(p) \in {"starting", "over"}
          \/ At(p) = "waiting" /\ run[p].timer = 0
          \/ At(p) = "up" /\ run[p].told
Timed(p) == At(p) \in {"dialing", "hello", "greeting", "binding", "hanging"}

Less(n)    == IF n = 0 THEN 0 ELSE n - 1
Older(r)   == [r EXCEPT !.timer = Less(@), !.budget = Less(@),
                        !.lasted = IF r.welcomed /\ @ < Healthy THEN @ + 1 ELSE @]

Tick ==
    /\ \A p \in Clients : ~Due(p)
    /\ run' = [p \in Clients |-> Older(run[p])]
    /\ calm' = (calm /\ \A p \in Clients : Timed(p) => run[p].budget > 0)
    /\ UNCHANGED <<cancel, holder>>

Dial(p)  == \/ Start(p) \/ Unresolved(p) \/ QuicFails(p) \/ FallbackDue(p) \/ TcpFails(p)
            \/ Connect(p) \/ AddressFails(p) \/ DialStopped(p)
Greet(p) == \/ Hello(p) \/ Welcomed(p) \/ BindsSent(p)
            \/ (At(p) # "up" /\ SessionFails(p))
Serve(p) == Superseded(p) \/ Stopped(p)
End(p)   == HungUp(p) \/ Retry(p) \/ GiveUp(p) \/ Waited(p) \/ WaitStopped(p)

RunNext == \/ \E p \in Clients : \/ Dial(p) \/ Greet(p) \/ Serve(p) \/ SessionFails(p)
                              \/ End(p) \/ Stop(p)
        \/ Tick

(***************************************************************************)
(* Time passes, dials and greetings come to an end (each has a deadline of *)
(* its transport) and the tasks are scheduled.  A session that is up need  *)
(* not fail, and nobody has to stop a client.                              *)
(***************************************************************************)
RunSpec == RunInit /\ [][RunNext]_runVars
RunFairness ==
    /\ WF_runVars(Tick)
    /\ \A p \in Clients : /\ WF_runVars(Dial(p)) /\ WF_runVars(Greet(p))
                          /\ WF_runVars(Serve(p)) /\ WF_runVars(End(p))

-----------------------------------------------------------------------------
(***************************************************************************)
(* Properties.                                                             *)
(***************************************************************************)
\* Processes that supersede each other back off all the way: as long as nothing else
\* happens to any, no session lasts long enough to start the waits over, and each wait is
\* the step after the one before it.
RivalsNeverReset ==
    [][\A p \in Clients :
           calm /\ At(p) = "over" /\ run'[p].at = "waiting" =>
               run'[p].failures = IF run[p].failures = Top THEN Top ELSE run[p].failures + 1
      ]_runVars

\* A stop ends the client wherever it finds it: dialing, greeting, up or waiting.
StopEnds == \A p \in Clients : cancel[p] ~> At(p) = "stopped"

\* Nothing that could still connect: no transport failed for now.
Hopeless(p) == run[p].outcome = "broken" /\ "failed" \notin {run[p].quic, run[p].tcp}

\* A client that nobody stops resolves and dials again and again, or stays up, unless
\* its last failure was hopeless on every transport it tried.
KeepsTrying ==
    \A p \in Clients :
        \/ []<>(At(p) = "starting") \/ <>[](At(p) = "up")
        \/ <>(At(p) = "stopped" /\ (cancel[p] \/ Hopeless(p)))
=============================================================================
