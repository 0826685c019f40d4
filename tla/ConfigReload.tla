---------------------------- MODULE ConfigReload ----------------------------
(* How a running client or server comes to follow its config file: the watch   *)
(* on the config's directory, the wait for a save to hold still, SIGHUP, and   *)
(* what a reload puts in force.                                                *)
(*                                                                             *)
(* The writer of the file and the watcher's thread run beside the process, so  *)
(* the file may change between any two looks at it.                            *)
EXTENDS ConfigRules, FiniteSets

CONSTANTS
    Live, Fixed,    \* the halves of the configs that are written: role -> set
    Default,        \* what a server without a config file starts with
    Listens,        \* the ports that `hawse server --listen' is given
    MaxWrites       \* bound on the writes to the file

VARIABLES
    role,       \* "client" or "server"
    terminal,   \* whether hawse runs on a terminal
    watching,   \* whether the config's directory could be watched
    listen,     \* {} or {the port of --listen}
    file,       \* {} when there is none, else {[stamp, cfg]}
    writes,     \* writes so far, each with a stamp of its own
    raised,     \* the watcher has an event its thread has not passed on
    wakeup,     \* `events', a channel of one
    hup,        \* a SIGHUP that has not been received
    cancelled,  \* the process's token
    phase,      \* where the process stands
    read,       \* Reloads.read: the stamp last read, {} for no file
    look,       \* {} or {what the file looked like at the last look}
    started,    \* {} or the server's {config it started with}
    inForce,    \* {} or {the config that is in force}
    upcoming    \* {} or {the config the next client starts from}

(* The configs of a role, and the ones that load.  One that does not parse is  *)
(* as good as one that does not validate.                                      *)
Config(r) == [live : Live[r], fixed : Fixed[r]]
Loads(r, c) == IF r = "server" THEN ValidServer(c) ELSE ValidClient(c)

ASSUME ReloadAssumption ==
    /\ Default \in Config("server") /\ Loads("server", Default)
    /\ \A clients \in Live["server"] : \A n \in DOMAIN clients :
           clients[n].ports \subseteq [first : Nat, last : Nat]
    /\ \A f \in Fixed["server"] :
           /\ {"pool", "listen"} \subseteq DOMAIN f
           /\ f.pool \in [first : Nat, last : Nat] /\ f.listen \in Nat
    /\ Listens \subseteq Nat
    /\ MaxWrites \in Nat

surroundings == <<role, terminal, watching, listen>>
outside == <<file, writes, raised>>
process == <<phase, read, look, started, inForce, upcoming>>
reloadVars == <<surroundings, outside, wakeup, hup, cancelled, process>>

-----------------------------------------------------------------------------

Stamp(f) == {x.stamp : x \in f}

ReloadInit ==
    /\ role \in {"client", "server"}
    /\ terminal \in BOOLEAN /\ watching \in BOOLEAN
    /\ listen \in {{}} \cup (IF role = "server" THEN {{n} : n \in Listens} ELSE {})
    /\ file \in {{}} \cup {{[stamp |-> 0, cfg |-> c]} : c \in Config(role)}
    /\ writes = 0 /\ raised = FALSE /\ wakeup = FALSE /\ hup = FALSE /\ cancelled = FALSE
    /\ phase = "watch" /\ read = {} /\ look = {}
    /\ started = {} /\ inForce = {} /\ upcoming = {}

Moved(change) ==
    /\ change
    /\ raised' = (raised \/ (watching /\ phase # "watch"))
    /\ UNCHANGED <<surroundings, wakeup, hup, cancelled, process>>

(* One write of a save, which may leave half of it behind: any config or one   *)
(* that does not load. A rename over the file looks the same.                  *)
Write(c) ==
    /\ writes < MaxWrites
    /\ Moved(/\ writes' = writes + 1
             /\ file' = {[stamp |-> writes', cfg |-> c]})

RemoveFile ==
    /\ file # {} /\ writes < MaxWrites
    /\ Moved(file' = {} /\ writes' = writes + 1)

(* Another file of the directory changes, as often as it likes. *)
Noise == watching /\ phase # "watch" /\ ~raised /\ Moved(UNCHANGED <<file, writes>>)

(* The watcher's thread: a full channel already holds the wakeup. *)
Deliver ==
    /\ raised
    /\ raised' = FALSE /\ wakeup' = TRUE
    /\ UNCHANGED <<surroundings, file, writes, hup, cancelled, process>>

(* On a terminal a SIGHUP stops hawse; elsewhere it asks for a reload. A       *)
(* signal that comes before its handler is in place ends the process.          *)
Hangup ==
    /\ phase \notin IF terminal THEN {"watch", "start"} ELSE {"watch"}
    /\ hup' = (hup \/ ~terminal) /\ cancelled' = (cancelled \/ terminal)
    /\ UNCHANGED <<surroundings, outside, wakeup, process>>

Interrupt ==
    /\ ~cancelled /\ phase \notin {"watch", "start"}
    /\ cancelled' = TRUE
    /\ UNCHANGED <<surroundings, outside, wakeup, hup, process>>

-----------------------------------------------------------------------------
(* The process.                                                                *)

Own(change) ==
    change /\ UNCHANGED <<surroundings, outside, cancelled>>

(* Reloads::new: the directory is watched first, and the stamp taken before    *)
(* the config is first read.                                                   *)
Watch ==
    /\ phase = "watch"
    /\ Own(/\ phase' = "start" /\ read' = Stamp(file)
           /\ UNCHANGED <<wakeup, hup, look, started, inForce, upcoming>>)

(* What the file holds: nothing for one that does not load, and for a client   *)
(* with no file; a server with no file runs on the defaults.                   *)
Found ==
    IF file = {} THEN IF role = "server" THEN {Default} ELSE {}
    ELSE {x.cfg : x \in {y \in file : Loads(role, y.cfg)}}

(* `load': --listen overrides what has been validated, and is not itself.      *)
Listening(cfg) == IF listen = {} THEN cfg
                  ELSE [cfg EXCEPT !.fixed.listen = CHOOSE n \in listen : TRUE]
Loaded == {Listening(cfg) : cfg \in Found}

(* The first load: a failure ends the command. *)
FirstLoad ==
    /\ phase = "start"
    /\ Own(/\ phase' = IF Loaded = {} THEN "stopped" ELSE "next"
           /\ inForce' = Loaded
           /\ started' = {[cfg |-> c, found |-> file # {}] : c \in Loaded}
           /\ UNCHANGED <<wakeup, hup, read, look, upcoming>>)

(* Reloads::next: an event says when to look, and is left waiting while a look *)
(* is due.                                                                     *)
EventReceived ==
    /\ phase = "next" /\ wakeup /\ look = {}
    /\ Own(/\ wakeup' = FALSE /\ look' = {Stamp(file)}
           /\ UNCHANGED <<hup, phase, read, started, inForce, upcoming>>)

(* SETTLE after the last look: a file that has gone or is the one last read is *)
(* let be, one that has held still is read, any other is looked at again.      *)
Unread(now) == now # {} /\ now # read

LookDue ==
    /\ phase = "next" /\ look # {}
    /\ LET now == Stamp(file) IN
       Own(/\ phase' = IF Unread(now) /\ now \in look THEN "stamp" ELSE "next"
           /\ look' = IF ~Unread(now) \/ now \in look THEN {} ELSE {now}
           /\ UNCHANGED <<wakeup, hup, read, started, inForce, upcoming>>)

HupReceived ==
    /\ phase = "next" /\ hup
    /\ Own(/\ hup' = FALSE /\ phase' = "stamp" /\ look' = {}
           /\ UNCHANGED <<wakeup, read, started, inForce, upcoming>>)

(* The end of Reloads::next: the file is stamped before it is read. *)
Restamp ==
    /\ phase = "stamp"
    /\ Own(/\ phase' = "load" /\ read' = Stamp(file)
           /\ UNCHANGED <<wakeup, hup, look, started, inForce, upcoming>>)

(* The client's reload: a change of [expose.*] alone reaches the running       *)
(* client, any other ends its session and starts a client on what was read.    *)
NeedsReconnect(new) == \E c \in inForce : NeedsMore(c, new)

ReloadClient ==
    /\ phase = "load" /\ role = "client"
    /\ LET moved == \E new \in Loaded : NeedsReconnect(new) IN
       Own(/\ upcoming' = IF moved THEN Loaded ELSE {}
           /\ inForce' = IF moved \/ Loaded = {} THEN inForce ELSE Loaded
           /\ phase' = IF moved THEN "ending" ELSE "next"
           /\ UNCHANGED <<wakeup, hup, read, look, started>>)

(* Mutant: a new client starts from a fresh stamp without a fresh read. *)
RunEnds_Restamps ==
    /\ phase = "ending"
    /\ Own(/\ inForce' = upcoming /\ upcoming' = {} /\ phase' = "next" /\ read' = Stamp(file)
           /\ UNCHANGED <<wakeup, hup, look, started>>)

(* run.await, after which the next client runs. *)
RunEnds ==
    /\ phase = "ending"
    /\ Own(/\ inForce' = upcoming /\ upcoming' = {} /\ phase' = "next"
           /\ UNCHANGED <<wakeup, hup, read, look, started>>)

(* Mutant: the new grants are taken without being checked against the pool     *)
(* that runs.                                                                  *)
Reloaded_Unchecked(new) == {[s.cfg EXCEPT !.live = new.live] : s \in started}

(* reloaded: the clients and `bind' of the file over the rest of what the      *)
(* server started with, if they validate together.                             *)
Reloaded(new) ==
    {c \in {[s.cfg EXCEPT !.live = new.live] : s \in started} : Loads("server", c)}

(* The server's reload: a server started from a file keeps its policy when the *)
(* file has gone, and when the reloaded policy does not validate.              *)
ReloadServer ==
    /\ phase = "load" /\ role = "server"
    /\ LET gone == file = {} /\ \E s \in started : s.found
           policy == IF gone THEN {} ELSE UNION {Reloaded(new) : new \in Loaded}
       IN Own(/\ inForce' = IF policy = {} THEN inForce ELSE policy
              /\ phase' = "next"
              /\ UNCHANGED <<wakeup, hup, read, look, started, upcoming>>)

(* The client's run or the server's serve has ended: cancelled, or a config    *)
(* error that the client does not retry.                                       *)
RunStops ==
    /\ phase = "next" /\ (cancelled \/ role = "client")
    /\ Own(/\ phase' = "stopped" /\ look' = {}
           /\ UNCHANGED <<wakeup, hup, read, started, inForce, upcoming>>)

-----------------------------------------------------------------------------

ReloadStep ==
    \/ Watch \/ FirstLoad \/ EventReceived \/ LookDue \/ HupReceived \/ Restamp
    \/ ReloadClient \/ RunEnds \/ ReloadServer

ReloadNext ==
    \/ \E c \in Config(role) : Write(c)
    \/ RemoveFile \/ Noise \/ Deliver \/ Hangup \/ Interrupt \/ ReloadStep \/ RunStops

ReloadSpec == ReloadInit /\ [][ReloadNext]_reloadVars

(* The process is polled, the watcher's thread runs, and a due timer or a      *)
(* pending signal is picked although events keep coming. Nothing makes the     *)
(* writer write, the user signal or a client give up.                          *)
ReloadFairness ==
    /\ WF_reloadVars(Watch) /\ WF_reloadVars(FirstLoad)
    /\ WF_reloadVars(EventReceived) /\ WF_reloadVars(LookDue)
    /\ WF_reloadVars(HupReceived) /\ WF_reloadVars(Restamp)
    /\ WF_reloadVars(ReloadClient) /\ WF_reloadVars(RunEnds)
    /\ WF_reloadVars(ReloadServer) /\ WF_reloadVars(Deliver)
    /\ WF_reloadVars(cancelled /\ RunStops)

-----------------------------------------------------------------------------
(* Properties.                                                                 *)

(* What the file asks of a process that keeps running: a server takes the live *)
(* half only.                                                                  *)
Wanted ==
    IF role = "client" THEN Loaded ELSE UNION {Reloaded(new) : new \in Loaded}

(* A config that was saved and loads is in force in the end, however its       *)
(* writes, the noise in its directory, signals and reloads interleave, and     *)
(* whatever was saved on the way to it (commands/mod.rs: "no change after that *)
(* read goes unseen"). Only where the directory is watched.                    *)
LastSaveInForce ==
    watching => <>[](\/ phase = "stopped" \/ file = {} \/ Wanted = {}
                     \/ inForce = Wanted)

(* Through any sequence of files a server keeps the ports it started with, and *)
(* no grant in force names a port of the pool it runs with -- which the file   *)
(* on disk may not mention any more -- or its listen port, and no two clients  *)
(* have one key. A policy that --listen overrides unchecked is excepted for as *)
(* long as it is the one the server started with.                              *)
InForceSound ==
    role = "server" => \A c \in inForce : \A s \in started :
        /\ c.fixed = s.cfg.fixed
        /\ \A n \in DOMAIN c.live : \A r \in c.live[n].ports :
               \A port \in r.first .. r.last :
                   /\ ~Covers(s.cfg.fixed.pool, port)
                   /\ port = s.cfg.fixed.listen => listen # {} /\ c = s.cfg
        /\ \A n, m \in DOMAIN c.live : c.live[n].key = c.live[m].key => n = m

(* "client `{0}` is granted the listen port {1}; a grant cannot name it"       *)
(* (config.rs): no grant in force names the port the server listens on. The    *)
(* override of --listen comes after that check.                                *)
GrantsSpareListen ==
    role = "server" => \A c \in inForce : \A n \in DOMAIN c.live :
        \A r \in c.live[n].ports : ~Covers(r, c.fixed.listen)

=============================================================================
