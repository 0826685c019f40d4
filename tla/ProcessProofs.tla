---------------------------- MODULE ProcessProofs ----------------------------
(***************************************************************************)
(* Proofs about a hawse process as a whole: what a reload puts in force    *)
(* (ConfigReload), and how a client that shares its key backs off          *)
(* (ClientRun); for any configs, any number of writes and of rivals.       *)
(***************************************************************************)
EXTENDS ConfigReload, ClientRun, TLAPS

-----------------------------------------------------------------------------
(***************************************************************************)
(* ConfigReload.  There is one file, and one config a server started with; *)
(* what is in force is that one, or validated together with its ports.     *)
(***************************************************************************)
FileInv == file = {} \/ \E x : file = {x} /\ x.cfg \in Config(role)

ListenInv == listen = {} \/ \E n \in Nat : listen = {n}

Typed(c) == /\ c = [live |-> c.live, fixed |-> c.fixed]
            /\ c.live \in Live["server"]
            /\ c.fixed.pool \in [first : Nat, last : Nat] /\ c.fixed.listen \in Nat

\* What a config keeps of its validation when --listen overrides its port, and what not.
Checked(c) ==
    /\ \A n \in DOMAIN c.live : \A r \in c.live[n].ports : ~Overlaps(r, c.fixed.pool)
    /\ \A n, m \in DOMAIN c.live : c.live[n].key = c.live[m].key => n = m
Spared(c) ==
    \A n \in DOMAIN c.live : \A r \in c.live[n].ports : ~Covers(r, c.fixed.listen)

StartedInv ==
    role = "server" =>
        /\ started = {} \/ \E s : started = {s} /\ Typed(s.cfg)
        /\ upcoming = {}

InForceInv ==
    role = "server" => \A c \in inForce :
        /\ Typed(c) /\ Checked(c)
        /\ Spared(c) \/ (listen # {} /\ \A s \in started : c = s.cfg)
        /\ \A s \in started : c.fixed = s.cfg.fixed

ReloadInv == /\ role \in {"client", "server"}
             /\ FileInv /\ ListenInv /\ StartedInv /\ InForceInv

\* A config of the server's that validates.
LEMMA ValidIsChecked ==
    ASSUME NEW c, Loads("server", c) PROVE Checked(c) /\ Spared(c)
BY DEF Loads, ValidServer, GrantsClear, Checked, Spared

\* What a file of the server's holds is one config at most, and it validates.
LEMMA FoundIsSound ==
    ASSUME ReloadInv, role = "server"
    PROVE  /\ \A c \in Found : c \in Config("server") /\ Loads("server", c)
           /\ \A c, d \in Found : c = d
<1>1. CASE file = {}
  BY <1>1, ReloadAssumption DEF Found, ReloadAssumption
<1>2. CASE file # {}
  <2>1. PICK x : file = {x} /\ x.cfg \in Config("server")
    BY <1>2 DEF ReloadInv, FileInv
  <2>2. Found = {y.cfg : y \in {z \in file : Loads("server", z.cfg)}}
    BY <1>2 DEF Found
  <2> QED
    BY <2>1, <2>2
<1> QED
  BY <1>1, <1>2

\* --listen changes a config's listen port, and nothing else of it.
LEMMA ListeningIsSound ==
    ASSUME ListenInv, NEW c \in Config("server"), Loads("server", c)
    PROVE  /\ Typed(Listening(c)) /\ Checked(Listening(c))
           /\ listen = {} => Spared(Listening(c))
<1>1. /\ c = [live |-> c.live, fixed |-> c.fixed]
      /\ c.live \in Live["server"] /\ c.fixed \in Fixed["server"]
  BY DEF Config
<1>2. /\ {"pool", "listen"} \subseteq DOMAIN c.fixed
      /\ c.fixed.pool \in [first : Nat, last : Nat] /\ c.fixed.listen \in Nat
  BY <1>1, ReloadAssumption DEF ReloadAssumption
<1>3. Checked(c) /\ Spared(c)
  BY ValidIsChecked
<1>4. CASE listen = {}
  <2>1. Listening(c) = c
    BY <1>4 DEF Listening
  <2> QED
    BY <1>1, <1>2, <1>3, <2>1 DEF Typed
<1>5. CASE listen # {}
  <2>1. PICK n \in Nat : listen = {n}
    BY <1>5 DEF ListenInv
  <2>2. (CHOOSE m \in listen : TRUE) = n
    BY <2>1
  <2>3. PICK l : l = Listening(c)
    OBVIOUS
  <2>4. l = [c EXCEPT !.fixed.listen = n]
    BY <1>5, <2>2, <2>3 DEF Listening
  <2>5. PICK f : f = [c.fixed EXCEPT !.listen = n]
    OBVIOUS
  <2>6. f.pool = c.fixed.pool /\ f.listen = n
    BY <1>2, <2>5
  <2>7. l = [live |-> c.live, fixed |-> f]
    BY <1>1, <2>4, <2>5
  <2>8. l.live = c.live /\ l.fixed = f
    BY <2>7
  <2>9. Typed(l)
    BY <1>1, <1>2, <2>6, <2>7, <2>8 DEF Typed
  <2>10. Checked(l)
    BY <1>3, <2>6, <2>8 DEF Checked
  <2> QED
    BY <1>5, <2>3, <2>9, <2>10
<1> QED
  BY <1>4, <1>5

\* What a load finds is one config at most.
LEMMA LoadedIsSound ==
    ASSUME ReloadInv, role = "server"
    PROVE  /\ \A c \in Loaded : Typed(c) /\ Checked(c) /\ (listen = {} => Spared(c))
           /\ \A c, d \in Loaded : c = d
<1>1. \A c \in Loaded : \E d \in Found : c = Listening(d)
  BY DEF Loaded
<1>2. ListenInv
  BY DEF ReloadInv
<1>3. ASSUME NEW d \in Found
      PROVE  /\ Typed(Listening(d)) /\ Checked(Listening(d))
             /\ listen = {} => Spared(Listening(d))
  BY <1>2, FoundIsSound, ListeningIsSound
<1>4. \A d, e \in Found : d = e
  BY FoundIsSound
<1> QED
  BY <1>1, <1>3, <1>4

\* What a reload of the server makes of a config that loads.
LEMMA ReloadedIsSound ==
    ASSUME ReloadInv, role = "server", NEW new \in Loaded, NEW c \in Reloaded(new)
    PROVE  /\ Typed(c) /\ Checked(c) /\ Spared(c)
           /\ \A s \in started : c.fixed = s.cfg.fixed
<1>1. PICK s \in started : c = [s.cfg EXCEPT !.live = new.live] /\ Loads("server", c)
  BY DEF Reloaded
<1>2. Typed(s.cfg) /\ \A r \in started : r = s
  BY <1>1 DEF ReloadInv, StartedInv
<1>3. new.live \in Live["server"]
  BY LoadedIsSound DEF Typed
<1>4. PICK d : d = s.cfg
  OBVIOUS
<1>5. d = [live |-> d.live, fixed |-> d.fixed]
  BY <1>2, <1>4 DEF Typed
<1>6. c = [live |-> new.live, fixed |-> d.fixed]
  BY <1>1, <1>4, <1>5
<1>7. c.live = new.live /\ c.fixed = d.fixed
  BY <1>6
<1>8. Typed(c)
  BY <1>2, <1>3, <1>4, <1>6, <1>7 DEF Typed
<1> QED
  BY <1>1, <1>2, <1>4, <1>7, <1>8, ValidIsChecked

LEMMA ReloadStart ==
    ASSUME ReloadInit PROVE ReloadInv
<1>1. FileInv
  <2>1. CASE file = {}
    BY <2>1 DEF FileInv
  <2>2. CASE file # {}
    <3>1. PICK c \in Config(role) : file = {[stamp |-> 0, cfg |-> c]}
      BY <2>2 DEF ReloadInit
    <3>2. [stamp |-> 0, cfg |-> c].cfg = c
      OBVIOUS
    <3> QED
      BY <3>1, <3>2 DEF FileInv
  <2> QED
    BY <2>1, <2>2
<1>2. ListenInv
  BY ReloadAssumption DEF ReloadInit, ReloadAssumption, ListenInv
<1> QED
  BY <1>1, <1>2 DEF ReloadInit, ReloadInv, StartedInv, InForceInv

LEMMA ReloadKeeps ==
    ASSUME ReloadInv, [ReloadNext]_reloadVars PROVE ReloadInv'
<1>0. ASSUME role = "server", NEW c \in Loaded
      PROVE  /\ Typed(c) /\ Checked(c) /\ (Spared(c) \/ listen # {})
             /\ \A d \in Loaded : d = c
  <2>1. /\ \A e \in Loaded : Typed(e) /\ Checked(e) /\ (listen = {} => Spared(e))
        /\ \A d, e \in Loaded : d = e
    BY <1>0, LoadedIsSound
  <2> QED
    BY <1>0, <2>1
<1> USE DEF Typed, Checked, Spared
<1>1. ASSUME NEW c \in Config(role), Write(c) PROVE ReloadInv'
  <2>1. PICK x : x = [stamp |-> writes', cfg |-> c]
    OBVIOUS
  <2>2. /\ file' = {x} /\ x.cfg = c
        /\ UNCHANGED <<role, listen, started, inForce, upcoming>>
    BY <1>1, <2>1 DEF Write, Moved, surroundings, process
  <2>3. FileInv'
    BY <2>2 DEF FileInv, Config
  <2> QED
    BY <2>2, <2>3 DEF ReloadInv, ListenInv, StartedInv, InForceInv
<1>2. CASE RemoveFile \/ Noise
  <2>1. UNCHANGED <<role, listen, started, inForce, upcoming>> /\ file' \in {{}, file}
    BY <1>2 DEF RemoveFile, Noise, Moved, surroundings, process
  <2> QED
    BY <2>1 DEF ReloadInv, FileInv, ListenInv, StartedInv, InForceInv, Config
<1>3. CASE \/ Deliver \/ Hangup \/ Interrupt
           \/ Watch \/ EventReceived \/ LookDue \/ HupReceived \/ Restamp \/ RunStops
           \/ UNCHANGED reloadVars
  <2>1. UNCHANGED <<role, listen, file, started, inForce, upcoming>>
    BY <1>3 DEF Deliver, Hangup, Interrupt, Watch, EventReceived, LookDue, HupReceived,
                Restamp, RunStops, Own, reloadVars, surroundings, outside, process
  <2> QED
    BY <2>1 DEF ReloadInv, FileInv, ListenInv, StartedInv, InForceInv, Config
<1>4. CASE FirstLoad
  <2>1. /\ UNCHANGED <<role, listen, file, upcoming>>
        /\ inForce' = Loaded
        /\ started' = {[cfg |-> c, found |-> file # {}] : c \in Loaded}
    BY <1>4 DEF FirstLoad, Own, surroundings, outside
  <2>2. FileInv' /\ ListenInv'
    BY <2>1 DEF ReloadInv, FileInv, ListenInv, Config
  <2>3. StartedInv'
    <3>1. CASE Loaded = {}
      BY <2>1, <3>1 DEF ReloadInv, StartedInv
    <3>2. CASE role = "server" /\ Loaded # {}
      <4>1. PICK c : c \in Loaded
        BY <3>2
      <4>2. PICK s : s = [cfg |-> c, found |-> file # {}]
        OBVIOUS
      <4>3. Loaded = {c}
        BY <1>0, <3>2, <4>1
      <4>4. started' = {s} /\ s.cfg = c
        BY <2>1, <4>2, <4>3
      <4>5. Typed(s.cfg)
        BY <1>0, <3>2, <4>1, <4>4
      <4>6. upcoming' = {}
        BY <2>1, <3>2 DEF ReloadInv, StartedInv
      <4> QED
        BY <4>4, <4>5, <4>6 DEF StartedInv
    <3> QED
      BY <2>1, <3>1, <3>2 DEF StartedInv
  <2>4. InForceInv'
    <3> SUFFICES ASSUME role = "server", NEW c \in Loaded
                 PROVE  /\ Typed(c) /\ Checked(c)
                        /\ Spared(c) \/ (listen # {} /\ \A s \in started' : c = s.cfg)
                        /\ \A s \in started' : c.fixed = s.cfg.fixed
      BY <2>1 DEF InForceInv
    <3>1. \A s \in started' : s.cfg = c
      BY <2>1, <1>0
    <3> QED
      BY <1>0, <3>1
  <2> QED
    BY <2>1, <2>2, <2>3, <2>4 DEF ReloadInv
<1>5. CASE ReloadClient \/ RunEnds
  <2>1. CASE role = "client"
    BY <1>5, <2>1 DEF ReloadClient, RunEnds, Own, surroundings, outside, ReloadInv, FileInv,
                      ListenInv, StartedInv, InForceInv, Config
  <2>2. CASE RunEnds /\ role = "server"
    <3>1. /\ UNCHANGED <<role, listen, file, started>>
          /\ inForce' = {} /\ upcoming' = {}
      BY <2>2 DEF RunEnds, Own, surroundings, outside, ReloadInv, StartedInv
    <3> QED
      BY <3>1 DEF ReloadInv, FileInv, ListenInv, StartedInv, InForceInv, Config
  <2> QED
    BY <1>5, <2>1, <2>2 DEF ReloadClient, ReloadInv
<1>6. CASE ReloadServer
  <2>1. /\ UNCHANGED <<role, listen, file, started, upcoming>> /\ role = "server"
        /\ \/ inForce' = inForce
           \/ inForce' = UNION {Reloaded(new) : new \in Loaded}
    BY <1>6 DEF ReloadServer, Own, surroundings, outside
  <2>2. FileInv' /\ ListenInv' /\ StartedInv'
    BY <2>1 DEF ReloadInv, FileInv, ListenInv, StartedInv, Config
  <2>3. CASE inForce' = inForce
    BY <2>1, <2>2, <2>3 DEF ReloadInv, InForceInv
  <2>4. CASE inForce' = UNION {Reloaded(new) : new \in Loaded}
    <3>1. ASSUME NEW c \in inForce'
          PROVE  /\ Typed(c) /\ Checked(c) /\ Spared(c)
                 /\ \A s \in started : c.fixed = s.cfg.fixed
      <4>1. PICK new \in Loaded : c \in Reloaded(new)
        BY <2>4
      <4> QED
        BY <2>1, <4>1, ReloadedIsSound
    <3> QED
      BY <2>1, <2>2, <3>1 DEF ReloadInv, InForceInv
  <2> QED
    BY <2>1, <2>3, <2>4
<1> QED
  BY <1>1, <1>2, <1>3, <1>4, <1>5, <1>6 DEF ReloadNext, ReloadStep

\* Whatever files a server is reloaded with, no grant in force names a port of the pool it
\* runs with, or its listen port unless --listen overrode that of the config it started
\* with, and no two clients have one key (load and reloaded in commands/server.rs,
\* ServerConfig::validate).
THEOREM InForceIsSound == ReloadSpec => []InForceSound
<1>1. ReloadInv => InForceSound
  <2> SUFFICES ASSUME ReloadInv, role = "server", NEW c \in inForce, NEW s \in started
               PROVE  /\ c.fixed = s.cfg.fixed
                      /\ \A n \in DOMAIN c.live : \A r \in c.live[n].ports :
                             \A port \in r.first .. r.last :
                                 /\ ~Covers(s.cfg.fixed.pool, port)
                                 /\ port = s.cfg.fixed.listen => listen # {} /\ c = s.cfg
                      /\ \A n, m \in DOMAIN c.live : c.live[n].key = c.live[m].key => n = m
    BY DEF InForceSound
  <2>1. /\ Typed(c) /\ Checked(c) /\ c.fixed = s.cfg.fixed
        /\ Spared(c) \/ (listen # {} /\ c = s.cfg)
    BY DEF ReloadInv, InForceInv
  <2>2. \A n, m \in DOMAIN c.live : c.live[n].key = c.live[m].key => n = m
    BY <2>1 DEF Checked
  <2>3. ASSUME NEW n \in DOMAIN c.live, NEW r \in c.live[n].ports,
               NEW port \in r.first .. r.last
        PROVE  /\ ~Covers(c.fixed.pool, port)
               /\ port = c.fixed.listen => listen # {} /\ c = s.cfg
    <3>1. ~Overlaps(r, c.fixed.pool)
      BY <2>1, <2>3 DEF Checked
    <3>2. /\ r.first \in Nat /\ r.last \in Nat
          /\ c.fixed.pool.first \in Nat /\ c.fixed.pool.last \in Nat /\ c.fixed.listen \in Nat
      <4>1. c.live \in Live["server"]
        BY <2>1 DEF Typed
      <4>2. r \in [first : Nat, last : Nat]
        BY <4>1, ReloadAssumption DEF ReloadAssumption
      <4> QED
        BY <2>1, <4>2 DEF Typed
    <3>3. port \in Int /\ r.first <= port /\ port <= r.last
      BY <3>2
    <3>4. Covers(r, port)
      BY <3>3 DEF Covers
    <3>5. ~Covers(c.fixed.pool, port)
      BY <3>1, <3>2, <3>3 DEF Covers, Overlaps
    <3>6. ASSUME port = c.fixed.listen PROVE listen # {} /\ c = s.cfg
      BY <2>1, <3>4, <3>6 DEF Spared
    <3> QED
      BY <3>5, <3>6
  <2> QED
    BY <2>1, <2>2, <2>3
<1> QED
  BY <1>1, ReloadStart, ReloadKeeps, PTL DEF ReloadSpec

-----------------------------------------------------------------------------
(***************************************************************************)
(* ClientRun.  While nothing but the rivals' Hellos ends a session, every  *)
(* rival that is not stopped is back with a Hello of its own within a time *)
(* that its place bounds (Back), and the session that has the key lasted   *)
(* no longer than the rest of the longest such time: so none ever lasts    *)
(* for Healthy.                                                            *)
(***************************************************************************)
Longest == Cap + 2 * DialTime + Drain

\* The ticks until a rival without the key says Hello, at most.
Back(r) ==
    CASE r.at \in {"dialing", "hello"}     -> r.budget
      [] r.at \in {"greeting", "binding"}  -> r.budget + Drain + Cap + DialTime
      [] r.at = "up"                       -> Drain + Cap + DialTime
      [] r.at = "hanging"                  -> r.budget + Cap + DialTime
      [] r.at = "over"                     -> Cap + DialTime
      [] r.at = "waiting"                  -> r.timer + DialTime
      [] OTHER                             -> DialTime

Greeted == {"greeting", "binding", "up"}
CalmRun == [at : Location, quic : Attempt, tcp : Attempt, left : Nat, timer : Nat, budget : Nat,
            outcome : {"stop"} \cup Failure, told : BOOLEAN, welcomed : BOOLEAN, lasted : Nat,
            failures : Nat]

\* What holds of one client's task.
Alone(r) ==
    /\ r \in CalmRun
    /\ r.told => r.at \in Greeted
    /\ r.at \in {"starting", "dialing", "hello", "greeting", "waiting"} => ~r.welcomed
    /\ ~r.welcomed => r.lasted = 0
    /\ r.at = "dialing" => "trying" \in {r.quic, r.tcp}
    /\ r.at \in {"dialing", "hello", "greeting"} => r.budget <= DialTime
    /\ r.at = "binding" => r.lasted + r.budget <= DialTime
    /\ r.at = "up" /\ r.told => r.lasted <= Longest
    /\ r.at = "hanging" => r.budget <= Drain /\ r.lasted + r.budget <= Longest + Drain
    /\ r.at = "over" => r.lasted <= Longest + Drain
    /\ r.at = "waiting" => r.timer <= Cap

Has(r) == r.at \in Greeted /\ ~r.told

AloneInv  == \A p \in Clients : Alone(run[p])
HolderInv == \A p \in Clients : holder = p <=> Has(run[p])
PairInv   == \A p, q \in Clients :
                 holder = p /\ p # q /\ run[q].at # "stopped" =>
                     run[p].lasted + Back(run[q]) <= Longest
CalmInv   == /\ run = [p \in Clients |-> run[p]]
             /\ \A p \in Clients : ~cancel[p]
             /\ AloneInv /\ HolderInv /\ PairInv
RivalsInv == calm => CalmInv

\* What a step shows of the waits.
NextWait ==
    \A p \in Clients :
        calm /\ At(p) = "over" /\ run'[p].at = "waiting" =>
            run'[p].failures = IF run[p].failures = Top THEN Top ELSE run[p].failures + 1

LEMMA RivalsStart == RunInit => RivalsInv
<1> SUFFICES ASSUME RunInit PROVE CalmInv
  BY DEF RivalsInv
<1>1. \A p \in Clients : run[p] = NewRun
  BY DEF RunInit
<1>2. Alone(NewRun) /\ ~Has(NewRun)
  BY DEF Alone, Has, CalmRun, NewRun, Location, Attempt, Failure, Greeted
<1>3. AloneInv /\ HolderInv /\ PairInv
  BY <1>1, <1>2, RunAssumption DEF AloneInv, HolderInv, PairInv, RunInit, RunAssumption
<1> QED
  BY <1>3 DEF CalmInv, RunInit

\* How long a rival may be away in all: what the bound on each place comes to.
LEMMA BackBound ==
    ASSUME NEW r, Alone(r)
    PROVE  /\ r.at # "stopped" => Back(r) <= Longest
           /\ Back(r) \in Nat /\ Longest \in Nat
BY RunAssumption DEF Alone, Back, Longest, CalmRun, Location, RunAssumption

\* One client moves on: it neither gets the key nor loses it, its session lasts no
\* longer by that, and it is back no later.
LEMMA OneMoves ==
    ASSUME CalmInv, NEW p \in Clients, NEW x, x = run[p], NEW r,
           run' = [run EXCEPT ![p] = r], UNCHANGED <<cancel, holder>>,
           Alone(r), Has(r) <=> Has(x), Has(r) => r.lasted = x.lasted,
           x.at = "stopped" => r.at = "stopped", r.at = "stopped" \/ Back(r) <= Back(x),
           x.at = "over" /\ r.at = "waiting" =>
               r.failures = IF x.failures = Top THEN Top ELSE x.failures + 1
    PROVE  CalmInv' /\ NextWait
<1>1. \A q \in Clients : run'[q] = IF q = p THEN r ELSE run[q]
  BY DEF CalmInv
<1>2. run' = [q \in Clients |-> run'[q]]
  BY <1>1 DEF CalmInv
<1>3. AloneInv'
  BY <1>1 DEF CalmInv, AloneInv
<1>4. HolderInv'
  BY <1>1 DEF CalmInv, HolderInv
<1>5. ASSUME NEW h \in Clients, NEW q \in Clients, holder' = h, h # q, run'[q].at # "stopped"
      PROVE  run'[h].lasted + Back(run'[q]) <= Longest
  <2>1. run[q].at # "stopped" /\ run[h].lasted + Back(run[q]) <= Longest
    BY <1>1, <1>5 DEF CalmInv, PairInv
  <2>2. run'[h].lasted = run[h].lasted
    BY <1>1, <1>5 DEF CalmInv, HolderInv
  <2>3. Back(run'[q]) <= Back(run[q])
    <3>1. CASE q = p
      BY <1>1, <1>5, <3>1
    <3>2. CASE q # p
      <4>1. run'[q] = run[q]
        BY <1>1, <3>2
      <4>2. Back(run[q]) \in Nat
        BY BackBound DEF CalmInv, AloneInv
      <4> QED
        BY <4>1, <4>2
    <3> QED
      BY <3>1, <3>2
  <2>4. /\ Back(run'[q]) \in Nat /\ Back(run[q]) \in Nat /\ Longest \in Nat
    BY <1>3, BackBound DEF CalmInv, AloneInv
  <2>5. run[h].lasted \in Nat
    BY DEF CalmInv, AloneInv, Alone, CalmRun
  <2> QED
    BY <2>1, <2>2, <2>3, <2>4, <2>5
<1>6. PairInv'
  BY <1>5 DEF PairInv
<1>7. NextWait
  BY <1>1 DEF NextWait, At
<1> QED
  BY <1>2, <1>3, <1>4, <1>6, <1>7 DEF CalmInv

\* TCP is dialed beside QUIC.
LEMMA FallbackKeeps ==
    ASSUME CalmInv, NEW p \in Clients, FallbackDue(p)
    PROVE  CalmInv' /\ NextWait
<1>1. PICK x : x = run[p]
  OBVIOUS
<1>2. Alone(x)
  BY <1>1 DEF CalmInv, AloneInv
<1>3. PICK r : r = [x EXCEPT !.tcp = "trying"]
  OBVIOUS
<1>4. x.at = "dialing" /\ UNCHANGED <<cancel, holder>> /\ run' = [run EXCEPT ![p] = r]
  BY <1>1, <1>3 DEF FallbackDue, At, Become
<1>5. /\ r.at = x.at /\ r.tcp = "trying" /\ r.told = x.told /\ r.welcomed = x.welcomed /\ r.lasted = x.lasted
      /\ r.budget = x.budget /\ r.timer = x.timer
      /\ r \in CalmRun
  BY <1>2, <1>3 DEF Alone, CalmRun, Location, Attempt, Failure
<1>6. Alone(r) /\ (Has(r) <=> Has(x))
  BY <1>2, <1>4, <1>5, RunAssumption DEF Alone, Has, Greeted, CalmRun, Longest, RunAssumption
<1>7. r.at = "stopped" \/ Back(r) <= Back(x)
  BY <1>2, <1>4, <1>5, RunAssumption DEF Back, Alone, CalmRun, RunAssumption
<1>8. x.at # "stopped" /\ ~(x.at = "over" /\ r.at = "waiting") /\ r.lasted = x.lasted
  BY <1>4, <1>5
<1> QED
  BY <1>1, <1>4, <1>6, <1>7, <1>8, OneMoves

\* A transport connects.
LEMMA ConnectKeeps ==
    ASSUME CalmInv, NEW p \in Clients, Connect(p)
    PROVE  CalmInv' /\ NextWait
<1>1. PICK x : x = run[p]
  OBVIOUS
<1>2. Alone(x)
  BY <1>1 DEF CalmInv, AloneInv
<1>3. PICK r : r = [x EXCEPT !.at = "hello", !.quic = "off", !.tcp = "off"]
  OBVIOUS
<1>4. x.at = "dialing" /\ UNCHANGED <<cancel, holder>> /\ run' = [run EXCEPT ![p] = r]
  BY <1>1, <1>3 DEF Connect, At, Become
<1>5. /\ r.at = "hello" /\ r.told = x.told /\ r.welcomed = x.welcomed /\ r.lasted = x.lasted
      /\ r.budget = x.budget /\ r.timer = x.timer
      /\ r \in CalmRun
  BY <1>2, <1>3 DEF Alone, CalmRun, Location, Attempt, Failure
<1>6. Alone(r) /\ (Has(r) <=> Has(x))
  BY <1>2, <1>4, <1>5, RunAssumption DEF Alone, Has, Greeted, CalmRun, Longest, RunAssumption
<1>7. r.at = "stopped" \/ Back(r) <= Back(x)
  BY <1>2, <1>4, <1>5, RunAssumption DEF Back, Alone, CalmRun, RunAssumption
<1>8. x.at # "stopped" /\ ~(x.at = "over" /\ r.at = "waiting") /\ r.lasted = x.lasted
  BY <1>4, <1>5
<1> QED
  BY <1>1, <1>4, <1>6, <1>7, <1>8, OneMoves

\* Welcome comes, told or not.
LEMMA WelcomedKeeps ==
    ASSUME CalmInv, NEW p \in Clients, Welcomed(p)
    PROVE  CalmInv' /\ NextWait
<1>1. PICK x : x = run[p]
  OBVIOUS
<1>2. Alone(x)
  BY <1>1 DEF CalmInv, AloneInv
<1>3. PICK r : r = [x EXCEPT !.at = "binding", !.welcomed = TRUE]
  OBVIOUS
<1>4. x.at = "greeting" /\ UNCHANGED <<cancel, holder>> /\ run' = [run EXCEPT ![p] = r]
  BY <1>1, <1>3 DEF Welcomed, At, Become
<1>5. /\ r.at = "binding" /\ r.told = x.told /\ r.welcomed /\ r.lasted = x.lasted
      /\ r.budget = x.budget /\ r.timer = x.timer
      /\ r \in CalmRun
  BY <1>2, <1>3 DEF Alone, CalmRun, Location, Attempt, Failure
<1>6. Alone(r) /\ (Has(r) <=> Has(x))
  BY <1>2, <1>4, <1>5, RunAssumption DEF Alone, Has, Greeted, CalmRun, Longest, RunAssumption
<1>7. r.at = "stopped" \/ Back(r) <= Back(x)
  BY <1>2, <1>4, <1>5, RunAssumption DEF Back, Alone, CalmRun, RunAssumption
<1>8. x.at # "stopped" /\ ~(x.at = "over" /\ r.at = "waiting") /\ r.lasted = x.lasted
  BY <1>4, <1>5
<1> QED
  BY <1>1, <1>4, <1>6, <1>7, <1>8, OneMoves

\* The binds are sent: one that was told ends at once.
LEMMA BindsSentKeeps ==
    ASSUME CalmInv, NEW p \in Clients, BindsSent(p)
    PROVE  CalmInv' /\ NextWait
<1>1. PICK x : x = run[p]
  OBVIOUS
<1>2. Alone(x)
  BY <1>1 DEF CalmInv, AloneInv
<1>3. PICK r : r = [x EXCEPT !.at = "up"]
  OBVIOUS
<1>4. x.at = "binding" /\ UNCHANGED <<cancel, holder>> /\ run' = [run EXCEPT ![p] = r]
  BY <1>1, <1>3 DEF BindsSent, At, Become
<1>5. /\ r.at = "up" /\ r.told = x.told /\ r.welcomed = x.welcomed /\ r.lasted = x.lasted
      /\ r.budget = x.budget /\ r.timer = x.timer
      /\ r \in CalmRun
  BY <1>2, <1>3 DEF Alone, CalmRun, Location, Attempt, Failure
<1>6. Alone(r) /\ (Has(r) <=> Has(x))
  BY <1>2, <1>4, <1>5, RunAssumption DEF Alone, Has, Greeted, CalmRun, Longest, RunAssumption
<1>7. r.at = "stopped" \/ Back(r) <= Back(x)
  BY <1>2, <1>4, <1>5, RunAssumption DEF Back, Alone, CalmRun, RunAssumption
<1>8. x.at # "stopped" /\ ~(x.at = "over" /\ r.at = "waiting") /\ r.lasted = x.lasted
  BY <1>4, <1>5
<1> QED
  BY <1>1, <1>4, <1>6, <1>7, <1>8, OneMoves

\* The session is hung up.
LEMMA HungUpKeeps ==
    ASSUME CalmInv, NEW p \in Clients, HungUp(p)
    PROVE  CalmInv' /\ NextWait
<1>1. PICK x : x = run[p]
  OBVIOUS
<1>2. Alone(x)
  BY <1>1 DEF CalmInv, AloneInv
<1>3. PICK r : r = [x EXCEPT !.at = IF x.outcome = "stop" THEN "stopped" ELSE "over"]
  OBVIOUS
<1>4. x.at = "hanging" /\ UNCHANGED <<cancel, holder>> /\ run' = [run EXCEPT ![p] = r]
  BY <1>1, <1>3 DEF HungUp, At, Become
<1>5. /\ r.at \in {"stopped", "over"} /\ r.told = x.told /\ r.welcomed = x.welcomed /\ r.lasted = x.lasted
      /\ r.budget = x.budget /\ r.timer = x.timer
      /\ r \in CalmRun
  BY <1>2, <1>3 DEF Alone, CalmRun, Location, Attempt, Failure
<1>6. Alone(r) /\ (Has(r) <=> Has(x))
  BY <1>2, <1>4, <1>5, RunAssumption DEF Alone, Has, Greeted, CalmRun, Longest, RunAssumption
<1>7. r.at = "stopped" \/ Back(r) <= Back(x)
  BY <1>2, <1>4, <1>5, RunAssumption DEF Back, Alone, CalmRun, RunAssumption
<1>8. x.at # "stopped" /\ ~(x.at = "over" /\ r.at = "waiting") /\ r.lasted = x.lasted
  BY <1>4, <1>5
<1> QED
  BY <1>1, <1>4, <1>6, <1>7, <1>8, OneMoves

\* A client gives up for good.
LEMMA GiveUpKeeps ==
    ASSUME CalmInv, NEW p \in Clients, GiveUp(p)
    PROVE  CalmInv' /\ NextWait
<1>1. PICK x : x = run[p]
  OBVIOUS
<1>2. Alone(x)
  BY <1>1 DEF CalmInv, AloneInv
<1>3. PICK r : r = [x EXCEPT !.at = "stopped"]
  OBVIOUS
<1>4. x.at = "over" /\ UNCHANGED <<cancel, holder>> /\ run' = [run EXCEPT ![p] = r]
  BY <1>1, <1>3 DEF GiveUp, At, Become
<1>5. /\ r.at = "stopped" /\ r.told = x.told /\ r.welcomed = x.welcomed /\ r.lasted = x.lasted
      /\ r.budget = x.budget /\ r.timer = x.timer
      /\ r \in CalmRun
  BY <1>2, <1>3 DEF Alone, CalmRun, Location, Attempt, Failure
<1>6. Alone(r) /\ (Has(r) <=> Has(x))
  BY <1>2, <1>4, <1>5, RunAssumption DEF Alone, Has, Greeted, CalmRun, Longest, RunAssumption
<1>7. r.at = "stopped" \/ Back(r) <= Back(x)
  BY <1>2, <1>4, <1>5, RunAssumption DEF Back, Alone, CalmRun, RunAssumption
<1>8. x.at # "stopped" /\ ~(x.at = "over" /\ r.at = "waiting") /\ r.lasted = x.lasted
  BY <1>4, <1>5
<1> QED
  BY <1>1, <1>4, <1>6, <1>7, <1>8, OneMoves

\* A wait is over.
LEMMA WaitedKeeps ==
    ASSUME CalmInv, NEW p \in Clients, Waited(p)
    PROVE  CalmInv' /\ NextWait
<1>1. PICK x : x = run[p]
  OBVIOUS
<1>2. Alone(x)
  BY <1>1 DEF CalmInv, AloneInv
<1>3. PICK r : r = [x EXCEPT !.at = "starting"]
  OBVIOUS
<1>4. x.at = "waiting" /\ x.timer = 0 /\ UNCHANGED <<cancel, holder>> /\ run' = [run EXCEPT ![p] = r]
  BY <1>1, <1>3 DEF Waited, At, Become
<1>5. /\ r.at = "starting" /\ r.told = x.told /\ r.welcomed = x.welcomed /\ r.lasted = x.lasted
      /\ r.budget = x.budget /\ r.timer = x.timer
      /\ r \in CalmRun
  BY <1>2, <1>3 DEF Alone, CalmRun, Location, Attempt, Failure
<1>6. Alone(r) /\ (Has(r) <=> Has(x))
  BY <1>2, <1>4, <1>5, RunAssumption DEF Alone, Has, Greeted, CalmRun, Longest, RunAssumption
<1>7. r.at = "stopped" \/ Back(r) <= Back(x)
  BY <1>2, <1>4, <1>5, RunAssumption DEF Back, Alone, CalmRun, RunAssumption
<1>8. x.at # "stopped" /\ ~(x.at = "over" /\ r.at = "waiting") /\ r.lasted = x.lasted
  BY <1>4, <1>5
<1> QED
  BY <1>1, <1>4, <1>6, <1>7, <1>8, OneMoves

\* A dial begins.
LEMMA StartKeeps ==
    ASSUME CalmInv, NEW p \in Clients, Start(p)
    PROVE  CalmInv' /\ NextWait
<1>1. PICK x : x = run[p]
  OBVIOUS
<1>2. Alone(x)
  BY <1>1 DEF CalmInv, AloneInv
<1>3. PICK n \in 1 .. MaxAddrs :
          run' = [run EXCEPT ![p] = Launched(p, [x EXCEPT !.left = n, !.budget = DialTime])]
  BY <1>1 DEF Start, Become
<1>4. PICK y : y = [x EXCEPT !.left = n, !.budget = DialTime]
  OBVIOUS
<1>5. PICK r : r = Launched(p, y)
  OBVIOUS
<1>6. x.at = "starting" /\ UNCHANGED <<cancel, holder>> /\ run' = [run EXCEPT ![p] = r]
  BY <1>1, <1>3, <1>4, <1>5 DEF Start, At
<1>7. /\ y.told = x.told /\ y.welcomed = x.welcomed /\ y.lasted = x.lasted
      /\ y.budget = DialTime /\ y \in CalmRun
  <2>1. n \in Nat /\ DialTime \in Nat
    BY RunAssumption DEF RunAssumption
  <2> QED
    BY <1>2, <1>4, <2>1 DEF Alone, CalmRun
<1>8. /\ r.at = "dialing" /\ "trying" \in {r.quic, r.tcp} /\ r.told = y.told
      /\ r.welcomed = y.welcomed /\ r.lasted = y.lasted /\ r.budget = y.budget
      /\ r \in CalmRun
  BY <1>5, <1>7, RunAssumption DEF Launched, CalmRun, Location, Attempt, RunAssumption
<1>9. Alone(r) /\ (Has(r) <=> Has(x))
  BY <1>2, <1>6, <1>7, <1>8, RunAssumption DEF Alone, Has, Greeted, RunAssumption
<1>10. Back(r) <= Back(x)
  BY <1>6, <1>7, <1>8, RunAssumption DEF Back, RunAssumption
<1>11. x.at # "stopped" /\ ~(x.at = "over" /\ r.at = "waiting") /\ r.lasted = x.lasted
  BY <1>6, <1>7, <1>8
<1> QED
  BY <1>1, <1>6, <1>9, <1>10, <1>11, OneMoves

\* A session that was told to end ends, by the word or by the close that follows it.
LEMMA HangingKeeps ==
    ASSUME CalmInv, NEW p \in Clients, NEW o \in Failure, run[p].told,
           run' = [run EXCEPT ![p] = Hanging(run[p], o)], LetGo(p), UNCHANGED cancel
    PROVE  CalmInv' /\ NextWait
<1>1. PICK x : x = run[p]
  OBVIOUS
<1>2. Alone(x)
  BY <1>1 DEF CalmInv, AloneInv
<1>3. PICK r : r = Hanging(x, o)
  OBVIOUS
<1>4. holder' = holder
  BY DEF LetGo, CalmInv, HolderInv, Has
<1>5. /\ r.at = "hanging" /\ r.told = FALSE /\ r.welcomed = x.welcomed /\ r.lasted = x.lasted
      /\ r.budget = Drain /\ r \in CalmRun
  BY <1>2, <1>3, RunAssumption DEF Hanging, Alone, CalmRun, Location, Attempt, Failure,
                                   RunAssumption
<1>6. x.told /\ x.at \in Greeted
  BY <1>1, <1>2 DEF Alone
<1>7. x.lasted <= Longest
  BY <1>2, <1>6, RunAssumption DEF Alone, Greeted, CalmRun, Longest, RunAssumption
<1>8. Alone(r) /\ ~Has(r) /\ ~Has(x)
  BY <1>2, <1>5, <1>6, <1>7, RunAssumption DEF Alone, Has, Greeted, CalmRun, Longest,
                                               RunAssumption
<1>9. Back(r) <= Back(x)
  BY <1>2, <1>5, <1>6, RunAssumption DEF Back, Alone, Greeted, CalmRun, RunAssumption
<1> QED
  BY <1>1, <1>3, <1>4, <1>5, <1>6, <1>8, <1>9, OneMoves DEF Greeted

\* The next wait: no session has lasted for Healthy, so it is the next step.
LEMMA RetryKeeps ==
    ASSUME CalmInv, NEW p \in Clients, Retry(p)
    PROVE  CalmInv' /\ NextWait
<1>1. PICK x : x = run[p]
  OBVIOUS
<1>2. Alone(x) /\ x.at = "over"
  BY <1>1 DEF CalmInv, AloneInv, Retry, At
<1>3. PICK k : k = IF x.failures = Top THEN Top ELSE x.failures + 1
  OBVIOUS
<1>4. k \in Nat
  BY <1>2, <1>3 DEF Alone, CalmRun
<1>5. Counted(run[p]) = x.failures
  BY <1>1, <1>2, RunAssumption DEF Alone, CalmRun, Counted, Longest, RunAssumption
<1>6. PICK w \in Waits(x.failures) :
          run' = [run EXCEPT ![p] = [NewRun EXCEPT !.at = "waiting", !.timer = w,
                                                   !.failures = k]]
  BY <1>3, <1>5 DEF Retry, Become
<1>7. w \in Nat /\ w <= Cap
  BY RunAssumption DEF Waits, RunAssumption
<1>8. PICK r : r = [NewRun EXCEPT !.at = "waiting", !.timer = w, !.failures = k]
  OBVIOUS
<1>9. /\ r.at = "waiting" /\ r.told = FALSE /\ r.welcomed = FALSE /\ r.lasted = 0
      /\ r.timer = w /\ r.failures = k /\ r \in CalmRun
  BY <1>4, <1>7, <1>8 DEF NewRun, CalmRun, Location, Attempt, Failure
<1>10. Alone(r) /\ ~Has(r) /\ ~Has(x)
  BY <1>2, <1>7, <1>9 DEF Alone, Has, Greeted
<1>11. Back(r) <= Back(x)
  BY <1>2, <1>7, <1>9, RunAssumption DEF Back, RunAssumption
<1>12. UNCHANGED <<cancel, holder>>
  BY DEF Retry
<1> QED
  BY <1>1, <1>2, <1>3, <1>6, <1>8, <1>9, <1>10, <1>11, <1>12, OneMoves

\* A Hello takes the key: from whoever has it, who is told and lasts no longer, as the
\* rival was back in time; and whoever else there is, is back within Longest.
LEMMA HelloKeeps ==
    ASSUME CalmInv, NEW p \in Clients, Hello(p)
    PROVE  CalmInv' /\ NextWait
<1>1. /\ At(p) = "hello" /\ holder' = p /\ UNCHANGED cancel
      /\ run' = [q \in Clients |->
                   CASE q = p      -> [run[q] EXCEPT !.at = "greeting", !.told = FALSE]
                     [] q = holder -> [run[q] EXCEPT !.told = TRUE]
                     [] OTHER      -> run[q]]
  BY DEF Hello
<1>2. Alone(run[p]) /\ holder # p
  BY <1>1 DEF CalmInv, AloneInv, HolderInv, Has, Greeted, At
<1>3. /\ Alone(run'[p]) /\ Has(run'[p]) /\ run'[p].lasted = 0
      /\ ~(run'[p].at = "waiting")
  <2>1. PICK x : x = run[p]
    OBVIOUS
  <2>2. PICK r : r = [x EXCEPT !.at = "greeting", !.told = FALSE]
    OBVIOUS
  <2>3. run'[p] = r
    BY <1>1, <1>2, <2>1, <2>2
  <2>4. Alone(x) /\ x.at = "hello"
    BY <1>1, <1>2, <2>1 DEF At
  <2>5. /\ r.at = "greeting" /\ r.told = FALSE /\ r.welcomed = x.welcomed
        /\ r.lasted = x.lasted /\ r.budget = x.budget /\ r \in CalmRun
    BY <2>2, <2>4 DEF Alone, CalmRun, Location
  <2>6. Alone(r) /\ Has(r) /\ r.lasted = 0 /\ r.at # "waiting"
    BY <2>4, <2>5 DEF Alone, Has, Greeted
  <2> QED
    BY <2>3, <2>6
<1>4. ASSUME NEW q \in Clients, q # p, q = holder
      PROVE  Alone(run'[q]) /\ ~Has(run'[q]) /\ run'[q].at = run[q].at
  <2>1. PICK x : x = run[q]
    OBVIOUS
  <2>2. PICK r : r = [x EXCEPT !.told = TRUE]
    OBVIOUS
  <2>3. run'[q] = r
    BY <1>1, <1>4, <2>1, <2>2
  <2>4. Alone(x) /\ Has(x)
    BY <1>4, <2>1 DEF CalmInv, AloneInv, HolderInv
  <2>5. /\ r.at = x.at /\ r.told = TRUE /\ r.welcomed = x.welcomed /\ r.lasted = x.lasted
        /\ r.budget = x.budget /\ r \in CalmRun
    BY <2>2, <2>4 DEF Alone, CalmRun
  <2>6. x.lasted + Back(run[p]) <= Longest
    BY <1>1, <1>4, <2>1 DEF CalmInv, PairInv, At
  <2>7. x.lasted <= Longest
    BY <1>2, <2>4, <2>6, BackBound DEF Alone, CalmRun
  <2>8. Alone(r) /\ ~Has(r)
    BY <2>4, <2>5, <2>7 DEF Alone, Has, Greeted
  <2> QED
    BY <2>1, <2>3, <2>5, <2>8
<1>5. ASSUME NEW q \in Clients, q # p, q # holder
      PROVE  Alone(run'[q]) /\ ~Has(run'[q]) /\ run'[q].at = run[q].at
  <2>1. run'[q] = run[q]
    BY <1>1, <1>5
  <2> QED
    BY <1>5, <2>1 DEF CalmInv, AloneInv, HolderInv
<1>6. AloneInv' /\ HolderInv'
  BY <1>1, <1>3, <1>4, <1>5 DEF AloneInv, HolderInv
<1>7. PairInv'
  <2> SUFFICES ASSUME NEW q \in Clients, q # p, run'[q].at # "stopped"
               PROVE  run'[p].lasted + Back(run'[q]) <= Longest
    BY <1>1 DEF PairInv
  <2>1. Back(run'[q]) <= Longest /\ Back(run'[q]) \in Nat
    BY <1>4, <1>5, BackBound
  <2> QED
    BY <1>3, <2>1
<1>8. NextWait
  BY <1>3, <1>4, <1>5 DEF NextWait, At
<1>9. run' = [q \in Clients |-> run'[q]]
  <2> DEFINE Next(q) == CASE q = p      -> [run[q] EXCEPT !.at = "greeting", !.told = FALSE]
                          [] q = holder -> [run[q] EXCEPT !.told = TRUE]
                          [] OTHER      -> run[q]
  <2>1. run' = [q \in Clients |-> Next(q)]
    BY <1>1
  <2> HIDE DEF Next
  <2> QED
    BY <2>1
<1>10. \A q \in Clients : ~cancel'[q]
  BY <1>1 DEF CalmInv
<1> QED
  BY <1>6, <1>7, <1>8, <1>9, <1>10 DEF CalmInv

\* A tick in which all are in time: a rival without the key is back a tick sooner, and
\* the session that has it lasted a tick longer.
LEMMA TickKeeps ==
    ASSUME CalmInv, Tick, calm' PROVE CalmInv' /\ NextWait
<1>1. /\ \A p \in Clients : run'[p] = Older(run[p])
      /\ \A p \in Clients : ~Due(p)
      /\ \A p \in Clients : Timed(p) => run[p].budget > 0
      /\ UNCHANGED <<cancel, holder>>
  BY DEF Tick
<1>2. ASSUME NEW p \in Clients
      PROVE  /\ run'[p].at = run[p].at /\ run'[p].told = run[p].told
             /\ run'[p].lasted \in {run[p].lasted, run[p].lasted + 1}
             /\ ~run[p].welcomed => run'[p].lasted = run[p].lasted
             /\ run'[p].welcomed = run[p].welcomed
             /\ run'[p].budget = Less(run[p].budget)
             /\ run'[p].timer = Less(run[p].timer)
             /\ run'[p].quic = run[p].quic /\ run'[p].tcp = run[p].tcp
             /\ run'[p] \in CalmRun /\ Alone(run[p])
  <2>1. PICK x : x = run[p]
    OBVIOUS
  <2>2. Alone(x)
    BY <2>1 DEF CalmInv, AloneInv
  <2>3. PICK t, b, l : /\ t = Less(x.timer) /\ b = Less(x.budget)
                       /\ l = IF x.welcomed /\ x.lasted < Healthy THEN x.lasted + 1
                                                                  ELSE x.lasted
    OBVIOUS
  <2>4. t \in Nat /\ b \in Nat /\ l \in Nat
    BY <2>2, <2>3 DEF Alone, CalmRun, Less
  <2>5. PICK r : r = [x EXCEPT !.timer = t, !.budget = b, !.lasted = l]
    OBVIOUS
  <2>6. run'[p] = r
    BY <1>1, <2>1, <2>2, <2>3, <2>5 DEF Older, Alone, CalmRun
  <2>7. /\ r.at = x.at /\ r.told = x.told /\ r.welcomed = x.welcomed /\ r.lasted = l
        /\ r.budget = b /\ r.timer = t /\ r.quic = x.quic /\ r.tcp = x.tcp
        /\ r \in CalmRun
    BY <2>2, <2>4, <2>5 DEF Alone, CalmRun
  <2> QED
    BY <2>1, <2>2, <2>3, <2>6, <2>7
<1>3. ASSUME NEW p \in Clients
      PROVE  run[p].at # "stopped" /\ ~Has(run[p]) => Back(run'[p]) = Back(run[p]) - 1
  <2>1. PICK x : x = run[p]
    OBVIOUS
  <2>2. PICK r : r = run'[p]
    OBVIOUS
  <2>3. SUFFICES ASSUME x.at # "stopped", ~Has(x) PROVE Back(r) = Back(x) - 1
    BY <2>1, <2>2
  <2>4. /\ x \in CalmRun /\ r.at = x.at /\ r.budget = Less(x.budget)
        /\ r.timer = Less(x.timer)
    BY <1>2, <2>1, <2>2 DEF Alone
  <2>5. /\ x.at \notin {"starting", "over", "stopped", "up"}
        /\ x.at = "waiting" => x.timer # 0
        /\ x.at \in {"dialing", "hello", "greeting", "binding", "hanging"} => x.budget > 0
    BY <1>1, <2>1, <2>3 DEF Due, Timed, At, Has, Greeted
  <2>6. /\ x.timer # 0 => Less(x.timer) = x.timer - 1
        /\ x.budget > 0 => Less(x.budget) = x.budget - 1
    BY <2>4 DEF Less, CalmRun
  <2> QED
    BY <2>4, <2>5, <2>6, RunAssumption DEF Back, CalmRun, Location, RunAssumption
<1>4. ASSUME NEW p \in Clients PROVE Alone(run'[p]) /\ (Has(run'[p]) <=> Has(run[p]))
  <2>1. PICK x : x = run[p]
    OBVIOUS
  <2>2. PICK r : r = run'[p]
    OBVIOUS
  <2>3. /\ r.at = x.at /\ r.told = x.told /\ r.lasted \in {x.lasted, x.lasted + 1}
        /\ ~x.welcomed => r.lasted = x.lasted
        /\ r.welcomed = x.welcomed /\ r.budget = Less(x.budget) /\ r.timer = Less(x.timer)
        /\ r.quic = x.quic /\ r.tcp = x.tcp /\ r \in CalmRun /\ Alone(x)
    BY <1>2, <2>1, <2>2
  <2>4. /\ x.at # "over" /\ ~(x.at = "up" /\ x.told)
        /\ x.at \in {"binding", "hanging"} => x.budget > 0
    BY <1>1, <2>1 DEF Due, Timed, At
  <2>5. /\ Less(x.timer) <= x.timer /\ Less(x.budget) <= x.budget
        /\ x.budget > 0 => Less(x.budget) = x.budget - 1
    BY <2>3 DEF Less, Alone, CalmRun
  <2>6. Has(r) <=> Has(x)
    BY <2>3 DEF Has
  <2>7. /\ r.at = "binding" => r.lasted + r.budget <= DialTime
        /\ r.at = "hanging" => r.budget <= Drain /\ r.lasted + r.budget <= Longest + Drain
        /\ r.at \in {"dialing", "hello", "greeting"} => r.budget <= DialTime
        /\ r.at = "waiting" => r.timer <= Cap
    BY <2>3, <2>4, <2>5, RunAssumption DEF Alone, CalmRun, Longest, RunAssumption
  <2>8. Alone(r)
    BY <2>3, <2>4, <2>7 DEF Alone
  <2> QED
    BY <2>1, <2>2, <2>6, <2>8
<1>5. PairInv'
  <2> SUFFICES ASSUME NEW p \in Clients, NEW q \in Clients, holder = p, p # q,
                      run'[q].at # "stopped"
               PROVE  run'[p].lasted + Back(run'[q]) <= Longest
    BY <1>1 DEF PairInv
  <2>1. run[q].at # "stopped" /\ ~Has(run[q]) /\ Alone(run[q])
    BY <1>2 DEF CalmInv, HolderInv
  <2>2. run[p].lasted + Back(run[q]) <= Longest /\ Back(run'[q]) = Back(run[q]) - 1
    BY <1>3, <2>1 DEF CalmInv, PairInv
  <2>3. run[p].lasted \in Nat /\ run'[p].lasted \in {run[p].lasted, run[p].lasted + 1}
    BY <1>2 DEF Alone, CalmRun
  <2>4. Back(run[q]) \in Nat /\ Longest \in Nat
    BY <2>1, BackBound
  <2> QED
    BY <2>2, <2>3, <2>4
<1>6. AloneInv' /\ HolderInv'
  BY <1>1, <1>4 DEF CalmInv, AloneInv, HolderInv
<1>7. NextWait
  BY <1>2 DEF NextWait, At
<1>8. run' = [p \in Clients |-> run'[p]] /\ \A p \in Clients : ~cancel'[p]
  BY <1>1 DEF CalmInv, Tick
<1> QED
  BY <1>5, <1>6, <1>7, <1>8 DEF CalmInv

\* The steps of one client.
LEMMA ClientKeeps ==
    ASSUME CalmInv, NEW p \in Clients, calm, calm',
           Dial(p) \/ Greet(p) \/ Serve(p) \/ SessionFails(p) \/ End(p) \/ Stop(p)
    PROVE  CalmInv' /\ NextWait
<1>1. CASE Dial(p)
  <2>1. ~(Unresolved(p) \/ QuicFails(p) \/ TcpFails(p))
    BY DEF Unresolved, QuicFails, TcpFails
  <2>2. ~AddressFails(p)
    BY DEF AddressFails, At, CalmInv, AloneInv, Alone
  <2>3. ~DialStopped(p)
    BY DEF DialStopped, CalmInv
  <2> QED
    BY <1>1, <2>1, <2>2, <2>3, StartKeeps, FallbackKeeps, ConnectKeeps DEF Dial
<1>2. CASE SessionFails(p)
  <2>1. run[p].told /\ LetGo(p) /\ UNCHANGED cancel
    BY <1>2 DEF SessionFails
  <2>2. PICK f \in Failure : run' = [run EXCEPT ![p] = Hanging(run[p], f)]
    BY <1>2 DEF SessionFails, Become
  <2> QED
    BY <2>1, <2>2, HangingKeeps
<1>3. CASE Greet(p) /\ ~SessionFails(p)
  BY <1>3, HelloKeeps, WelcomedKeeps, BindsSentKeeps DEF Greet
<1>4. CASE Serve(p)
  <2>1. ~Stopped(p)
    BY DEF Stopped, CalmInv
  <2>2. /\ run[p].told /\ LetGo(p) /\ UNCHANGED cancel
        /\ run' = [run EXCEPT ![p] = Hanging(run[p], "failed")]
    BY <1>4, <2>1 DEF Serve, Superseded, Become
  <2> QED
    BY <2>2, HangingKeeps DEF Failure
<1>5. CASE End(p)
  <2>1. ~WaitStopped(p)
    BY DEF WaitStopped, CalmInv
  <2> QED
    BY <1>5, <2>1, HungUpKeeps, RetryKeeps, GiveUpKeeps, WaitedKeeps DEF End
<1>6. ~Stop(p)
  BY DEF Stop
<1> QED
  BY <1>1, <1>2, <1>3, <1>4, <1>5, <1>6

\* Once something else happened, it did.
LEMMA CalmEnds == ~calm /\ [RunNext]_runVars => ~calm'
BY DEF RunNext, runVars, Dial, Greet, Serve, End, Start, Unresolved, QuicFails, FallbackDue,
       TcpFails, Connect, AddressFails, DialStopped, Hello, Welcomed, BindsSent, SessionFails,
       Superseded, Stopped, HungUp, Retry, GiveUp, Waited, WaitStopped, Stop, Tick

\* A step that ends the calm starts no wait.
LEMMA LastCalmStep ==
    ASSUME CalmInv, RunNext, ~calm', calm PROVE NextWait
<1>1. CASE Tick
  <2>1. \A p \in Clients : ~Due(p)
    BY <1>1 DEF Tick
  <2> QED
    BY <2>1 DEF NextWait, Due
<1>2. CASE \E p \in Clients : Unresolved(p) \/ QuicFails(p) \/ TcpFails(p)
                              \/ SessionFails(p) \/ Stop(p)
  <2>1. PICK p \in Clients : Unresolved(p) \/ QuicFails(p) \/ TcpFails(p)
                             \/ SessionFails(p) \/ Stop(p)
    BY <1>2
  <2>2. CASE Stop(p)
    BY <2>2 DEF Stop, NextWait, At
  <2>3. CASE ~Stop(p)
    <3>1. At(p) # "over"
      BY <2>1, <2>3 DEF Unresolved, QuicFails, TcpFails, SessionFails, Connected
    <3>2. PICK r : run' = [run EXCEPT ![p] = r]
      BY <2>1, <2>3 DEF Unresolved, QuicFails, TcpFails, SessionFails, Become
    <3>3. \A q \in Clients : q # p => run'[q] = run[q]
      BY <3>2 DEF CalmInv
    <3> QED
      BY <3>1, <3>3 DEF NextWait, At
  <2> QED
    BY <2>2, <2>3
<1> QED
  BY <1>1, <1>2 DEF RunNext, Dial, Greet, Serve, End, Start, FallbackDue, Connect,
       AddressFails, DialStopped, Hello, Welcomed, BindsSent, Superseded, Stopped, HungUp,
       Retry, GiveUp, Waited, WaitStopped

LEMMA RivalsStep == RivalsInv /\ [RunNext]_runVars => RivalsInv' /\ [NextWait]_runVars
<1> SUFFICES ASSUME RivalsInv, [RunNext]_runVars PROVE RivalsInv' /\ [NextWait]_runVars
  OBVIOUS
<1>1. CASE ~calm
  BY <1>1, CalmEnds DEF RivalsInv, NextWait
<1>2. CASE UNCHANGED runVars
  BY <1>2 DEF runVars, RivalsInv, CalmInv, AloneInv, HolderInv, PairInv
<1>3. CASE calm /\ RunNext /\ ~calm'
  BY <1>3, LastCalmStep DEF RivalsInv
<1>4. CASE calm /\ RunNext /\ calm'
  <2>1. CalmInv' /\ NextWait
    BY <1>4, ClientKeeps, TickKeeps DEF RivalsInv, RunNext
  <2> QED
    BY <2>1 DEF RivalsInv
<1> QED
  BY <1>1, <1>2, <1>3, <1>4

\* However many processes share a key, as long as nothing but their Hellos ends a
\* session, each backs off all the way to CAP (client/backoff.rs): a session that a
\* rival ends has not lasted for HEALTHY.
THEOREM RivalsBackOff == RunSpec => RivalsNeverReset
<1>1. RunSpec => [][NextWait]_runVars
  BY RivalsStart, RivalsStep, PTL DEF RunSpec
<1> QED
  BY <1>1 DEF RivalsNeverReset, NextWait
=============================================================================
