----------------------------- MODULE HostProofs -----------------------------
(***************************************************************************)
(* Proofs about what happens on a host around the processes: upgrades of   *)
(* the binary (Upgrade), processes that start on one key file and socket   *)
(* (Startup), a service installed and removed (ServiceInstall), and what   *)
(* status requests are told (ClientStatus, ServerStatus); for any number   *)
(* of runs, processes, units, requests, clients and sessions.              *)
(***************************************************************************)
EXTENDS Upgrade, Startup, ServiceInstall, ClientStatus, ServerStatus, QueueLemmas,
        FiniteSetTheorems, TLAPS

-----------------------------------------------------------------------------
(***************************************************************************)
(* Upgrade.  The staging directory is the lock: the run that is between    *)
(* making and dropping it is the one that made it, and so alone; what it   *)
(* copied and kept is the binary that is installed.                        *)
(***************************************************************************)
InStaging == {"staged", "fetched", "tried", "copying", "copied", "kept", "swapped", "failed"}
UpgradeLocation == InStaging \cup {"off", "decided", "checked", "restarting", "over"}

LockInv == \A u \in Runs : At(u) \in InStaging => staging = {u}
CopyInv == \A u \in Runs : /\ At(u) = "copied" => copy = {exe}
                           /\ At(u) = "kept" => old = {exe}
WholeInv == /\ exe \in [version : Versions, whole : {TRUE}]
            /\ \A b \in old : b \in [version : Versions, whole : {TRUE}]
RunsInv == upgrade \in [Runs -> [at : UpgradeLocation, running : Nat, to : Versions \cup {0},
                                 restart : SUBSET Units]]
ToInv == \A u \in Runs : At(u) \notin {"off"} => upgrade[u].to \in Versions

UpgradeInv == RunsInv /\ ToInv /\ WholeInv /\ LockInv /\ CopyInv

\* A run moves on.
LEMMA GoesEffect ==
    ASSUME RunsInv, NEW u \in Runs, NEW l \in UpgradeLocation, Goes(u, l)
    PROVE  /\ RunsInv'
           /\ \A v \in Runs : v # u => upgrade'[v] = upgrade[v]
           /\ upgrade'[u].at = l /\ upgrade'[u].to = upgrade[u].to
<1>1. PICK r : r = [upgrade[u] EXCEPT !.at = l]
  OBVIOUS
<1>2. /\ r \in [at : UpgradeLocation, running : Nat, to : Versions \cup {0}, restart : SUBSET Units]
      /\ r.at = l /\ r.to = upgrade[u].to
  BY <1>1 DEF RunsInv
<1>3. upgrade' = [upgrade EXCEPT ![u] = r]
  BY <1>1 DEF Goes, RunsInv
<1> QED
  BY <1>2, <1>3 DEF RunsInv

LEMMA UpgradeStart ==
    ASSUME UpgradeInit PROVE UpgradeInv
<1> USE UpgradeAssumption
<1>1. NewRun \in [at : UpgradeLocation, running : Nat, to : Versions \cup {0}, restart : SUBSET Units]
      /\ NewRun.at = "off"
  BY DEF NewRun, UpgradeLocation
<1>2. RunsInv /\ \A u \in Runs : At(u) = "off"
  BY <1>1 DEF UpgradeInit, RunsInv, At
<1>3. WholeInv
  <2>1. PICK v \in Versions : exe = Whole(v)
    BY DEF UpgradeInit
  <2>2. Whole(v) \in [version : Versions, whole : {TRUE}]
    BY DEF Whole
  <2> QED
    BY <2>1, <2>2 DEF UpgradeInit, WholeInv
<1> QED
  BY <1>2, <1>3 DEF UpgradeInv, ToInv, LockInv, CopyInv, InStaging

\* Every step keeps the invariant, and keeps the way back.
LEMMA UpgradeStep ==
    ASSUME UpgradeInv, [UpgradeNext]_upgradeVars
    PROVE  /\ UpgradeInv'
           /\ exe' # exe => exe \in old \/ exe' \in old
<1> USE UpgradeAssumption
\* A step of one run that leaves the binary, the kept one and the directory alone.
<1>1. ASSUME NEW u \in Runs, NEW l \in UpgradeLocation,
             RunsInv', \A v \in Runs : v # u => upgrade'[v] = upgrade[v],
             upgrade'[u].at = l, upgrade'[u].to \in Versions,
             UNCHANGED <<exe, old, staging, copy>>,
             l \in InStaging => At(u) \in InStaging,
             l \notin {"copied", "kept"}
      PROVE  UpgradeInv'
  <2>1. \A v \in Runs : At(v)' = IF v = u THEN l ELSE At(v)
    BY <1>1 DEF At
  <2> QED
    BY <1>1, <2>1 DEF UpgradeInv, ToInv, WholeInv, LockInv, CopyInv, At
<1>2. ASSUME NEW u \in Runs, Start(u) PROVE UpgradeInv' /\ exe' = exe
  <2>1. PICK pinned \in BOOLEAN, check \in BOOLEAN, wanted \in Versions :
            upgrade' = [upgrade EXCEPT ![u] =
               [NewRun EXCEPT !.at = IF Decide(exe.version, wanted, pinned, check)
                                       THEN "decided" ELSE "over",
                              !.running = exe.version, !.to = wanted]]
    BY <1>2 DEF Start
  <2>2. PICK l \in {"decided", "over"} :
            upgrade' = [upgrade EXCEPT ![u] = [at |-> l, running |-> exe.version,
                                               to |-> wanted, restart |-> {}]]
    <3>1. PICK k \in {"decided", "over"} :
              k = IF Decide(exe.version, wanted, pinned, check) THEN "decided" ELSE "over"
      OBVIOUS
    <3>2. [NewRun EXCEPT !.at = k, !.running = exe.version, !.to = wanted]
              = [at |-> k, running |-> exe.version, to |-> wanted, restart |-> {}]
      <4>1. PICK q : q = [NewRun EXCEPT !.at = k]
        OBVIOUS
      <4>2. q = [at |-> k, running |-> 0, to |-> 0, restart |-> {}]
        BY <4>1 DEF NewRun
      <4>3. PICK p : p = [q EXCEPT !.running = exe.version]
        OBVIOUS
      <4>4. p = [at |-> k, running |-> exe.version, to |-> 0, restart |-> {}]
        BY <4>2, <4>3
      <4>5. [NewRun EXCEPT !.at = k, !.running = exe.version, !.to = wanted]
                = [p EXCEPT !.to = wanted]
        BY <4>1, <4>3
      <4> QED
        BY <4>4, <4>5
    <3> QED
      BY <2>1, <3>1, <3>2
  <2>3. exe.version \in Nat /\ l \in UpgradeLocation /\ l \notin InStaging
    BY DEF UpgradeInv, WholeInv, UpgradeLocation, InStaging
  <2>4. PICK r : r = [at |-> l, running |-> exe.version, to |-> wanted, restart |-> {}]
    OBVIOUS
  <2>5. r \in [at : UpgradeLocation, running : Nat, to : Versions \cup {0}, restart : SUBSET Units]
        /\ r.at = l /\ r.to = wanted
    BY <2>3, <2>4
  <2>6. /\ RunsInv' /\ upgrade'[u] = r
        /\ \A v \in Runs : v # u => upgrade'[v] = upgrade[v]
    BY <2>2, <2>4, <2>5 DEF UpgradeInv, RunsInv
  <2>7. UNCHANGED <<exe, old, staging, copy>>
    BY <1>2 DEF Start
  <2> QED
    BY <1>1, <2>3, <2>5, <2>6, <2>7
<1>3. ASSUME NEW u \in Runs, FindServices(u) PROVE UpgradeInv' /\ exe' = exe
  <2>1. PICK r : r = [upgrade[u] EXCEPT !.at = "checked",
                                        !.restart = {s \in Units : service[s] # {}}]
    OBVIOUS
  <2>2. /\ r \in [at : UpgradeLocation, running : Nat, to : Versions \cup {0}, restart : SUBSET Units]
        /\ r.at = "checked" /\ r.to = upgrade[u].to
    BY <2>1 DEF UpgradeInv, RunsInv, UpgradeLocation
  <2>3. upgrade' = [upgrade EXCEPT ![u] = r]
    BY <1>3, <2>1 DEF FindServices, UpgradeInv, RunsInv
  <2>4. /\ RunsInv' /\ upgrade'[u] = r
        /\ \A v \in Runs : v # u => upgrade'[v] = upgrade[v]
    BY <2>2, <2>3 DEF UpgradeInv, RunsInv
  <2>5. UNCHANGED <<exe, old, staging, copy>> /\ At(u) = "decided"
    BY <1>3 DEF FindServices
  <2>6. r.to \in Versions
    BY <2>2, <2>5 DEF UpgradeInv, ToInv
  <2> QED
    BY <1>1, <2>2, <2>4, <2>5, <2>6 DEF UpgradeLocation, InStaging
\* The steps of a run that only move it on.
<1>4. ASSUME NEW u \in Runs, NEW l \in UpgradeLocation, Goes(u, l), At(u) # "off",
             UNCHANGED <<exe, old, staging, copy>>,
             l \in InStaging => At(u) \in InStaging, l \notin {"copied", "kept"}
      PROVE  UpgradeInv' /\ exe' = exe
  BY <1>1, <1>4, GoesEffect DEF UpgradeInv, ToInv
<1>5. ASSUME NEW u \in Runs, \/ Refuse(u) \/ Fetch(u) \/ Try(u) \/ Fail(u) \/ Report(u)
                             \/ KillRun(u)
      PROVE  UpgradeInv' /\ exe' = exe
  <2>1. PICK l \in {"over", "fetched", "tried", "failed"} : Goes(u, l)
    BY <1>5 DEF Refuse, Fetch, Try, Fail, Report, KillRun
  <2>2. l = "over" \/ At(u) \in InStaging
    BY <1>5, <2>1, GoesEffect
       DEF Refuse, Fetch, Try, Fail, Report, KillRun, Going, InStaging, UpgradeInv,
           UpgradeLocation
  <2>3. At(u) # "off" /\ UNCHANGED <<exe, old, staging, copy>>
    BY <1>5 DEF Refuse, Fetch, Try, Fail, Report, KillRun, Going
  <2> QED
    BY <1>4, <2>1, <2>2, <2>3 DEF UpgradeLocation, InStaging
<1>6. ASSUME NEW u \in Runs, MakeStaging(u) PROVE UpgradeInv' /\ exe' = exe
  <2>1. CASE staging = {}
    <3>1. /\ staging' = {u} /\ Goes(u, "staged") /\ UNCHANGED <<exe, old, copy>>
          /\ At(u) = "checked"
      BY <1>6, <2>1 DEF MakeStaging, StagingFree
    <3>2. \A v \in Runs : At(v) \notin InStaging
      BY <2>1 DEF UpgradeInv, LockInv
    <3>3. /\ RunsInv' /\ \A v \in Runs : v # u => upgrade'[v] = upgrade[v]
          /\ upgrade'[u].at = "staged" /\ upgrade'[u].to = upgrade[u].to
      BY <3>1, GoesEffect DEF UpgradeInv, UpgradeLocation, InStaging
    <3> QED
      BY <3>1, <3>2, <3>3 DEF UpgradeInv, ToInv, WholeInv, LockInv, CopyInv, At, InStaging
  <2>2. CASE staging # {}
    BY <1>4, <1>6, <2>2 DEF MakeStaging, StagingFree, UpgradeLocation, InStaging
  <2> QED
    BY <2>1, <2>2
\* A run in the staging directory is alone in it.
<1>7. ASSUME NEW u \in Runs, NEW v \in Runs, At(u) \in InStaging, At(v) \in InStaging
      PROVE  u = v
  BY <1>7 DEF UpgradeInv, LockInv
<1>8. ASSUME NEW u \in Runs, NEW l \in InStaging, Goes(u, l), At(u) \in InStaging,
             staging' = staging, WholeInv',
             l = "copied" => copy' = {exe'}, l = "kept" => old' = {exe'}
      PROVE  UpgradeInv'
  <2>1. /\ RunsInv' /\ \A v \in Runs : v # u => upgrade'[v] = upgrade[v]
        /\ upgrade'[u].at = l /\ upgrade'[u].to = upgrade[u].to
    BY <1>8, GoesEffect DEF UpgradeInv, UpgradeLocation
  <2>2. \A v \in Runs : v # u => At(v)' \notin InStaging
    BY <1>7, <1>8, <2>1 DEF At
  <2>3. ToInv'
    BY <1>8, <2>1 DEF UpgradeInv, ToInv, At, InStaging
  <2>4. LockInv'
    BY <1>8, <2>1, <2>2 DEF UpgradeInv, LockInv, At
  <2>5. CopyInv'
    BY <1>8, <2>1, <2>2 DEF CopyInv, At, InStaging
  <2> QED
    BY <1>8, <2>1, <2>3, <2>4, <2>5 DEF UpgradeInv
<1>9. ASSUME NEW u \in Runs, BeginCopy(u) \/ EndCopy(u) PROVE UpgradeInv' /\ exe' = exe
  <2>1. WholeInv' /\ staging' = staging /\ exe' = exe /\ At(u) \in InStaging
    BY <1>9 DEF BeginCopy, EndCopy, UpgradeInv, WholeInv, InStaging
  <2>2. CASE BeginCopy(u)
    BY <1>8, <2>1, <2>2 DEF BeginCopy, InStaging
  <2>3. CASE EndCopy(u)
    BY <1>8, <2>1, <2>3 DEF EndCopy, InStaging
  <2> QED
    BY <1>9, <2>1, <2>2, <2>3
<1>10. ASSUME NEW u \in Runs, KeepOld(u) PROVE UpgradeInv' /\ exe' = exe
  <2>1. copy = {exe} /\ old' = copy /\ exe' = exe /\ staging' = staging /\ Goes(u, "kept")
        /\ At(u) = "copied"
    BY <1>10 DEF KeepOld, UpgradeInv, CopyInv
  <2>2. WholeInv'
    BY <2>1 DEF UpgradeInv, WholeInv
  <2> QED
    BY <1>8, <2>1, <2>2 DEF InStaging
<1>11. ASSUME NEW u \in Runs, ReplaceExe(u) PROVE UpgradeInv' /\ exe \in old
  <2>1. /\ old = {exe} /\ old' = old /\ exe' = Whole(upgrade[u].to) /\ staging' = staging
        /\ Goes(u, "swapped") /\ At(u) = "kept"
    BY <1>11 DEF ReplaceExe, UpgradeInv, CopyInv
  <2>2. WholeInv'
    BY <2>1 DEF UpgradeInv, WholeInv, ToInv, Whole
  <2> QED
    BY <1>8, <2>1, <2>2 DEF InStaging
<1>12. ASSUME NEW u \in Runs, DropStaging(u) PROVE UpgradeInv' /\ exe' = exe
  <2>1. PICK l \in {"restarting", "over"} : Goes(u, l)
    BY <1>12 DEF DropStaging
  <2>2. At(u) \in {"swapped", "failed"} /\ UNCHANGED <<exe, old>>
    BY <1>12 DEF DropStaging
  <2>3. /\ RunsInv' /\ \A v \in Runs : v # u => upgrade'[v] = upgrade[v]
        /\ upgrade'[u].at = l /\ upgrade'[u].to = upgrade[u].to
    BY <2>1, GoesEffect DEF UpgradeInv, UpgradeLocation
  <2>4. \A v \in Runs : At(v)' \notin InStaging
    BY <1>7, <2>2, <2>3 DEF At, InStaging
  <2>5. ToInv' /\ WholeInv'
    BY <2>2, <2>3 DEF UpgradeInv, ToInv, WholeInv, At
  <2> QED
    BY <2>2, <2>3, <2>4, <2>5 DEF UpgradeInv, LockInv, CopyInv, InStaging
<1>13. ASSUME NEW u \in Runs, NEW s \in Units, Restart(u, s) PROVE UpgradeInv' /\ exe' = exe
  <2>1. CASE Goes(u, "over")
    BY <1>4, <1>13, <2>1 DEF Restart, UpgradeLocation, InStaging
  <2>2. CASE upgrade' = [upgrade EXCEPT ![u] = [@ EXCEPT !.restart = upgrade[u].restart \ {s}]]
    <3>1. PICK r : r = [upgrade[u] EXCEPT !.restart = upgrade[u].restart \ {s}]
      OBVIOUS
    <3>2. /\ r \in [at : UpgradeLocation, running : Nat, to : Versions \cup {0},
                    restart : SUBSET Units]
          /\ r.at = upgrade[u].at /\ r.to = upgrade[u].to
      BY <3>1 DEF UpgradeInv, RunsInv
    <3>3. upgrade' = [upgrade EXCEPT ![u] = r]
      BY <2>2, <3>1 DEF UpgradeInv, RunsInv
    <3>4. /\ RunsInv' /\ upgrade'[u] = r
          /\ \A v \in Runs : v # u => upgrade'[v] = upgrade[v]
      BY <3>2, <3>3 DEF UpgradeInv, RunsInv
    <3>5. UNCHANGED <<exe, old, staging, copy>> /\ At(u) = "restarting"
      BY <1>13 DEF Restart
    <3>6. r.to \in Versions
      BY <3>2, <3>5 DEF UpgradeInv, ToInv
    <3> QED
      BY <1>1, <3>2, <3>4, <3>5, <3>6 DEF At, UpgradeLocation, InStaging
  <2> QED
    BY <1>13, <2>1, <2>2 DEF Restart
<1>14. CASE ClearStaging
  <2>1. \A u \in Runs : At(u) \notin InStaging
    BY <1>14 DEF ClearStaging, UpgradeInv, LockInv, InStaging
  <2> QED
    BY <1>14, <2>1
       DEF ClearStaging, UpgradeInv, RunsInv, ToInv, WholeInv, LockInv, CopyInv, At, InStaging
<1>15. CASE GoBack
  <2>1. \A u \in Runs : At(u) \notin InStaging
    BY <1>15 DEF GoBack, InStaging
  <2> QED
    BY <1>15, <2>1
       DEF GoBack, UpgradeInv, RunsInv, ToInv, WholeInv, LockInv, CopyInv, At, InStaging
<1>16. CASE UNCHANGED upgradeVars
  BY <1>16 DEF upgradeVars, UpgradeInv, RunsInv, ToInv, WholeInv, LockInv, CopyInv, At
<1> QED
  BY <1>2, <1>3, <1>5, <1>6, <1>9, <1>10, <1>11, <1>12, <1>13, <1>14, <1>15, <1>16
     DEF UpgradeNext

\* Wherever a run of `hawse upgrade' is killed and whatever another does meanwhile, the
\* installed binary and the kept one are whole, and the binary is replaced only while a
\* copy of it is kept (replace and swap in commands/upgrade.rs).
THEOREM WayBackKept == UpgradeInit /\ [][UpgradeNext]_upgradeVars => WayBack
<1>1. UpgradeInv /\ UpgradeInv' /\ [UpgradeNext]_upgradeVars
        => [/\ exe'.whole /\ \A b \in old' : b.whole
            /\ exe' # exe => exe \in old \/ exe' \in old]_upgradeVars
  <2> SUFFICES ASSUME UpgradeInv, UpgradeInv', [UpgradeNext]_upgradeVars
               PROVE  /\ exe'.whole /\ \A b \in old' : b.whole
                      /\ exe' # exe => exe \in old \/ exe' \in old
    OBVIOUS
  <2>1. exe'.whole /\ \A b \in old' : b.whole
    BY DEF UpgradeInv, WholeInv
  <2> QED
    BY <2>1, UpgradeStep
<1> QED
  BY <1>1, UpgradeStart, UpgradeStep, PTL DEF WayBack

-----------------------------------------------------------------------------
(***************************************************************************)
(* Startup.                                                                *)
(***************************************************************************)
ProcLocation == Binding \cup {"off", "creating", "writing", "failed", "keyed", "serving",
                              "unlinked", "gone"}

StartTypes ==
    /\ proc \in [Procs -> ProcLocation]
    /\ identity \in [Procs -> SUBSET Procs]
    /\ listener \in [Procs -> {"none", "bound", "listening"}]
    /\ path \subseteq Procs /\ overlapped \in BOOLEAN

\* The key file holds at most one key, is empty while its one writer writes, and is
\* where everyone's identity came from.
KeyInv ==
    /\ key = {} \/ \E k \in SUBSET Procs : key = {k}
    /\ \A p \in Procs : proc[p] = "writing" => key = {{}}
    /\ \A p, q \in Procs : proc[p] = "writing" /\ proc[q] = "writing" => p = q
    /\ \A p \in Procs : identity[p] # {} => key = {identity[p]}

\* While no two were in bind_at at once: one is, at most; the path is that of the
\* process that listens or is about to, before it serves and while it does; and what
\* is about to be removed is nobody's who listens.
PathInv ==
    ~overlapped =>
        /\ \A p, q \in Procs : proc[p] \in Binding /\ proc[q] \in Binding => p = q
        /\ \A p \in Procs : listener[p] # "none" =>
               proc[p] \in {"listening", "permitting", "serving", "unlinked"}
        /\ \A p \in Procs : proc[p] \in {"listening", "permitting"} => path = {p}
        /\ \A p \in Procs : proc[p] = "permitting" => listener[p] = "listening"
        /\ \A p \in Procs : proc[p] = "serving" /\ listener[p] # "none" =>
               listener[p] = "listening" /\ path = {p}
        /\ \A p \in Procs : proc[p] = "removing" =>
               \A q \in path : listener[q] # "listening"

StartInv == StartTypes /\ KeyInv /\ PathInv

LEMMA StartStart ==
    ASSUME StartInit PROVE StartInv
<1>1. StartTypes
  BY DEF StartInit, StartTypes, ProcLocation
<1>2. KeyInv
  BY DEF StartInit, KeyInv
<1>3. PathInv
  BY DEF StartInit, PathInv, Binding
<1> QED
  BY <1>1, <1>2, <1>3 DEF StartInv

\* The steps that leave the key file and all identities alone.
LEMMA KeyUntouched ==
    ASSUME StartInv, NEW p \in Procs, NEW l \in ProcLocation \ {"writing"}, Moves(p, l),
           UNCHANGED <<identity, key>>
    PROVE  KeyInv'
<1>1. \A q \in Procs : proc'[q] = IF q = p THEN l ELSE proc[q]
  BY DEF Moves, StartInv, StartTypes
<1> QED
  BY <1>1 DEF StartInv, KeyInv

\* The steps that leave the path, the sockets and bind_at alone.
LEMMA PathUntouched ==
    ASSUME StartInv, NEW p \in Procs, NEW l \in ProcLocation \ (Binding \cup {"serving"}),
           proc[p] \notin Binding \cup {"serving", "unlinked"}, Moves(p, l),
           UNCHANGED <<path, listener, overlapped>>
    PROVE  PathInv'
<1>1. \A q \in Procs : proc'[q] = IF q = p THEN l ELSE proc[q]
  BY DEF Moves, StartInv, StartTypes
<1> QED
  BY <1>1 DEF StartInv, PathInv, Binding

\* The end of a process, however it comes.
LEMMA EndKeeps ==
    ASSUME StartInv, NEW p \in Procs, Moves(p, "gone"),
           listener' = [listener EXCEPT ![p] = "none"],
           identity' = [identity EXCEPT ![p] = {}],
           UNCHANGED <<key, path, overlapped>>
    PROVE  StartInv'
<1>1. /\ \A q \in Procs : proc'[q] = IF q = p THEN "gone" ELSE proc[q]
      /\ \A q \in Procs : listener'[q] = IF q = p THEN "none" ELSE listener[q]
      /\ \A q \in Procs : identity'[q] = IF q = p THEN {} ELSE identity[q]
  BY DEF Moves, StartInv, StartTypes
<1>2. StartTypes'
  BY DEF Moves, StartInv, StartTypes, ProcLocation
<1>3. KeyInv'
  BY <1>1 DEF StartInv, KeyInv
<1>4. PathInv'
  BY <1>1 DEF StartInv, StartTypes, PathInv, Binding
<1> QED
  BY <1>2, <1>3, <1>4 DEF StartInv

LEMMA StartStep ==
    ASSUME StartInv, [StartNext]_startVars PROVE StartInv'
<1>1. ASSUME NEW p \in Procs, LoadKey(p) PROVE StartInv'
  <2>1. PICK l \in {"creating", "failed", "keyed"} : Moves(p, l)
    BY <1>1 DEF LoadKey
  <2>2. PICK i : i = IF {} \in key THEN {} ELSE UNION key
    OBVIOUS
  <2>3. i \in SUBSET Procs /\ (i # {} => key = {i})
    <3>1. CASE key = {}
      BY <2>2, <3>1
    <3>2. CASE \E k \in SUBSET Procs : key = {k}
      <4>1. PICK k \in SUBSET Procs : key = {k}
        BY <3>2
      <4>2. UNION key = k
        BY <4>1
      <4>3. i = k
        BY <2>2, <4>1, <4>2
      <4> QED
        BY <4>1, <4>3
    <3> QED
      BY <3>1, <3>2 DEF StartInv, KeyInv
  <2>4. \A q \in Procs : identity'[q] = IF q = p THEN i ELSE identity[q]
    BY <1>1, <2>2 DEF LoadKey, StartInv, StartTypes
  <2>5. UNCHANGED <<key, path, listener, overlapped>> /\ proc[p] = "off"
        /\ identity' = [identity EXCEPT ![p] = i]
    BY <1>1, <2>2 DEF LoadKey
  <2>6. StartTypes'
    BY <2>1, <2>3, <2>5 DEF StartInv, StartTypes, Moves, ProcLocation
  <2>7. KeyInv'
    <3>1. \A q \in Procs : proc'[q] = IF q = p THEN l ELSE proc[q]
      BY <2>1 DEF Moves, StartInv, StartTypes
    <3> QED
      BY <2>3, <2>4, <2>5, <3>1 DEF StartInv, KeyInv
  <2>8. PathInv'
    BY <2>1, <2>5, PathUntouched DEF ProcLocation, Binding
  <2> QED
    BY <2>6, <2>7, <2>8 DEF StartInv
<1>2. ASSUME NEW p \in Procs, CreateKey(p) PROVE StartInv'
  <2>1. UNCHANGED <<identity, path, listener, overlapped>> /\ proc[p] = "creating"
    BY <1>2 DEF CreateKey
  <2>2. PICK l \in {"writing", "failed"} : Moves(p, l)
    BY <1>2 DEF CreateKey
  <2>3. StartTypes' /\ PathInv'
    BY <2>1, <2>2, PathUntouched DEF StartInv, StartTypes, Moves, ProcLocation, Binding
  <2>4. CASE key = {}
    <3>1. key' = {{}} /\ Moves(p, "writing")
      BY <1>2, <2>4 DEF CreateKey
    <3>2. \A q \in Procs : proc'[q] = IF q = p THEN "writing" ELSE proc[q]
      BY <3>1 DEF Moves, StartInv, StartTypes
    <3>3. \A q \in Procs : proc[q] # "writing" /\ identity[q] = {}
      BY <2>4 DEF StartInv, KeyInv
    <3>4. KeyInv'
      BY <2>1, <3>1, <3>2, <3>3 DEF KeyInv
    <3> QED
      BY <2>3, <3>4 DEF StartInv
  <2>5. CASE key # {}
    BY <1>2, <2>1, <2>3, <2>5, KeyUntouched DEF CreateKey, StartInv, ProcLocation
  <2> QED
    BY <2>4, <2>5
<1>3. ASSUME NEW p \in Procs, WriteKey(p) PROVE StartInv'
  <2>1. /\ UNCHANGED <<path, listener, overlapped>> /\ proc[p] = "writing"
        /\ key = {{}} /\ key' = {{p}} /\ identity' = [identity EXCEPT ![p] = {p}]
        /\ Moves(p, "keyed")
    BY <1>3 DEF WriteKey, StartInv, KeyInv
  <2>2. /\ \A q \in Procs : proc'[q] = IF q = p THEN "keyed" ELSE proc[q]
        /\ \A q \in Procs : identity'[q] = IF q = p THEN {p} ELSE identity[q]
    BY <2>1 DEF Moves, StartInv, StartTypes
  <2>3. \A q \in Procs : identity[q] = {} /\ (proc[q] = "writing" => q = p)
    BY <2>1 DEF StartInv, KeyInv
  <2>4. KeyInv'
    BY <2>1, <2>2, <2>3 DEF KeyInv
  <2>5. StartTypes' /\ PathInv'
    BY <2>1, PathUntouched DEF StartInv, StartTypes, Moves, ProcLocation, Binding
  <2> QED
    BY <2>4, <2>5 DEF StartInv
<1>4. ASSUME NEW p \in Procs, \/ EnterBind(p) \/ CheckSocket(p) \/ RemoveStale(p)
                              \/ BindSocket(p) \/ Listen(p) \/ Permit(p) \/ Unlink(p)
      PROVE  StartInv'
  <2>1. PICK l \in ProcLocation \ {"writing"} : Moves(p, l)
    BY <1>4 DEF EnterBind, CheckSocket, RemoveStale, BindSocket, Listen, Permit, Unlink,
                ProcLocation, Binding
  <2>2. UNCHANGED <<identity, key>>
    BY <1>4 DEF EnterBind, CheckSocket, RemoveStale, BindSocket, Listen, Permit, Unlink
  <2>3. KeyInv'
    BY <2>1, <2>2, KeyUntouched
  <2>4. \A m, q : Moves(p, m) /\ q \in Procs => proc'[q] = IF q = p THEN m ELSE proc[q]
    BY DEF Moves, StartInv, StartTypes
  <2>5. CASE EnterBind(p)
    <3>1. /\ UNCHANGED <<path, listener>> /\ proc[p] = "keyed"
          /\ overlapped' = (overlapped \/ \E q \in Procs : proc[q] \in Binding)
          /\ \A q \in Procs : proc'[q] = IF q = p THEN "checking" ELSE proc[q]
      BY <2>4, <2>5 DEF EnterBind
    <3>2. PathInv'
      <4> SUFFICES ASSUME ~overlapped' PROVE PathInv'
        BY DEF PathInv
      <4>1. ~overlapped /\ \A q \in Procs : proc[q] \notin Binding
        BY <3>1
      <4>2. \A q \in Procs : proc'[q] \in Binding => q = p
        BY <3>1, <4>1
      <4> QED
        BY <3>1, <4>1, <4>2 DEF StartInv, PathInv, Binding
    <3>3. StartTypes'
      BY <2>1, <2>2, <3>1 DEF StartInv, StartTypes, Moves
    <3> QED
      BY <2>3, <3>2, <3>3 DEF StartInv
  <2>6. CASE CheckSocket(p)
    <3>1. /\ UNCHANGED <<path, listener, overlapped>> /\ proc[p] = "checking"
      BY <2>6 DEF CheckSocket
    <3>2. PICK m : /\ \A q \in Procs : proc'[q] = IF q = p THEN m ELSE proc[q]
                   /\ m \in {"removing", "binding", "serving"}
                   /\ m = "removing" => Stale
      BY <2>4, <2>6 DEF CheckSocket
    <3>3. PathInv'
      BY <3>1, <3>2 DEF StartInv, StartTypes, PathInv, Binding, Stale, Answers
    <3>4. StartTypes'
      BY <2>1, <2>2, <3>1 DEF StartInv, StartTypes, Moves
    <3> QED
      BY <2>3, <3>3, <3>4 DEF StartInv
  <2>7. CASE RemoveStale(p)
    <3>1. UNCHANGED <<listener, overlapped>> /\ proc[p] = "removing" /\ path' = {}
      BY <2>7 DEF RemoveStale
    <3>2. PICK m : /\ \A q \in Procs : proc'[q] = IF q = p THEN m ELSE proc[q]
                   /\ m \in {"binding", "serving"}
      BY <2>4, <2>7 DEF RemoveStale
    <3>3. PathInv'
      BY <3>1, <3>2 DEF StartInv, StartTypes, PathInv, Binding
    <3>4. StartTypes'
      BY <2>1, <2>2, <3>1 DEF StartInv, StartTypes, Moves
    <3> QED
      BY <2>3, <3>3, <3>4 DEF StartInv
  <2>8. CASE BindSocket(p)
    <3>1. CASE path # {}
      <4>1. /\ UNCHANGED <<path, listener, overlapped>> /\ proc[p] = "binding"
            /\ \A q \in Procs : proc'[q] = IF q = p THEN "serving" ELSE proc[q]
        BY <2>4, <2>8, <3>1 DEF BindSocket
      <4>2. PathInv'
        BY <4>1 DEF StartInv, StartTypes, PathInv, Binding
      <4>3. StartTypes'
        BY <2>1, <2>2, <4>1 DEF StartInv, StartTypes, Moves
      <4> QED
        BY <2>3, <4>2, <4>3 DEF StartInv
    <3>2. CASE path = {}
      <4>1. /\ path' = {p} /\ listener' = [listener EXCEPT ![p] = "bound"]
            /\ overlapped' = overlapped /\ proc[p] = "binding"
            /\ \A q \in Procs : proc'[q] = IF q = p THEN "listening" ELSE proc[q]
        BY <2>4, <2>8, <3>2 DEF BindSocket
      <4>2. \A q \in Procs : listener'[q] = IF q = p THEN "bound" ELSE listener[q]
        BY <4>1 DEF StartInv, StartTypes
      <4>3. PathInv'
        BY <3>2, <4>1, <4>2 DEF StartInv, StartTypes, PathInv, Binding
      <4>4. StartTypes'
        BY <2>1, <2>2, <4>1 DEF StartInv, StartTypes, Moves
      <4> QED
        BY <2>3, <4>3, <4>4 DEF StartInv
    <3> QED
      BY <3>1, <3>2
  <2>9. CASE Listen(p)
    <3>1. /\ UNCHANGED <<path, overlapped>> /\ proc[p] = "listening"
          /\ listener' = [listener EXCEPT ![p] = "listening"]
          /\ \A q \in Procs : proc'[q] = IF q = p THEN "permitting" ELSE proc[q]
      BY <2>4, <2>9 DEF Listen
    <3>2. \A q \in Procs : listener'[q] = IF q = p THEN "listening" ELSE listener[q]
      BY <3>1 DEF StartInv, StartTypes
    <3>3. PathInv'
      BY <3>1, <3>2 DEF StartInv, StartTypes, PathInv, Binding
    <3>4. StartTypes'
      BY <2>1, <2>2, <3>1 DEF StartInv, StartTypes, Moves
    <3> QED
      BY <2>3, <3>3, <3>4 DEF StartInv
  <2>10. CASE Permit(p)
    <3>1. /\ UNCHANGED <<path, overlapped>> /\ proc[p] = "permitting"
          /\ listener' = [listener EXCEPT ![p] = IF path = {} THEN "none" ELSE @]
          /\ \A q \in Procs : proc'[q] = IF q = p THEN "serving" ELSE proc[q]
      BY <2>4, <2>10 DEF Permit
    <3>2. \A q \in Procs : listener'[q] = IF q = p /\ path = {} THEN "none" ELSE listener[q]
      BY <3>1 DEF StartInv, StartTypes
    <3>3. PathInv'
      BY <3>1, <3>2 DEF StartInv, StartTypes, PathInv, Binding
    <3>4. StartTypes'
      BY <2>1, <2>2, <3>1 DEF StartInv, StartTypes, Moves
    <3> QED
      BY <2>3, <3>3, <3>4 DEF StartInv
  <2>11. CASE Unlink(p)
    <3>1. /\ UNCHANGED <<listener, overlapped>> /\ proc[p] = "serving"
          /\ path' = IF listener[p] = "none" THEN path ELSE {}
          /\ \A q \in Procs : proc'[q] = IF q = p THEN "unlinked" ELSE proc[q]
      BY <2>4, <2>11 DEF Unlink
    <3>2. PathInv'
      <4>1. CASE listener[p] = "none"
        BY <3>1, <4>1 DEF StartInv, StartTypes, PathInv, Binding
      <4>2. CASE listener[p] # "none" /\ ~overlapped
        <5>1. path = {p} /\ path' = {}
          BY <3>1, <4>2 DEF StartInv, PathInv
        <5>2. \A q \in Procs : q # p => proc[q] \notin {"listening", "permitting"}
          BY <4>2, <5>1 DEF StartInv, PathInv
        <5>3. \A q \in Procs : q # p /\ proc[q] = "serving" => listener[q] = "none"
          BY <4>2, <5>1 DEF StartInv, PathInv
        <5> QED
          BY <3>1, <4>2, <5>1, <5>2, <5>3 DEF StartInv, StartTypes, PathInv, Binding
      <4>3. CASE overlapped
        BY <3>1, <4>3 DEF PathInv
      <4> QED
        BY <4>1, <4>2, <4>3
    <3>3. StartTypes'
      BY <2>1, <2>2, <3>1 DEF StartInv, StartTypes, Moves
    <3> QED
      BY <2>3, <3>2, <3>3 DEF StartInv
  <2> QED
    BY <1>4, <2>5, <2>6, <2>7, <2>8, <2>9, <2>10, <2>11
<1>5. ASSUME NEW p \in Procs, Exit(p) \/ Kill(p) PROVE StartInv'
  BY <1>5, EndKeeps DEF Exit, Kill
<1>6. CASE RemoveKey
  BY <1>6 DEF RemoveKey, StartInv, StartTypes, KeyInv, PathInv
<1>7. CASE UNCHANGED startVars
  BY <1>7 DEF startVars, StartInv, StartTypes, KeyInv, PathInv
<1> QED
  BY <1>1, <1>2, <1>3, <1>4, <1>5, <1>6, <1>7 DEF StartNext

\* Processes that start on one key file have the one identity in it, and the socket's
\* path leads to the one that serves unless two were in bind_at at once (identity.rs
\* load_or_create, socket.rs bind_at), wherever any of them is killed.
THEOREM StartsDoAgree == StartInit /\ [][StartNext]_startVars => []StartsAgree
<1>1. StartInv => StartsAgree
  BY DEF StartInv, KeyInv, PathInv, StartsAgree, SocketKept
<1> QED
  BY <1>1, StartStart, StartStep, PTL

-----------------------------------------------------------------------------
(***************************************************************************)
(* ServiceInstall.  What each step of a run rests on, whatever runs that   *)
(* failed or were killed left before it.                                   *)
(***************************************************************************)
StepInv ==
    /\ step # "idle" => sure = {}
    /\ step \in {"reload", "enable", "restart", "loadkey", "disable", "forget"} => Systemd
    /\ step \in {"key", "bootout", "bootstrap", "unload"} => ~Systemd
    /\ step \in {"reload", "enable", "restart", "loadkey", "key", "bootout", "bootstrap"}
           => unit = {want}
    /\ step \in {"enable", "restart", "loadkey"} => loaded = {want}
    /\ step \in {"restart", "loadkey"} => enabled
    /\ step = "loadkey" => active \subseteq {want}
    /\ step \in {"bootout", "bootstrap"} => keyed
    /\ step \in {"remove", "forget"} => active = {}
    /\ step = "forget" => unit = {}

\* An uninstall that finds no unit may say that nothing runs, unless a user took the
\* unit away.
NothingLeft == ~tampered /\ unit = {} => active = {}

ServiceInv == StepInv /\ NothingLeft /\ ServiceAsAsked

LEMMA ServiceStart ==
    ASSUME ServiceInit PROVE ServiceInv
BY DEF ServiceInit, ServiceInv, StepInv, NothingLeft, ServiceAsAsked

LEMMA ServiceStep ==
    ASSUME ServiceInv, [ServiceNext]_serviceVars PROVE ServiceInv'
<1> USE DEF ServiceInv, StepInv, NothingLeft, ServiceAsAsked, Boots, Systemd, Goto, Abandon,
            Untouched, EndsWell
<1>1. ASSUME NEW id \in Asked, Install(id) PROVE ServiceInv'
  BY <1>1 DEF Install
<1>2. CASE Uninstall
  BY <1>2 DEF Uninstall, Installed
<1>3. CASE Write
  BY <1>3 DEF Write
<1>4. CASE DaemonReload
  BY <1>4 DEF DaemonReload
<1>5. CASE Enable
  BY <1>5 DEF Enable
<1>6. CASE RestartUnit
  BY <1>6 DEF RestartUnit, Restarted
<1>7. CASE LoadUnitKey
  BY <1>7 DEF LoadUnitKey
<1>8. CASE Disable
  BY <1>8 DEF Disable
<1>9. CASE LoadOrCreate
  BY <1>9 DEF LoadOrCreate
<1>10. CASE Bootout
  BY <1>10 DEF Bootout
<1>11. CASE Bootstrap
  BY <1>11 DEF Bootstrap
<1>12. CASE Remove
  <2>1. CASE unit' = {} /\ Systemd
    BY <1>12, <2>1 DEF Remove
  <2>2. CASE unit' = {} /\ ~Systemd
    BY <1>12, <2>2 DEF Remove
  <2>3. CASE Abandon /\ UNCHANGED <<unit, tampered>>
    BY <1>12, <2>3 DEF Remove
  <2> QED
    BY <1>12, <2>1, <2>2, <2>3 DEF Remove
<1>13. CASE Killed
  BY <1>13 DEF Killed
<1>14. CASE ServiceEnds
  BY <1>14 DEF ServiceEnds
<1>15. CASE Reboot
  BY <1>15 DEF Reboot
<1>16. CASE UserChanges
  BY <1>16 DEF UserChanges
<1>17. CASE UNCHANGED serviceVars
  BY <1>17 DEF serviceVars
<1> QED
  BY <1>1, <1>2, <1>3, <1>4, <1>5, <1>6, <1>7, <1>8, <1>9, <1>10, <1>11, <1>12, <1>13, <1>14,
     <1>15, <1>16, <1>17 DEF ServiceNext

\* After an install or an uninstall that ended well the service, and what a boot
\* starts, is just what was asked for (commands/service.rs), whatever came before.
THEOREM ServiceIsAsAsked == ServiceSpec => []ServiceAsAsked
<1>1. ServiceInv => ServiceAsAsked
  BY DEF ServiceInv
<1> QED
  BY <1>1, ServiceStart, ServiceStep, PTL DEF ServiceSpec

-----------------------------------------------------------------------------
(***************************************************************************)
(* ClientStatus.  What was counted is what the finished clients carried,   *)
(* what the running one has counted, and what came late.  While a client   *)
(* runs the readers are shown what was carried; from its end to the next   *)
(* one's start the shown sum exceeds it by some of what came late.  No     *)
(* later client has counted.                                               *)
(***************************************************************************)
Counting == turn \in {"run", "ending"}
ClientForm == client = [n |-> client.n, link |-> client.link, dialed |-> client.dialed,
                        expose |-> client.expose, answers |-> client.answers]
TotalsInv ==
    /\ turn \in {"run", "ending", "carry", "over"}
    /\ ClientForm
    /\ shown = [n |-> shown.n, cfg |-> shown.cfg, carried |-> shown.carried]
    /\ client.n \in 1 .. MaxClients /\ shown.n = client.n
    /\ counted \in [1 .. MaxClients -> Nat] /\ shown.carried \in Nat
    /\ carried \in Nat /\ late \in Nat /\ moved \in Nat
    /\ moved = late + carried + IF Counting THEN counted[client.n] ELSE 0
    /\ Counting => shown.carried = carried
    /\ ~Counting => /\ carried <= shown.carried + counted[client.n]
                    /\ shown.carried + counted[client.n] <= carried + late
    /\ \A n \in 1 .. MaxClients : n > client.n => counted[n] = 0
    /\ turn \in {"ending", "carry"} => client.n < MaxClients

LEMMA TotalsStart == ClientStatusInit => TotalsInv
BY ClientStatusAssumption DEF ClientStatusInit, TotalsInv, ClientForm, Counting, NewClient

\* A step that touches neither the totals nor which client runs.
LEMMA TotalsKept ==
    ASSUME TotalsInv, client'.n = client.n, ClientForm',
           UNCHANGED <<turn, shown, counted, moved, late, carried>>
    PROVE  TotalsInv'
BY DEF TotalsInv, Counting

LEMMA TotalsCount ==
    ASSUME TotalsInv, NEW n \in 1 .. MaxClients, CountMoves(n)
    PROVE  TotalsInv'
<1>1. /\ n <= client.n /\ counted' = [counted EXCEPT ![n] = @ + 1] /\ moved' = moved + 1
      /\ UNCHANGED <<turn, client, shown, carried>>
  BY DEF CountMoves, loopVars
<1>2. late' = late + IF n = client.n /\ Counting THEN 0 ELSE 1
  BY DEF CountMoves, Counting
<1>3. /\ MaxClients \in Nat /\ client.n \in 1 .. MaxClients /\ n \in Nat /\ client.n \in Nat
      /\ counted \in [1 .. MaxClients -> Nat]
  <2>1. MaxClients \in Nat
    BY ClientStatusAssumption
  <2>2. client.n \in 1 .. MaxClients /\ counted \in [1 .. MaxClients -> Nat]
    BY DEF TotalsInv
  <2> QED
    BY <2>1, <2>2
<1>4. /\ counted' \in [1 .. MaxClients -> Nat]
      /\ \A m \in 1 .. MaxClients : m > client.n => counted'[m] = counted[m]
      /\ counted'[client.n] = counted[client.n] + IF n = client.n THEN 1 ELSE 0
      /\ counted[client.n] \in Nat
  <2>1. counted' \in [1 .. MaxClients -> Nat] /\ counted[client.n] \in Nat
    BY <1>1, <1>3
  <2>2. \A m \in 1 .. MaxClients : counted'[m] = IF m = n THEN counted[m] + 1 ELSE counted[m]
    BY <1>1, <1>3
  <2>3. \A m \in 1 .. MaxClients : m > client.n => m # n
    BY <1>1, <1>3
  <2>4. counted'[client.n] = counted[client.n] + IF n = client.n THEN 1 ELSE 0
    <3>1. CASE n = client.n
      BY <2>2, <1>3, <3>1
    <3>2. CASE n # client.n
      BY <2>1, <2>2, <1>3, <3>2
    <3> QED
      BY <3>1, <3>2
  <2> QED
    BY <2>1, <2>2, <2>3, <2>4
<1>5. PICK c, d : c = counted[client.n] /\ d = shown.carried
  OBVIOUS
<1>6. /\ d \in Nat /\ carried \in Nat /\ late \in Nat /\ moved \in Nat
      /\ moved = late + carried + IF Counting THEN c ELSE 0
      /\ Counting => d = carried
      /\ ~Counting => carried <= d + c /\ d + c <= carried + late
  BY <1>5 DEF TotalsInv
<1>7. PICK one : one = IF n = client.n THEN 1 ELSE 0
  OBVIOUS
<1>8. /\ c \in Nat /\ counted'[client.n] = c + one /\ one \in {0, 1}
      /\ Counting => late' = late + 1 - one
      /\ ~Counting => late' = late + 1
  BY <1>2, <1>4, <1>5, <1>6, <1>7
<1>9. /\ late' \in Nat /\ moved' \in Nat
      /\ moved' = late' + carried + IF Counting THEN c + one ELSE 0
      /\ ~Counting => carried <= d + (c + one) /\ d + (c + one) <= carried + late'
  BY <1>1, <1>6, <1>8
<1>10. Counting' = Counting /\ client'.n = client.n /\ ClientForm' = ClientForm
  BY <1>1 DEF Counting, ClientForm
<1>11. /\ turn' \in {"run", "ending", "carry", "over"} /\ ClientForm'
       /\ shown' = [n |-> shown'.n, cfg |-> shown'.cfg, carried |-> shown'.carried]
       /\ client'.n \in 1 .. MaxClients /\ shown'.n = client'.n
       /\ turn' \in {"ending", "carry"} => client'.n < MaxClients
       /\ \A m \in 1 .. MaxClients : m > client'.n => counted'[m] = 0
  BY <1>1, <1>4, <1>10 DEF TotalsInv
<1>12. shown'.carried = d /\ carried' = carried
  BY <1>1, <1>5
<1> QED
  BY <1>4, <1>6, <1>8, <1>9, <1>10, <1>11, <1>12 DEF TotalsInv

LEMMA TotalsSteps == TotalsInv /\ [ClientStatusNext]_clientVars => TotalsInv'
<1> SUFFICES ASSUME TotalsInv, [ClientStatusNext]_clientVars PROVE TotalsInv'
  OBVIOUS
<1>0. ClientForm
  BY DEF TotalsInv
<1>1. CASE Connect \/ Dialed
  <2>1. UNCHANGED <<turn, shown, counted, moved, late, carried>>
    BY <1>1 DEF Connect, Dialed, Send, loopVars, totals
  <2>2. \/ client' = [client EXCEPT !.link = "up"]
        \/ client' = [client EXCEPT !.dialed = TRUE, !.expose = expose]
    BY <1>1 DEF Connect, Dialed
  <2>3. client'.n = client.n /\ ClientForm'
    BY <1>0, <2>2 DEF ClientForm
  <2> QED
    BY <2>1, <2>3, TotalsKept
<1>2. ASSUME NEW s \in Services, NEW o \in {"bound", "refused"}, AnswerComes(s, o)
      PROVE  TotalsInv'
  <2>1. PICK a : client' = [client EXCEPT !.answers = a]
    BY <1>0, <1>2 DEF AnswerComes, ClientForm
  <2>2. UNCHANGED <<turn, shown, counted, moved, late, carried>>
    BY <1>2 DEF AnswerComes, Send, loopVars, totals
  <2>3. client'.n = client.n /\ ClientForm'
    BY <1>0, <2>1 DEF ClientForm
  <2> QED
    BY <2>2, <2>3, TotalsKept
<1>3. ASSUME NEW link \in {"down", "stopped"}, Disconnect(link) PROVE TotalsInv'
  <2>1. /\ client' = [client EXCEPT !.link = link, !.dialed = FALSE, !.answers = Unanswered]
        /\ UNCHANGED <<turn, shown, counted, moved, late, carried>>
    BY <1>3 DEF Disconnect, Send, loopVars, totals
  <2>2. client'.n = client.n /\ ClientForm'
    BY <1>0, <2>1 DEF ClientForm
  <2> QED
    BY <2>1, <2>2, TotalsKept
<1>4. CASE TakeExpose
  <2>1. PICK a : client' = [client EXCEPT !.expose = expose, !.answers = a]
    BY <1>4 DEF TakeExpose
  <2>2. UNCHANGED <<turn, shown, counted, moved, late, carried>>
    BY <1>4 DEF TakeExpose, loopVars, totals
  <2>3. client'.n = client.n /\ ClientForm'
    BY <1>0, <2>1 DEF ClientForm
  <2> QED
    BY <2>2, <2>3, TotalsKept
<1>5. ASSUME NEW n \in 1 .. MaxClients, CountMoves(n) PROVE TotalsInv'
  BY <1>5, TotalsCount
<1>6. ASSUME NEW cfg, NEW reconnects \in BOOLEAN, Reload(cfg, reconnects) PROVE TotalsInv'
  <2>1. shown' = [n |-> shown.n, cfg |-> cfg, carried |-> shown.carried]
    BY <1>6 DEF Reload, TotalsInv
  <2>2. /\ turn = "run" /\ turn' \in {"run", "ending"}
        /\ turn' = "ending" => client.n < MaxClients
        /\ UNCHANGED <<client, counted, moved, late, carried>>
    BY <1>6 DEF Reload, totals
  <2> QED
    BY <2>1, <2>2 DEF TotalsInv, ClientForm, Counting
<1>7. CASE RunOver
  <2>1. /\ Counting
        /\ turn' = IF turn = "ending" THEN "carry" ELSE "over"
        /\ carried' = carried + counted[client.n]
        /\ UNCHANGED <<client, shown, counted, moved, late>>
    BY <1>7 DEF RunOver, Counting, totals
  <2>2. counted[client.n] \in Nat
    BY DEF TotalsInv
  <2> QED
    BY <2>1, <2>2 DEF TotalsInv, ClientForm, Counting
<1>8. CASE NextClient
  <2>1. /\ turn = "carry" /\ turn' = "run"
        /\ client' = [n |-> client.n + 1, link |-> "connecting", dialed |-> FALSE,
                      expose |-> shown.cfg, answers |-> Unanswered]
        /\ UNCHANGED <<counted, moved, late, carried>>
    BY <1>8 DEF NextClient, NewClient, totals
  <2>2. shown' = [n |-> client.n + 1, cfg |-> shown.cfg, carried |-> carried]
    BY <1>8 DEF NextClient, TotalsInv
  <2>3. /\ MaxClients \in Nat /\ client.n \in Nat /\ client.n + 1 \in 1 .. MaxClients
        /\ counted[client.n + 1] = 0
    <3>0. MaxClients \in Nat /\ client.n \in 1 .. MaxClients /\ client.n < MaxClients
      BY <2>1, ClientStatusAssumption DEF TotalsInv
    <3>1. client.n \in Nat /\ client.n + 1 \in 1 .. MaxClients /\ client.n + 1 > client.n
      BY <3>0
    <3> QED
      BY <3>0, <3>1 DEF TotalsInv
  <2> QED
    BY <2>1, <2>2, <2>3 DEF TotalsInv, ClientForm, Counting
<1>9. CASE \/ KeeperChanges \/ KeeperTakes \/ Forward \/ PanelChanges \/ PanelTakes
           \/ UNCHANGED clientVars
  <2>1. UNCHANGED <<turn, client, shown, counted, moved, late, carried>>
    BY <1>9 DEF KeeperChanges, KeeperTakes, Forward, PanelChanges, PanelTakes, clientVars,
                loopVars, totals
  <2>2. ClientForm'
    BY <1>0, <2>1 DEF ClientForm
  <2> QED
    BY <2>1, <2>2, TotalsKept
<1> QED
  BY <1>1, <1>2, <1>3, <1>4, <1>5, <1>6, <1>7, <1>8, <1>9 DEF ClientStatusNext

\* A status counts everything once (commands/client.rs, run): what the finished
\* clients carried is shown in one change with the client that follows, so that no
\* total is ever counted twice, however many clients a process starts; and all that a
\* status or the totals at the end lack came after its client was summed.
THEOREM TotalsAreExact == ClientStatusInit /\ [][ClientStatusNext]_clientVars => []TotalsExact
<1>1. TotalsInv => TotalsExact
  <2> SUFFICES ASSUME TotalsInv PROVE TotalsExact
    OBVIOUS
  <2>1. counted[client.n] \in Nat /\ shown.n = client.n
    BY DEF TotalsInv
  <2>2. CASE Counting
    BY <2>1, <2>2 DEF TotalsInv, TotalsExact, Reported, Counting
  <2>3. CASE ~Counting
    BY <2>1, <2>3 DEF TotalsInv, TotalsExact, Reported, Counting
  <2> QED
    BY <2>2, <2>3
<1> QED
  BY <1>1, TotalsStart, TotalsSteps, PTL

-----------------------------------------------------------------------------
(***************************************************************************)
(* ClientStatus, what its readers know.  While no event is missed, the     *)
(* last word on the link in a reader's queue is the client's, or there is  *)
(* none and the reader has it already; and the same of each service's      *)
(* answer since the client last connected.  The printer's queue is the     *)
(* tape: what was forwarded, what the keeper holds, what it has yet to     *)
(* take.  An answer the printer has recorded is for the settings that the  *)
(* client asked with, unless it was misread; whatever reloads bring, it    *)
(* asks again when they differ.                                            *)
(***************************************************************************)
Outcomes == {"bound", "refused"}
Ev == [kind : {"Connected"}] \cup [kind : {"Disconnected"}, link : {"down", "stopped"}]
      \cup [kind : {"Answer"}, service : Services, is : Outcomes]

\* The events that speak of the link, those that speak of a service, and what they say.
OfLink == {e \in Ev : e.kind # "Answer"}
Says(link) == IF link = "up" THEN {[kind |-> "Connected"]}
              ELSE {[kind |-> "Disconnected", link |-> link]}
OfService(s) == {e \in Ev : e.kind = "Connected" \/ (e.kind = "Answer" /\ e.service = s)}
Told(s, outcome) == {[kind |-> "Answer", service |-> s, is |-> outcome]}

\* What the printer has yet to take in.
Tape == (forwarded \o held) \o events

\* A client has answers in a session alone, and one for a service.
ClientTyped ==
    /\ client.link \in {"connecting", "up", "down", "stopped"}
    /\ client.link = "up" => client.dialed
    /\ client.answers = [s \in Services |-> client.answers[s]]
    /\ \A s \in Services : \A o \in client.answers[s] : client.answers[s] = {o}
    /\ client.link # "up" => \A s \in Services : client.answers[s] = {}
AgreeForms ==
    /\ ClientTyped
    /\ keeper = [n |-> keeper.n, link |-> keeper.link, answers |-> keeper.answers,
                 changed |-> keeper.changed]
    /\ panel = [n |-> panel.n, link |-> panel.link, answers |-> panel.answers,
                changed |-> panel.changed, stopped |-> panel.stopped]
    /\ keeper.answers = [s \in Services |-> keeper.answers[s]]
    /\ panel.answers = [s \in Services |-> panel.answers[s]]
    /\ events \in Seq(Ev) /\ forwarded \in Seq(Ev) /\ held \in Seq(Ev)

\* A reader that was not told of the client that runs knows that there is a change.
ReadersTold ==
    /\ keeper.n # shown.n => keeper.changed
    /\ panel.n # shown.n => panel.changed

LinkComes(queue, reader) ==
    ~missed /\ client.link # "connecting" =>
        \/ Lasts(queue, OfLink, Says(client.link))
        \/ Lacks(queue, OfLink) /\ reader.link = client.link /\ reader.n = shown.n
StopComes ==
    ~missed /\ client.link = "stopped" =>
        Lasts(Tape, OfLink, Says("stopped")) \/ panel.stopped
KeeperHears(s) ==
    ~missed /\ client.link = "up" => \A o \in client.answers[s] :
        \/ Lasts(events, OfService(s), Told(s, o))
        \/ Lacks(events, OfService(s)) /\ keeper.answers[s] = {o} /\ keeper.n = shown.n
PanelHears(s) ==
    ~missed /\ client.link = "up" /\ client.expose[s] # 0 => \A o \in client.answers[s] :
        \/ Lasts(Tape, OfService(s), Told(s, o))
        \/ /\ Lacks(Tape, OfService(s)) /\ panel.n = shown.n
           /\ s \notin misread => panel.answers[s] = {[asked |-> client.expose[s], is |-> o]}

AgreeInv ==
    /\ AgreeForms /\ ReadersTold
    /\ LinkComes(events, keeper) /\ LinkComes(Tape, panel) /\ StopComes
    /\ \A s \in Services : KeeperHears(s) /\ PanelHears(s)

(* Events. *)
LEMMA EventKinds ==
    ASSUME NEW e \in Ev
    PROVE  \/ e = [kind |-> "Connected"]
           \/ e.kind = "Disconnected" /\ e = [kind |-> "Disconnected", link |-> e.link]
              /\ e.link \in {"down", "stopped"}
           \/ e.kind = "Answer" /\ e = [kind |-> "Answer", service |-> e.service, is |-> e.is]
              /\ e.service \in Services /\ e.is \in Outcomes
BY DEF Ev

\* What an event makes of a link.
LEMMA LinkTaken ==
    ASSUME NEW e \in Ev, NEW link
    PROVE  /\ e \notin OfLink => Linked(link, e) = link
           /\ e \in Says("up") => Linked(link, e) = "up"
           /\ e \in Says("down") => Linked(link, e) = "down"
           /\ e \in Says("stopped") => Linked(link, e) = "stopped"
<1>1. CASE e = [kind |-> "Connected"]
  BY <1>1 DEF OfLink, Linked, Says
<1>2. CASE e.kind = "Disconnected" /\ e = [kind |-> "Disconnected", link |-> e.link]
  BY <1>2 DEF OfLink, Linked, Says
<1>3. CASE e.kind = "Answer" /\ e = [kind |-> "Answer", service |-> e.service, is |-> e.is]
  BY <1>3 DEF OfLink, Linked, Says
<1> QED
  BY <1>1, <1>2, <1>3, EventKinds

\* What an event makes of a service's answers, in the status reply.
LEMMA AnswerModelled ==
    ASSUME NEW e \in Ev, NEW s \in Services, NEW answers,
           answers = [t \in Services |-> answers[t]]
    PROVE  /\ e \notin OfService(s) => Modelled(answers, e)[s] = answers[s]
           /\ \A o : e \in Told(s, o) => Modelled(answers, e)[s] = {o}
<1>1. CASE e = [kind |-> "Connected"]
  BY <1>1 DEF OfService, Modelled, Told, Unanswered
<1>2. CASE e.kind = "Disconnected" /\ e = [kind |-> "Disconnected", link |-> e.link]
  BY <1>2 DEF OfService, Modelled, Told
<1>3. CASE e.kind = "Answer" /\ e = [kind |-> "Answer", service |-> e.service, is |-> e.is]
           /\ e.service \in Services
  <2>1. Modelled(answers, e) = [t \in Services |-> IF t = e.service THEN {e.is} ELSE answers[t]]
    BY <1>3 DEF Modelled
  <2> QED
    BY <1>3, <2>1 DEF OfService, Told
<1> QED
  BY <1>1, <1>2, <1>3, EventKinds

\* ... and in the panel or the status line, where an answer counts for the settings in
\* force.
LEMMA AnswerRecorded ==
    ASSUME NEW e \in Ev, NEW s \in Services, NEW answers,
           answers = [t \in Services |-> answers[t]]
    PROVE  /\ e \notin OfService(s) => Recorded(answers, e)[s] = answers[s]
           /\ \A o : e \in Told(s, o) /\ shown.cfg[s] # 0 =>
                  Recorded(answers, e)[s] = {[asked |-> shown.cfg[s], is |-> o]}
<1>1. CASE e = [kind |-> "Connected"]
  BY <1>1 DEF OfService, Recorded, Told, Unanswered
<1>2. CASE e.kind = "Disconnected" /\ e = [kind |-> "Disconnected", link |-> e.link]
  BY <1>2 DEF OfService, Recorded, Told
<1>3. CASE e.kind = "Answer" /\ e = [kind |-> "Answer", service |-> e.service, is |-> e.is]
           /\ e.service \in Services
  <2>1. CASE shown.cfg[e.service] # 0
    <3>1. Recorded(answers, e) =
              [t \in Services |-> IF t = e.service
                                  THEN {[asked |-> shown.cfg[e.service], is |-> e.is]}
                                  ELSE answers[t]]
      BY <1>3, <2>1 DEF Recorded
    <3> QED
      BY <1>3, <3>1 DEF OfService, Told
  <2>2. CASE shown.cfg[e.service] = 0
    <3>1. Recorded(answers, e) = answers
      BY <1>3, <2>2 DEF Recorded
    <3> QED
      BY <1>3, <2>2, <3>1 DEF OfService, Told
  <2> QED
    BY <2>1, <2>2
<1> QED
  BY <1>1, <1>2, <1>3, EventKinds

\* ... unless the client asked with others.
LEMMA AnswerMisread ==
    ASSUME NEW e \in Ev, NEW s \in Services
    PROVE  /\ e \notin OfService(s) => (s \in Misread(e) <=> s \in misread)
           /\ \A o : e \in Told(s, o) /\ s \notin Misread(e) => shown.cfg[s] = client.expose[s]
<1>1. CASE e = [kind |-> "Connected"]
  BY <1>1 DEF OfService, Told
<1>2. CASE e.kind = "Disconnected" /\ e = [kind |-> "Disconnected", link |-> e.link]
  BY <1>2 DEF OfService, Misread, Told
<1>3. CASE e.kind = "Answer" /\ e = [kind |-> "Answer", service |-> e.service, is |-> e.is]
           /\ e.service \in Services
  <2>1. Misread(e) = IF shown.cfg[e.service] = client.expose[e.service]
                       THEN misread \ {e.service} ELSE misread \cup {e.service}
    BY <1>3 DEF Misread
  <2> QED
    BY <1>3, <2>1 DEF OfService, Told
<1> QED
  BY <1>1, <1>2, <1>3, EventKinds

\* Rows stay rows, one for each service.
LEMMA AnswersForm ==
    ASSUME NEW e \in Ev, NEW answers, answers = [t \in Services |-> answers[t]]
    PROVE  /\ Modelled(answers, e) = [t \in Services |-> Modelled(answers, e)[t]]
           /\ Recorded(answers, e) = [t \in Services |-> Recorded(answers, e)[t]]
<1>1. CASE e = [kind |-> "Connected"]
  BY <1>1 DEF Modelled, Recorded, Unanswered
<1>2. CASE e.kind = "Disconnected" /\ e = [kind |-> "Disconnected", link |-> e.link]
  BY <1>2 DEF Modelled, Recorded
<1>3. CASE e.kind = "Answer" /\ e.service \in Services
  <2>1. \A x : /\ DOMAIN [answers EXCEPT ![e.service] = x] = Services
              /\ [answers EXCEPT ![e.service] = x]
                     = [t \in Services |-> [answers EXCEPT ![e.service] = x][t]]
    BY <1>3
  <2>2. PICK x : Modelled(answers, e) = [answers EXCEPT ![e.service] = x]
    BY <1>3 DEF Modelled
  <2>3. PICK y : Recorded(answers, e) \in {[answers EXCEPT ![e.service] = y], answers}
    BY <1>3 DEF Recorded
  <2> QED
    BY <2>1, <2>2, <2>3
<1> QED
  BY <1>1, <1>2, <1>3, EventKinds

(* The tape: what the steps of the client and of the readers make of it. *)
LEMMA TapeType ==
    ASSUME AgreeForms
    PROVE  Tape \in Seq(Ev) /\ forwarded \o held \in Seq(Ev)
BY ConcatProperties DEF AgreeForms, Tape

\* An event that is sent comes last for the printer too.
LEMMA TapeSend ==
    ASSUME AgreeForms, NEW e \in Ev, events' = Append(events, e),
           UNCHANGED <<forwarded, held>>
    PROVE  Tape' = Append(Tape, e)
<1>1. PICK f : f = forwarded \o held
  OBVIOUS
<1>2. f \in Seq(Ev) /\ events \in Seq(Ev)
  BY <1>1, TapeType DEF AgreeForms
<1>3. f \o Append(events, e) = Append(f \o events, e)
  BY <1>2, AppendConcat
<1> QED
  BY <1>1, <1>3 DEF Tape

\* An event the keeper takes stays where it is in the printer's order, ...
LEMMA TapeKeeperTakes ==
    ASSUME AgreeForms, events # <<>>, held = <<>>,
           events' = Tail(events), held' = <<Head(events)>>, UNCHANGED forwarded
    PROVE  Tape' = Tape
<1> PICK h, t : h = Head(events) /\ t = Tail(events)
  OBVIOUS
<1>1. h \in Ev /\ t \in Seq(Ev) /\ <<h>> \in Seq(Ev) /\ events \in Seq(Ev) /\ forwarded \in Seq(Ev)
  BY TailIs DEF AgreeForms
<1>2. <<h>> \o t = events
  BY <1>1
<1>3. (forwarded \o <<h>>) \o t = forwarded \o (<<h>> \o t)
  BY <1>1, ConcatAssociative
<1>4. forwarded \o <<>> = forwarded
  BY <1>1, ConcatEmptySeq
<1> QED
  BY <1>2, <1>3, <1>4 DEF Tape

\* ... as it does when it is passed on, ...
LEMMA TapeForward ==
    ASSUME AgreeForms, forwarded' = forwarded \o held, held' = <<>>, UNCHANGED events
    PROVE  Tape' = Tape
<1>1. (forwarded \o held) \o <<>> = forwarded \o held
  BY TapeType, ConcatEmptySeq
<1> QED
  BY <1>1 DEF Tape

\* ... and the printer takes the first.
LEMMA TapePanelTakes ==
    ASSUME AgreeForms, forwarded # <<>>, forwarded' = Tail(forwarded), UNCHANGED <<held, events>>
    PROVE  Tape # <<>> /\ Head(Tape) = Head(forwarded) /\ Tape' = Tail(Tape)
<1>1. /\ forwarded \o held # <<>> /\ Head(forwarded \o held) = Head(forwarded)
      /\ Tail(forwarded \o held) = Tail(forwarded) \o held
  BY TailConcat DEF AgreeForms
<1>2. /\ Tape # <<>> /\ Head(Tape) = Head(forwarded \o held)
      /\ Tail(Tape) = Tail(forwarded \o held) \o events
  <2> PICK f : f = forwarded \o held
    OBVIOUS
  <2>1. f \in Seq(Ev) /\ f # <<>> /\ events \in Seq(Ev)
    BY <1>1, TapeType DEF AgreeForms
  <2> QED
    BY <2>1, TailConcat DEF Tape
<1> QED
  BY <1>1, <1>2 DEF Tape

\* At first a client has said nothing.
LEMMA AgreeStart == ClientStatusInit => AgreeInv
<1> SUFFICES ASSUME ClientStatusInit PROVE AgreeInv
  OBVIOUS
<1>1. AgreeForms
  BY DEF ClientStatusInit, AgreeForms, ClientTyped, NewClient, Unanswered
<1>2. ReadersTold
  BY DEF ClientStatusInit, ReadersTold
<1>3. client.link = "connecting" /\ \A s \in Services : client.answers[s] = {}
  BY DEF ClientStatusInit, NewClient, Unanswered
<1> QED
  BY <1>1, <1>2, <1>3 DEF AgreeInv, LinkComes, StopComes, KeeperHears, PanelHears

\* A step that touches none of this.
LEMMA AgreeSame ==
    ASSUME AgreeInv,
           UNCHANGED <<client, shown, events, missed, forwarded, held, keeper, panel, misread>>
    PROVE  AgreeInv'
<1>1. Tape' = Tape
  BY DEF Tape
<1>2. AgreeForms' /\ ReadersTold'
  BY DEF AgreeInv, AgreeForms, ClientTyped, ReadersTold
<1>3. LinkComes(events, keeper)' /\ LinkComes(Tape, panel)' /\ StopComes'
  BY <1>1 DEF AgreeInv, LinkComes, StopComes
<1>4. ASSUME NEW s \in Services PROVE KeeperHears(s)' /\ PanelHears(s)'
  BY <1>1 DEF AgreeInv, KeeperHears, PanelHears
<1> QED
  BY <1>2, <1>3, <1>4 DEF AgreeInv

\* An event is sent, and finds room or not.
LEMMA Sent ==
    ASSUME AgreeForms, NEW e \in Ev, Send(e)
    PROVE  /\ \/ /\ events' = Append(events, e) /\ Tape' = Append(Tape, e)
                 /\ missed' = (missed /\ e.kind = "Answer")
              \/ missed' = TRUE
           /\ events' \in Seq(Ev)
           /\ UNCHANGED <<shown, forwarded, held, keeper, panel, misread>>
<1>1. UNCHANGED <<shown, forwarded, held, keeper, panel, misread>>
  BY DEF Send, loopVars, readers
<1>2. CASE Len(events) < Queue
  <2>1. events' = Append(events, e) /\ missed' = (missed /\ e.kind = "Answer")
    BY <1>2 DEF Send
  <2>2. Tape' = Append(Tape, e)
    BY <1>1, <2>1, TapeSend
  <2>3. events' \in Seq(Ev)
    BY <2>1, AppendIs DEF AgreeForms
  <2> QED
    BY <1>1, <2>1, <2>2, <2>3
<1>3. CASE ~(Len(events) < Queue)
  BY <1>1, <1>3 DEF Send, AgreeForms
<1> QED
  BY <1>2, <1>3

\* Nothing is claimed while an event was missed.
LEMMA AgreeMissed ==
    ASSUME AgreeForms', ReadersTold', missed' = TRUE
    PROVE  AgreeInv'
<1>1. LinkComes(events, keeper)' /\ LinkComes(Tape, panel)' /\ StopComes'
  BY DEF LinkComes, StopComes
<1>2. \A s \in Services : KeeperHears(s)' /\ PanelHears(s)'
  BY DEF KeeperHears, PanelHears
<1> QED
  BY <1>1, <1>2 DEF AgreeInv

\* What a client says leaves every record in form.
LEMMA FormsSent ==
    ASSUME AgreeForms, events' \in Seq(Ev),
           UNCHANGED <<shown, forwarded, held, keeper, panel, misread>>,
           ClientTyped'
    PROVE  AgreeForms'
BY DEF AgreeForms

\* The client connects, ...
LEMMA AgreeConnect == AgreeInv /\ TotalsInv /\ Connect => AgreeInv'
<1> SUFFICES ASSUME AgreeInv, TotalsInv, Connect PROVE AgreeInv'
  OBVIOUS
<1>0. AgreeForms /\ ReadersTold
  BY DEF AgreeInv
<1> PICK e : e = [kind |-> "Connected"]
  OBVIOUS
<1>1. e \in Ev /\ e \in Says("up") /\ e \in OfLink /\ e.kind = "Connected"
  BY DEF Ev, Says, OfLink
<1>2. client' = [client EXCEPT !.link = "up"] /\ Send(e) /\ client.link # "up" /\ client.dialed
  BY DEF Connect
<1>3. /\ client'.link = "up" /\ client'.dialed = client.dialed
      /\ client'.answers = client.answers
      /\ \A s \in Services : client'.answers[s] = {}
  <2>1. client'.link = "up" /\ client'.answers = client.answers /\ client'.dialed = client.dialed
    BY <1>2 DEF TotalsInv, ClientForm
  <2> QED
    BY <1>0, <1>2, <2>1 DEF AgreeForms, ClientTyped
<1>4. /\ \/ /\ events' = Append(events, e) /\ Tape' = Append(Tape, e)
            /\ missed' = (missed /\ e.kind = "Answer")
         \/ missed' = TRUE
      /\ events' \in Seq(Ev)
      /\ UNCHANGED <<shown, forwarded, held, keeper, panel, misread>>
  BY <1>0, <1>1, <1>2, Sent
<1>5. AgreeForms'
  <2>1. ClientTyped'
    BY <1>0, <1>2, <1>3 DEF AgreeForms, ClientTyped
  <2> QED
    BY <1>0, <1>4, <2>1, FormsSent
<1>6. ReadersTold'
  BY <1>0, <1>4 DEF ReadersTold
<1>7. CASE missed' = TRUE
  BY <1>5, <1>6, <1>7, AgreeMissed
<1>8. CASE events' = Append(events, e) /\ Tape' = Append(Tape, e)
  <2>1. Lasts(events', OfLink, Says("up")) /\ Lasts(Tape', OfLink, Says("up"))
    BY <1>0, <1>1, <1>8, LastsAppend, TapeType DEF AgreeForms
  <2>2. LinkComes(events, keeper)' /\ LinkComes(Tape, panel)' /\ StopComes'
    BY <1>3, <2>1 DEF LinkComes, StopComes
  <2>3. \A s \in Services : KeeperHears(s)' /\ PanelHears(s)'
    BY <1>3 DEF KeeperHears, PanelHears
  <2> QED
    BY <1>5, <1>6, <2>2, <2>3 DEF AgreeInv
<1> QED
  BY <1>4, <1>7, <1>8

\* ... loses its session or stops, ...
LEMMA AgreeDisconnect ==
    ASSUME AgreeInv, TotalsInv, NEW link \in {"down", "stopped"}, Disconnect(link)
    PROVE  AgreeInv'
<1>0. AgreeForms /\ ReadersTold
  BY DEF AgreeInv
<1> PICK e : e = [kind |-> "Disconnected", link |-> link]
  OBVIOUS
<1>1. e \in Ev /\ e \in Says(link) /\ e \in OfLink /\ e.kind = "Disconnected"
  BY DEF Ev, Says, OfLink
<1>2. /\ client' = [client EXCEPT !.link = link, !.dialed = FALSE, !.answers = Unanswered]
      /\ Send(e)
  BY DEF Disconnect
<1>3. client'.link = link /\ client'.answers = Unanswered
  BY <1>2 DEF TotalsInv, ClientForm
<1>4. /\ \/ /\ events' = Append(events, e) /\ Tape' = Append(Tape, e)
            /\ missed' = (missed /\ e.kind = "Answer")
         \/ missed' = TRUE
      /\ events' \in Seq(Ev)
      /\ UNCHANGED <<shown, forwarded, held, keeper, panel, misread>>
  BY <1>0, <1>1, <1>2, Sent
<1>5. AgreeForms'
  <2>1. ClientTyped'
    BY <1>3 DEF ClientTyped, Unanswered
  <2> QED
    BY <1>0, <1>4, <2>1, FormsSent
<1>6. ReadersTold'
  BY <1>0, <1>4 DEF ReadersTold
<1>7. CASE missed' = TRUE
  BY <1>5, <1>6, <1>7, AgreeMissed
<1>8. CASE events' = Append(events, e) /\ Tape' = Append(Tape, e)
  <2>1. Lasts(events', OfLink, Says(link)) /\ Lasts(Tape', OfLink, Says(link))
    BY <1>0, <1>1, <1>8, LastsAppend, TapeType DEF AgreeForms
  <2>2. LinkComes(events, keeper)' /\ LinkComes(Tape, panel)' /\ StopComes'
    BY <1>3, <2>1 DEF LinkComes, StopComes
  <2>3. \A s \in Services : KeeperHears(s)' /\ PanelHears(s)'
    BY <1>3 DEF KeeperHears, PanelHears
  <2> QED
    BY <1>5, <1>6, <2>2, <2>3 DEF AgreeInv
<1> QED
  BY <1>4, <1>7, <1>8

\* ... hears of a service, ...
LEMMA AgreeAnswer ==
    ASSUME AgreeInv, TotalsInv, NEW s \in Services, NEW o \in {"bound", "refused"},
           AnswerComes(s, o)
    PROVE  AgreeInv'
<1>0. AgreeForms /\ ReadersTold
  BY DEF AgreeInv
<1>e. PICK e : e = [kind |-> "Answer", service |-> s, is |-> o]
  OBVIOUS
<1>1. /\ e \in Ev /\ e \in Told(s, o) /\ e \notin OfLink /\ e.kind = "Answer"
      /\ \A t \in Services : t # s => e \notin OfService(t)
  BY <1>e DEF Ev, Told, OfLink, OfService, Outcomes
<1>2. client' = [client EXCEPT !.answers[s] = {o}] /\ Send(e) /\ client.link = "up"
  BY <1>e DEF AnswerComes
<1>3. /\ client'.link = client.link /\ client'.expose = client.expose
      /\ client'.dialed = client.dialed
      /\ client'.answers = [client.answers EXCEPT ![s] = {o}]
  BY <1>2 DEF TotalsInv, ClientForm
<1>4. /\ \/ /\ events' = Append(events, e) /\ Tape' = Append(Tape, e)
            /\ missed' = (missed /\ e.kind = "Answer")
         \/ missed' = TRUE
      /\ events' \in Seq(Ev)
      /\ UNCHANGED <<shown, forwarded, held, keeper, panel, misread>>
  BY <1>0, <1>1, <1>2, Sent
<1>6. /\ client'.answers = [t \in Services |-> client'.answers[t]]
      /\ client'.answers[s] = {o}
      /\ \A t \in Services : t # s => client'.answers[t] = client.answers[t]
  <2>1. PICK x : x = client.answers
    OBVIOUS
  <2>2. x = [t \in Services |-> x[t]] /\ client'.answers = [x EXCEPT ![s] = {o}]
    BY <1>0, <1>3, <2>1 DEF AgreeForms, ClientTyped
  <2>3. client'.answers = [t \in Services |-> IF t = s THEN {o} ELSE x[t]]
    BY <2>2
  <2> QED
    BY <2>1, <2>3
<1>7. ClientTyped'
  BY <1>0, <1>2, <1>3, <1>6 DEF AgreeForms, ClientTyped
<1>8. AgreeForms'
  BY <1>0, <1>4, <1>7, FormsSent
<1>9. ReadersTold'
  BY <1>0, <1>4 DEF ReadersTold
<1>10. CASE missed' = TRUE
  BY <1>8, <1>9, <1>10, AgreeMissed
<1>11. CASE events' = Append(events, e) /\ Tape' = Append(Tape, e) /\ ~missed'
            /\ missed' = (missed /\ e.kind = "Answer")
  <2>0. ~missed
    BY <1>1, <1>11
  <2>1. /\ events \in Seq(Ev) /\ Tape \in Seq(Ev) /\ e \in Ev
        /\ events' = Append(events, e) /\ Tape' = Append(Tape, e)
    BY <1>0, <1>1, <1>11, TapeType DEF AgreeForms
  <2>2. ASSUME NEW G
        PROVE  /\ Lasts(events, OfLink, G) => Lasts(events', OfLink, G)
               /\ Lasts(Tape, OfLink, G) => Lasts(Tape', OfLink, G)
               /\ Lacks(events, OfLink) => Lacks(events', OfLink)
               /\ Lacks(Tape, OfLink) => Lacks(Tape', OfLink)
    <3>0. e \notin OfLink
      BY <1>1
    <3>1. /\ Lasts(events, OfLink, G) => Lasts(events', OfLink, G)
          /\ Lacks(events, OfLink) => Lacks(events', OfLink)
      BY <2>1, <3>0, LastsPassed
    <3>2. /\ Lasts(Tape, OfLink, G) => Lasts(Tape', OfLink, G)
          /\ Lacks(Tape, OfLink) => Lacks(Tape', OfLink)
      BY <2>1, <3>0, LastsPassed
    <3> QED
      BY <3>1, <3>2
  <2>3. LinkComes(events, keeper)' /\ LinkComes(Tape, panel)' /\ StopComes'
    <3>1. LinkComes(events, keeper)'
      BY <1>3, <1>4, <2>0, <2>2 DEF AgreeInv, LinkComes
    <3>2. LinkComes(Tape, panel)'
      BY <1>3, <1>4, <2>0, <2>2 DEF AgreeInv, LinkComes
    <3>3. StopComes'
      BY <1>3, <1>4, <2>0, <2>2 DEF AgreeInv, StopComes
    <3> QED
      BY <3>1, <3>2, <3>3
  <2>4. ASSUME NEW t \in Services PROVE KeeperHears(t)' /\ PanelHears(t)'
    <3>1. CASE t = s
      <4>1. /\ Lasts(events', OfService(s), Told(s, o)) /\ Lasts(Tape', OfService(s), Told(s, o))
        BY <1>1, <1>11, <2>1, LastsAppend
      <4> QED
        BY <1>6, <3>1, <4>1 DEF KeeperHears, PanelHears
    <3>2. CASE t # s
      <4>1. ASSUME NEW G
            PROVE  /\ Lasts(events, OfService(t), G) => Lasts(events', OfService(t), G)
                   /\ Lasts(Tape, OfService(t), G) => Lasts(Tape', OfService(t), G)
                   /\ Lacks(events, OfService(t)) => Lacks(events', OfService(t))
                   /\ Lacks(Tape, OfService(t)) => Lacks(Tape', OfService(t))
        <5>0. e \notin OfService(t)
          BY <1>1, <3>2
        <5>1. /\ Lasts(events, OfService(t), G) => Lasts(events', OfService(t), G)
              /\ Lacks(events, OfService(t)) => Lacks(events', OfService(t))
          BY <2>1, <5>0, LastsPassed
        <5>2. /\ Lasts(Tape, OfService(t), G) => Lasts(Tape', OfService(t), G)
              /\ Lacks(Tape, OfService(t)) => Lacks(Tape', OfService(t))
          BY <2>1, <5>0, LastsPassed
        <5> QED
          BY <5>1, <5>2
      <4>2. KeeperHears(t)'
        BY <1>3, <1>4, <1>6, <2>0, <3>2, <4>1 DEF AgreeInv, KeeperHears
      <4>3. PanelHears(t)'
        BY <1>3, <1>4, <1>6, <2>0, <3>2, <4>1 DEF AgreeInv, PanelHears
      <4> QED
        BY <4>2, <4>3
    <3> QED
      BY <3>1, <3>2
  <2> QED
    BY <1>8, <1>9, <2>3, <2>4 DEF AgreeInv
<1> QED
  BY <1>1, <1>4, <1>10, <1>11

\* ... takes up a reload, ...
LEMMA AgreeTakeExpose == AgreeInv /\ TotalsInv /\ TakeExpose => AgreeInv'
<1> SUFFICES ASSUME AgreeInv, TotalsInv, TakeExpose PROVE AgreeInv'
  OBVIOUS
<1>0. AgreeForms
  BY DEF AgreeInv
<1>1. UNCHANGED <<shown, events, missed, forwarded, held, keeper, panel, misread>>
  BY DEF TakeExpose, loopVars, readers
<1>2. /\ client'.link = client.link /\ client'.dialed = client.dialed
      /\ client.link = "up" /\ client'.expose = expose
      /\ client'.answers = [s \in Services |-> IF expose[s] = client.expose[s]
                                                 THEN client.answers[s] \ {"refused"} ELSE {}]
  BY DEF TakeExpose, TotalsInv, ClientForm
<1>3. Tape' = Tape
  BY <1>1 DEF Tape
<1>4. ASSUME NEW s \in Services
      PROVE  /\ client'.answers[s] \subseteq client.answers[s]
             /\ client'.answers[s] # {} => client'.expose[s] = client.expose[s]
  BY <1>2
<1>5. AgreeForms'
  <2>1. ClientTyped'
    BY <1>0, <1>2 DEF AgreeForms, ClientTyped
  <2> QED
    BY <1>0, <1>1, <2>1, FormsSent DEF AgreeForms
<1>6. ReadersTold'
  BY <1>1 DEF AgreeInv, ReadersTold
<1>7. LinkComes(events, keeper)' /\ LinkComes(Tape, panel)' /\ StopComes'
  BY <1>1, <1>2, <1>3 DEF AgreeInv, LinkComes, StopComes
<1>8. ASSUME NEW s \in Services PROVE KeeperHears(s)' /\ PanelHears(s)'
  <2>1. KeeperHears(s)'
    BY <1>1, <1>2, <1>4 DEF AgreeInv, KeeperHears
  <2>2. PanelHears(s)'
    BY <1>1, <1>2, <1>3, <1>4 DEF AgreeInv, PanelHears
  <2> QED
    BY <2>1, <2>2
<1> QED
  BY <1>5, <1>6, <1>7, <1>8 DEF AgreeInv

\* ... and, with no session, reads what the next one is to ask for.
LEMMA AgreeDialed == AgreeInv /\ TotalsInv /\ Dialed => AgreeInv'
<1> SUFFICES ASSUME AgreeInv, TotalsInv, Dialed PROVE AgreeInv'
  OBVIOUS
<1>0. AgreeForms
  BY DEF AgreeInv
<1>1. UNCHANGED <<shown, events, missed, forwarded, held, keeper, panel, misread>>
  BY DEF Dialed, loopVars, readers
<1>2. client'.link = client.link /\ client'.answers = client.answers /\ client.link # "up"
  BY <1>0 DEF Dialed, TotalsInv, ClientForm, AgreeForms, ClientTyped
<1>3. Tape' = Tape
  BY <1>1 DEF Tape
<1>4. AgreeForms'
  <2>1. ClientTyped'
    BY <1>0, <1>2 DEF AgreeForms, ClientTyped
  <2> QED
    BY <1>0, <1>1, <2>1, FormsSent DEF AgreeForms
<1>5. ReadersTold'
  BY <1>1 DEF AgreeInv, ReadersTold
<1>6. LinkComes(events, keeper)' /\ LinkComes(Tape, panel)' /\ StopComes'
  BY <1>1, <1>2, <1>3 DEF AgreeInv, LinkComes, StopComes
<1>7. \A s \in Services : KeeperHears(s)' /\ PanelHears(s)'
  BY <1>2 DEF KeeperHears, PanelHears
<1> QED
  BY <1>4, <1>5, <1>6, <1>7 DEF AgreeInv

\* What a change leaves the readers with.
LEMMA ChangesFacts ==
    ASSUME AgreeForms, Changes
    PROVE  /\ keeper' = [n |-> keeper.n, link |-> keeper.link, answers |-> keeper.answers,
                         changed |-> TRUE]
           /\ panel' = [n |-> panel.n, link |-> panel.link, answers |-> panel.answers,
                        changed |-> TRUE, stopped |-> panel.stopped]
BY DEF AgreeForms, Changes

\* A reload leaves alone what the client has asked for and was answered.
LEMMA AgreeReload ==
    ASSUME AgreeInv, TotalsInv, NEW cfg, NEW reconnects \in BOOLEAN, Reload(cfg, reconnects)
    PROVE  AgreeInv'
<1>0. AgreeForms
  BY DEF AgreeInv
<1>1. UNCHANGED <<client, events, missed, forwarded, held, misread>> /\ Changes
  BY DEF Reload
<1>2. shown'.n = shown.n
  BY DEF Reload, TotalsInv
<1>3. /\ keeper' = [n |-> keeper.n, link |-> keeper.link, answers |-> keeper.answers,
                    changed |-> TRUE]
      /\ panel' = [n |-> panel.n, link |-> panel.link, answers |-> panel.answers,
                   changed |-> TRUE, stopped |-> panel.stopped]
  BY <1>0, <1>1, ChangesFacts
<1>4. AgreeForms'
  BY <1>0, <1>1, <1>3 DEF AgreeForms, ClientTyped
<1>5. ReadersTold'
  BY <1>3 DEF ReadersTold
<1>6. Tape' = Tape
  BY <1>1 DEF Tape
<1>7. LinkComes(events, keeper)' /\ LinkComes(Tape, panel)' /\ StopComes'
  BY <1>1, <1>2, <1>3, <1>6 DEF AgreeInv, LinkComes, StopComes
<1>8. ASSUME NEW s \in Services PROVE KeeperHears(s)' /\ PanelHears(s)'
  <2>1. KeeperHears(s)'
    BY <1>1, <1>2, <1>3 DEF AgreeInv, KeeperHears
  <2>2. PanelHears(s)'
    BY <1>1, <1>2, <1>3, <1>6 DEF AgreeInv, PanelHears
  <2> QED
    BY <2>1, <2>2
<1> QED
  BY <1>4, <1>5, <1>7, <1>8 DEF AgreeInv

\* A new client is shown.
LEMMA AgreeNextClient == AgreeInv /\ TotalsInv /\ NextClient => AgreeInv'
<1> SUFFICES ASSUME AgreeInv, TotalsInv, NextClient PROVE AgreeInv'
  OBVIOUS
<1>0. AgreeForms
  BY DEF AgreeInv
<1>1. /\ UNCHANGED <<events, missed, forwarded, held>> /\ Changes
      /\ client' = NewClient(client.n + 1, shown.cfg)
  BY DEF NextClient
<1>2. client'.link = "connecting" /\ client'.answers = Unanswered
  BY <1>1 DEF NewClient
<1>3. /\ keeper' = [n |-> keeper.n, link |-> keeper.link, answers |-> keeper.answers,
                    changed |-> TRUE]
      /\ panel' = [n |-> panel.n, link |-> panel.link, answers |-> panel.answers,
                   changed |-> TRUE, stopped |-> panel.stopped]
  BY <1>0, <1>1, ChangesFacts
<1>4. ClientTyped'
  BY <1>2 DEF ClientTyped, Unanswered
<1>5. AgreeForms'
  BY <1>0, <1>1, <1>3, <1>4 DEF AgreeForms
<1>6. ReadersTold'
  BY <1>3 DEF ReadersTold
<1>7. LinkComes(events, keeper)' /\ LinkComes(Tape, panel)' /\ StopComes'
  BY <1>2 DEF LinkComes, StopComes
<1>8. \A s \in Services : KeeperHears(s)' /\ PanelHears(s)'
  BY <1>2 DEF KeeperHears, PanelHears
<1> QED
  BY <1>5, <1>6, <1>7, <1>8 DEF AgreeInv

\* The keeper takes in that there is a change, ...
LEMMA AgreeKeeperChanges == AgreeInv /\ KeeperChanges => AgreeInv'
<1> SUFFICES ASSUME AgreeInv, KeeperChanges PROVE AgreeInv'
  OBVIOUS
<1>0. AgreeForms
  BY DEF AgreeInv
<1>1. UNCHANGED <<client, shown, events, missed, forwarded, held, panel, misread>>
  BY DEF KeeperChanges, loopVars
<1>2. /\ keeper' = [n |-> keeper'.n, link |-> keeper'.link, answers |-> keeper'.answers,
                    changed |-> keeper'.changed]
      /\ keeper'.answers = [s \in Services |-> keeper'.answers[s]]
      /\ keeper'.n = shown.n
      /\ keeper.n = shown.n => keeper'.link = keeper.link /\ keeper'.answers = keeper.answers
  <2>1. CASE keeper.n = shown.n
    <3>1. keeper' = [keeper EXCEPT !.changed = FALSE]
      BY <2>1 DEF KeeperChanges
    <3> QED
      BY <1>0, <2>1, <3>1 DEF AgreeForms
  <2>2. CASE keeper.n # shown.n
    <3>1. keeper' = [n |-> shown.n, link |-> "connecting", answers |-> Unanswered,
                     changed |-> FALSE]
      BY <2>2 DEF KeeperChanges
    <3> QED
      BY <2>2, <3>1 DEF Unanswered
  <2> QED
    BY <2>1, <2>2
<1>3. Tape' = Tape
  BY <1>1 DEF Tape
<1>4. AgreeForms'
  BY <1>0, <1>1, <1>2 DEF AgreeForms, ClientTyped
<1>5. ReadersTold'
  BY <1>1, <1>2 DEF AgreeInv, ReadersTold
<1>6. LinkComes(events, keeper)' /\ LinkComes(Tape, panel)' /\ StopComes'
  BY <1>1, <1>2, <1>3 DEF AgreeInv, LinkComes, StopComes
<1>7. ASSUME NEW s \in Services PROVE KeeperHears(s)' /\ PanelHears(s)'
  <2>1. KeeperHears(s)'
    BY <1>1, <1>2 DEF AgreeInv, KeeperHears
  <2>2. PanelHears(s)'
    BY <1>1, <1>3 DEF AgreeInv, PanelHears
  <2> QED
    BY <2>1, <2>2
<1> QED
  BY <1>4, <1>5, <1>6, <1>7 DEF AgreeInv

\* ... and so does the printer.
LEMMA AgreePanelChanges == AgreeInv /\ PanelChanges => AgreeInv'
<1> SUFFICES ASSUME AgreeInv, PanelChanges PROVE AgreeInv'
  OBVIOUS
<1>0. AgreeForms
  BY DEF AgreeInv
<1>1. UNCHANGED <<client, shown, events, missed, forwarded, held, keeper, misread>>
  BY DEF PanelChanges, loopVars
<1>2. /\ panel' = [n |-> panel'.n, link |-> panel'.link, answers |-> panel'.answers,
                   changed |-> panel'.changed, stopped |-> panel'.stopped]
      /\ panel'.answers = [s \in Services |-> panel'.answers[s]]
      /\ panel'.n = shown.n /\ panel'.stopped = panel.stopped
      /\ panel.n = shown.n => panel'.link = panel.link /\ panel'.answers = panel.answers
  <2>1. CASE panel.n = shown.n
    <3>1. panel' = [panel EXCEPT !.changed = FALSE]
      BY <2>1 DEF PanelChanges
    <3> QED
      BY <1>0, <2>1, <3>1 DEF AgreeForms
  <2>2. CASE panel.n # shown.n
    <3>1. PICK x \in {Unanswered, panel.answers} :
              panel' = [panel EXCEPT !.n = shown.n, !.changed = FALSE, !.link = "connecting",
                                     !.answers = x]
      BY <1>0, <2>2 DEF PanelChanges, AgreeForms
    <3>2. x = [s \in Services |-> x[s]]
      BY <1>0 DEF AgreeForms, Unanswered
    <3> QED
      BY <1>0, <2>2, <3>1, <3>2 DEF AgreeForms
  <2> QED
    BY <2>1, <2>2
<1>3. Tape' = Tape
  BY <1>1 DEF Tape
<1>4. AgreeForms'
  BY <1>0, <1>1, <1>2 DEF AgreeForms, ClientTyped
<1>5. ReadersTold'
  BY <1>1, <1>2 DEF AgreeInv, ReadersTold
<1>6. LinkComes(events, keeper)' /\ LinkComes(Tape, panel)' /\ StopComes'
  BY <1>1, <1>2, <1>3 DEF AgreeInv, LinkComes, StopComes
<1>7. ASSUME NEW s \in Services PROVE KeeperHears(s)' /\ PanelHears(s)'
  <2>1. KeeperHears(s)'
    BY <1>1 DEF AgreeInv, KeeperHears
  <2>2. PanelHears(s)'
    BY <1>1, <1>2, <1>3 DEF AgreeInv, PanelHears
  <2> QED
    BY <2>1, <2>2
<1> QED
  BY <1>4, <1>5, <1>6, <1>7 DEF AgreeInv

\* An event is passed on to the printer.
LEMMA AgreeForward == AgreeInv /\ Forward => AgreeInv'
<1> SUFFICES ASSUME AgreeInv, Forward PROVE AgreeInv'
  OBVIOUS
<1>0. AgreeForms
  BY DEF AgreeInv
<1>1. /\ UNCHANGED <<client, shown, events, missed, keeper, panel, misread>>
      /\ forwarded' = forwarded \o held /\ held' = <<>>
  BY DEF Forward, loopVars
<1>2. Tape' = Tape
  BY <1>0, <1>1, TapeForward
<1>3. AgreeForms'
  BY <1>0, <1>1, TapeType DEF AgreeForms, ClientTyped
<1>4. ReadersTold'
  BY <1>1 DEF AgreeInv, ReadersTold
<1>5. LinkComes(events, keeper)' /\ LinkComes(Tape, panel)' /\ StopComes'
  BY <1>1, <1>2 DEF AgreeInv, LinkComes, StopComes
<1>6. ASSUME NEW s \in Services PROVE KeeperHears(s)' /\ PanelHears(s)'
  BY <1>1, <1>2 DEF AgreeInv, KeeperHears, PanelHears
<1> QED
  BY <1>3, <1>4, <1>5, <1>6 DEF AgreeInv

\* The keeper takes in an event, ...
LEMMA AgreeKeeperTakes == AgreeInv /\ KeeperTakes => AgreeInv'
<1> SUFFICES ASSUME AgreeInv, KeeperTakes PROVE AgreeInv'
  OBVIOUS
<1>0. AgreeForms
  BY DEF AgreeInv
<1>e. PICK e : e = Head(events)
  OBVIOUS
<1>1. /\ UNCHANGED <<client, shown, missed, forwarded, panel, misread>>
      /\ held = <<>> /\ events # <<>> /\ ~keeper.changed
      /\ events' = Tail(events) /\ held' = <<Head(events)>>
      /\ keeper' = [keeper EXCEPT !.link = Linked(keeper.link, e),
                                  !.answers = Modelled(keeper.answers, e)]
  BY <1>e DEF KeeperTakes, Takes, loopVars
<1>2. e \in Ev /\ events' \in Seq(Ev) /\ held' \in Seq(Ev) /\ events \in Seq(Ev)
  BY <1>0, <1>1, <1>e, TailIs DEF AgreeForms
<1>3. Tape' = Tape
  BY <1>0, <1>1, TapeKeeperTakes
<1>4. /\ keeper' = [n |-> keeper.n, link |-> keeper'.link, answers |-> keeper'.answers,
                    changed |-> keeper.changed]
      /\ keeper'.link = Linked(keeper.link, e) /\ keeper'.answers = Modelled(keeper.answers, e)
      /\ keeper'.n = keeper.n
  BY <1>0, <1>1 DEF AgreeForms
<1>5. keeper'.answers = [s \in Services |-> keeper'.answers[s]]
  <2>1. PICK x : x = keeper.answers
    OBVIOUS
  <2>2. x = [t \in Services |-> x[t]]
    BY <1>0, <2>1 DEF AgreeForms
  <2> QED
    BY <1>2, <1>4, <2>1, <2>2, AnswersForm
<1>6. AgreeForms'
  BY <1>0, <1>1, <1>2, <1>4, <1>5 DEF AgreeForms, ClientTyped
<1>7. ReadersTold' /\ keeper.n = shown.n
  BY <1>1, <1>4 DEF AgreeInv, ReadersTold
<1>8. LinkComes(Tape, panel)' /\ StopComes'
  BY <1>1, <1>3 DEF AgreeInv, LinkComes, StopComes
<1>9. LinkComes(events, keeper)'
  <2> SUFFICES ASSUME ~missed, client.link # "connecting"
               PROVE  \/ Lasts(events', OfLink, Says(client.link))
                      \/ Lacks(events', OfLink) /\ keeper'.link = client.link
    BY <1>1, <1>4, <1>7 DEF LinkComes
  <2>1. client.link \in {"up", "down", "stopped"}
    BY <1>0 DEF AgreeForms, ClientTyped
  <2>2. CASE Lasts(events, OfLink, Says(client.link))
    <3>1. \/ Lasts(events', OfLink, Says(client.link))
          \/ e \in Says(client.link) /\ Lacks(events', OfLink)
      BY <1>1, <1>2, <1>e, <2>2, LastsTail
    <3> QED
      BY <1>2, <1>4, <2>1, <3>1, LinkTaken
  <2>3. CASE Lacks(events, OfLink) /\ keeper.link = client.link
    <3>1. e \notin OfLink /\ Lacks(events', OfLink)
      BY <1>1, <1>2, <1>e, <2>3, LastsTail
    <3> QED
      BY <1>2, <1>4, <2>3, <3>1, LinkTaken
  <2> QED
    BY <2>2, <2>3 DEF AgreeInv, LinkComes
<1>10. ASSUME NEW s \in Services PROVE PanelHears(s)'
  BY <1>1, <1>3 DEF AgreeInv, PanelHears
<1>11. ASSUME NEW s \in Services PROVE KeeperHears(s)'
  <2> SUFFICES ASSUME ~missed, client.link = "up", NEW o \in client.answers[s]
               PROVE  \/ Lasts(events', OfService(s), Told(s, o))
                      \/ Lacks(events', OfService(s)) /\ keeper'.answers[s] = {o}
    BY <1>1, <1>4, <1>7 DEF KeeperHears
  <2>1. keeper.answers = [t \in Services |-> keeper.answers[t]]
    BY <1>0 DEF AgreeForms
  <2>2. CASE Lasts(events, OfService(s), Told(s, o))
    <3>1. \/ Lasts(events', OfService(s), Told(s, o))
          \/ e \in Told(s, o) /\ Lacks(events', OfService(s))
      BY <1>1, <1>2, <1>e, <2>2, LastsTail
    <3>2. e \in Told(s, o) => Modelled(keeper.answers, e)[s] = {o}
      BY <1>2, <2>1, AnswerModelled
    <3> QED
      BY <1>4, <3>1, <3>2
  <2>3. CASE Lacks(events, OfService(s)) /\ keeper.answers[s] = {o}
    <3>1. e \notin OfService(s) /\ Lacks(events', OfService(s))
      BY <1>1, <1>2, <1>e, <2>3, LastsTail
    <3>2. Modelled(keeper.answers, e)[s] = keeper.answers[s]
      BY <1>2, <2>1, <3>1, AnswerModelled
    <3> QED
      BY <1>4, <2>3, <3>1, <3>2
  <2> QED
    BY <2>2, <2>3 DEF AgreeInv, KeeperHears
<1> QED
  BY <1>6, <1>7, <1>8, <1>9, <1>10, <1>11 DEF AgreeInv

\* ... and so does the printer.
LEMMA AgreePanelTakes == AgreeInv /\ PanelTakes => AgreeInv'
<1> SUFFICES ASSUME AgreeInv, PanelTakes PROVE AgreeInv'
  OBVIOUS
<1>0. AgreeForms
  BY DEF AgreeInv
<1>e. PICK e : e = Head(forwarded)
  OBVIOUS
<1>1. /\ UNCHANGED <<client, shown, events, missed, held, keeper>>
      /\ misread' = Misread(e)
      /\ forwarded # <<>> /\ ~panel.changed /\ forwarded' = Tail(forwarded)
      /\ panel' = [panel EXCEPT !.link = Linked(panel.link, e),
                                !.answers = Recorded(panel.answers, e),
                                !.stopped = panel.stopped \/ Linked("", e) = "stopped"]
  BY <1>e DEF PanelTakes, Takes, loopVars
<1>2. e \in Ev /\ forwarded' \in Seq(Ev) /\ Tape \in Seq(Ev)
  BY <1>0, <1>1, <1>e, TailIs, TapeType DEF AgreeForms
<1>3. Tape # <<>> /\ Head(Tape) = e /\ Tape' = Tail(Tape)
  BY <1>0, <1>1, <1>e, TapePanelTakes
<1>4. /\ panel' = [n |-> panel.n, link |-> panel'.link, answers |-> panel'.answers,
                   changed |-> panel.changed, stopped |-> panel'.stopped]
      /\ panel'.link = Linked(panel.link, e) /\ panel'.answers = Recorded(panel.answers, e)
      /\ panel'.stopped = (panel.stopped \/ Linked("", e) = "stopped")
      /\ panel'.n = panel.n
  BY <1>0, <1>1 DEF AgreeForms
<1>5. panel'.answers = [s \in Services |-> panel'.answers[s]]
  <2>1. PICK x : x = panel.answers
    OBVIOUS
  <2>2. x = [t \in Services |-> x[t]]
    BY <1>0, <2>1 DEF AgreeForms
  <2> QED
    BY <1>2, <1>4, <2>1, <2>2, AnswersForm
<1>6. AgreeForms'
  BY <1>0, <1>1, <1>2, <1>4, <1>5 DEF AgreeForms, ClientTyped
<1>7. ReadersTold' /\ panel.n = shown.n
  BY <1>1, <1>4 DEF AgreeInv, ReadersTold
<1>8. LinkComes(events, keeper)'
  BY <1>1 DEF AgreeInv, LinkComes
<1>9. LinkComes(Tape, panel)'
  <2> SUFFICES ASSUME ~missed, client.link # "connecting"
               PROVE  \/ Lasts(Tape', OfLink, Says(client.link))
                      \/ Lacks(Tape', OfLink) /\ panel'.link = client.link
    BY <1>1, <1>4, <1>7 DEF LinkComes
  <2>1. client.link \in {"up", "down", "stopped"}
    BY <1>0 DEF AgreeForms, ClientTyped
  <2>2. CASE Lasts(Tape, OfLink, Says(client.link))
    <3>1. \/ Lasts(Tape', OfLink, Says(client.link))
          \/ e \in Says(client.link) /\ Lacks(Tape', OfLink)
      BY <1>2, <1>3, <2>2, LastsTail
    <3> QED
      BY <1>2, <1>4, <2>1, <3>1, LinkTaken
  <2>3. CASE Lacks(Tape, OfLink) /\ panel.link = client.link
    <3>1. e \notin OfLink /\ Lacks(Tape', OfLink)
      BY <1>2, <1>3, <2>3, LastsTail
    <3> QED
      BY <1>2, <1>4, <2>3, <3>1, LinkTaken
  <2> QED
    BY <2>2, <2>3 DEF AgreeInv, LinkComes
<1>10. StopComes'
  <2> SUFFICES ASSUME ~missed, client.link = "stopped"
               PROVE  Lasts(Tape', OfLink, Says("stopped")) \/ panel'.stopped
    BY <1>1 DEF StopComes
  <2>1. CASE Lasts(Tape, OfLink, Says("stopped"))
    <3>1. Lasts(Tape', OfLink, Says("stopped")) \/ e \in Says("stopped")
      BY <1>2, <1>3, <2>1, LastsTail
    <3>2. e \in Says("stopped") => Linked("", e) = "stopped"
      BY <1>2, LinkTaken
    <3> QED
      BY <1>4, <3>1, <3>2
  <2>2. CASE panel.stopped
    BY <1>4, <2>2
  <2> QED
    BY <2>1, <2>2 DEF AgreeInv, StopComes
<1>11. ASSUME NEW s \in Services PROVE KeeperHears(s)'
  BY <1>1 DEF AgreeInv, KeeperHears
<1>12. ASSUME NEW s \in Services PROVE PanelHears(s)'
  <2> SUFFICES ASSUME ~missed, client.link = "up", client.expose[s] # 0,
                      NEW o \in client.answers[s]
               PROVE  \/ Lasts(Tape', OfService(s), Told(s, o))
                      \/ /\ Lacks(Tape', OfService(s))
                         /\ s \notin misread' =>
                               panel'.answers[s] = {[asked |-> client.expose[s], is |-> o]}
    BY <1>1, <1>4, <1>7 DEF PanelHears
  <2>1. panel.answers = [t \in Services |-> panel.answers[t]]
    BY <1>0 DEF AgreeForms
  <2>2. CASE Lasts(Tape, OfService(s), Told(s, o))
    <3>1. \/ Lasts(Tape', OfService(s), Told(s, o))
          \/ e \in Told(s, o) /\ Lacks(Tape', OfService(s))
      BY <1>2, <1>3, <2>2, LastsTail
    <3>2. e \in Told(s, o) /\ s \notin misread' => shown.cfg[s] = client.expose[s]
      BY <1>1, <1>2, AnswerMisread
    <3>3. e \in Told(s, o) /\ shown.cfg[s] # 0 =>
              Recorded(panel.answers, e)[s] = {[asked |-> shown.cfg[s], is |-> o]}
      BY <1>2, <2>1, AnswerRecorded
    <3> QED
      BY <1>4, <3>1, <3>2, <3>3
  <2>3. CASE /\ Lacks(Tape, OfService(s))
             /\ s \notin misread => panel.answers[s] = {[asked |-> client.expose[s], is |-> o]}
    <3>1. e \notin OfService(s) /\ Lacks(Tape', OfService(s))
      BY <1>2, <1>3, <2>3, LastsTail
    <3>2. Recorded(panel.answers, e)[s] = panel.answers[s]
      BY <1>2, <2>1, <3>1, AnswerRecorded
    <3>3. s \in misread' <=> s \in misread
      BY <1>1, <1>2, <3>1, AnswerMisread
    <3> QED
      BY <1>4, <2>3, <3>1, <3>2, <3>3
  <2> QED
    BY <2>2, <2>3 DEF AgreeInv, PanelHears
<1> QED
  BY <1>6, <1>7, <1>8, <1>9, <1>10, <1>11, <1>12 DEF AgreeInv

\* Every step keeps the agreement.
LEMMA AgreeSteps == AgreeInv /\ TotalsInv /\ [ClientStatusNext]_clientVars => AgreeInv'
<1> SUFFICES ASSUME AgreeInv, TotalsInv, [ClientStatusNext]_clientVars PROVE AgreeInv'
  OBVIOUS
<1>1. CASE UNCHANGED clientVars
  BY <1>1, AgreeSame DEF clientVars, loopVars, readers
<1>2. CASE \E n \in 1 .. MaxClients : CountMoves(n)
  BY <1>2, AgreeSame DEF CountMoves, loopVars, readers
<1>3. CASE RunOver
  BY <1>3, AgreeSame DEF RunOver, readers
<1>4. CASE \E s \in Services, o \in {"bound", "refused"} : AnswerComes(s, o)
  BY <1>4, AgreeAnswer
<1>5. CASE \E link \in {"down", "stopped"} : Disconnect(link)
  BY <1>5, AgreeDisconnect
<1>6. CASE \E cfg \in [Services -> 0 .. MaxSettings], reconnects \in BOOLEAN :
              Reload(cfg, reconnects)
  BY <1>6, AgreeReload
<1> QED
  BY <1>1, <1>2, <1>3, <1>4, <1>5, <1>6, AgreeDialed, AgreeConnect, AgreeTakeExpose, AgreeNextClient,
     AgreeKeeperChanges, AgreeKeeperTakes, AgreeForward, AgreePanelChanges, AgreePanelTakes
  DEF ClientStatusNext

\* With nothing left to take in, the readers have what the client said.
LEMMA AgreeEnds == AgreeInv => StatusAgrees
<1> SUFFICES ASSUME AgreeInv, TakenIn, ~missed, client.link # "connecting"
             PROVE  /\ keeper.link = client.link /\ panel.link = client.link
                    /\ client.link = "stopped" => panel.stopped
                    /\ \A s \in Services : client.answers[s] # {} =>
                          /\ keeper.answers[s] = client.answers[s]
                          /\ client.expose[s] # 0 /\ shown.cfg[s] = client.expose[s]
                             /\ s \notin misread => Rows(s) = client.answers[s]
  BY DEF StatusAgrees
<1>1. events = <<>> /\ Tape = <<>>
  <2>1. (<<>> \o <<>>) \o <<>> = <<>>
    OBVIOUS
  <2> QED
    BY <2>1 DEF TakenIn, Tape
<1>2. keeper.link = client.link /\ panel.link = client.link
  BY <1>1, LastsEmpty DEF AgreeInv, LinkComes
<1>3. client.link = "stopped" => panel.stopped
  BY <1>1, LastsEmpty DEF AgreeInv, StopComes
<1>4. ASSUME NEW s \in Services, client.answers[s] # {}
      PROVE  /\ keeper.answers[s] = client.answers[s]
             /\ client.expose[s] # 0 /\ shown.cfg[s] = client.expose[s] /\ s \notin misread =>
                   Rows(s) = client.answers[s]
  <2>1. PICK o : client.answers[s] = {o} /\ o \in client.answers[s]
    BY <1>4 DEF AgreeInv, AgreeForms, ClientTyped
  <2>2. client.link = "up"
    BY <1>4 DEF AgreeInv, AgreeForms, ClientTyped
  <2>3. keeper.answers[s] = {o}
    BY <1>1, <2>1, <2>2, LastsEmpty DEF AgreeInv, KeeperHears
  <2>4. ASSUME client.expose[s] # 0, shown.cfg[s] = client.expose[s], s \notin misread
        PROVE  Rows(s) = {o}
    <3>1. PICK r : r = [asked |-> shown.cfg[s], is |-> o]
      OBVIOUS
    <3>2. r.asked = shown.cfg[s] /\ r.is = o
      BY <3>1
    <3>3. panel.answers[s] = {r}
      BY <1>1, <2>1, <2>2, <2>4, <3>1, LastsEmpty DEF AgreeInv, PanelHears
    <3>4. {b \in panel.answers[s] : b.asked = shown.cfg[s]} = {r}
      BY <3>2, <3>3
    <3> QED
      BY <3>2, <3>4 DEF Rows
  <2> QED
    BY <2>1, <2>3, <2>4
<1> QED
  BY <1>2, <1>3, <1>4

\* Once what a client said is taken in, the status reply (status/client.rs) and the panel
\* or status line (panel.rs, notify.rs) agree with it, whatever reloads, new
\* clients and events of replaced ones came between; and a client that stopped for good
\* is known to the exit code.
THEOREM StatusReallyAgrees ==
    ClientStatusInit /\ [][ClientStatusNext]_clientVars => []StatusAgrees
<1>1. AgreeInv /\ TotalsInv /\ [ClientStatusNext]_clientVars => (AgreeInv /\ TotalsInv)'
  BY AgreeSteps, TotalsSteps
<1> QED
  BY <1>1, AgreeStart, TotalsStart, AgreeEnds, PTL

-----------------------------------------------------------------------------
(***************************************************************************)
(* ServerStatus.  What a receiver has not taken in yet leads, event by     *)
(* event, from what it holds to what is true of the sessions: a trace of   *)
(* the records, and one of the counts, over the events in the queue.       *)
(***************************************************************************)
Event == [kind : {"Connected"}, session : Ids]
            \cup [kind : {"Bound", "Unbound"}, service : Offered]
            \cup [kind : {"Ended", "Denied", "Other"}]

\* What an event makes of a record, and of a count.
Applied(e, r) ==
    CASE e.kind = "Connected" -> {[session |-> e.session, services |-> {}]}
      [] e.kind = "Bound"     -> {[x EXCEPT !.services = @ \cup {e.service}] : x \in r}
      [] e.kind = "Unbound"   -> {[x EXCEPT !.services = @ \ {e.service}] : x \in r}
      [] OTHER                -> r
Counts(e, n) ==
    CASE e.kind = "Connected"       -> n + 1
      [] e.kind = "Ended" /\ n > 0  -> n - 1
      [] OTHER                      -> n

RecordTrace(h, queue, r) ==
    h[0] = r /\ \A i \in 1 .. Len(queue) : h[i] = Applied(queue[i], h[i - 1])
CountTrace(h, queue, n) ==
    h[0] = n /\ \A i \in 1 .. Len(queue) : h[i] = Counts(queue[i], h[i - 1])

OnIds == {s \in Ids : nameOf[s] = "ours" /\ serving[s] \in {"on", "unwound"}}
Right(r) == ~overtaken => \A s \in latest : serving[s] = "on" =>
                              r = {[session |-> s, services |-> bound[s]]}

QueuesInv == told \in Seq(Event) /\ unread \in Seq(Event)
Before == {"none", "staking", "staked"}
ServingInv ==
    /\ serving \in [Ids -> Before \cup {"on", "ended", "unwound", "gone"}]
    /\ bound \in [Ids -> SUBSET Offered]
    /\ nameOf \in [Ids -> Owners] /\ keyOf \in [Ids -> Keys]
    /\ \A s \in Ids : serving[s] \in Before => bound[s] = {}
    /\ \A s \in latest : s \in Ids /\ nameOf[s] = "ours" /\ serving[s] \notin Before
    /\ \A s, t \in latest : s = t
LiveInv ==
    /\ live \in [Keys -> SUBSET Ids] /\ staker \in [Keys -> SUBSET Ids]
    /\ \A k \in Keys : live[k] = {s \in staker[k] : serving[s] \in Claiming}
    /\ \A k \in Keys : \A s \in staker[k] : keyOf[s] = k
RecordInv == "keeper" \notin lagged =>
                 \E h : RecordTrace(h, told, record) /\ Right(h[Len(told)])
CountInv == "line" \notin lagged =>
                \E h : CountTrace(h, unread, sessions) /\ h[Len(unread)] = Cardinality(OnIds)

StatusInv == QueuesInv /\ ServingInv /\ LiveInv /\ RecordInv /\ CountInv

LEMMA AppliedIs == \A e : ApplyRecord(e) = Applied(e, record) /\ Count(e) = Counts(e, sessions)
BY DEF ApplyRecord, Applied, Count, Counts

\* A trace grows at its end with an event that is sent, ...
LEMMA RecordGrows ==
    ASSUME NEW queue \in Seq(Event), NEW e \in Event, NEW r, NEW h, RecordTrace(h, queue, r)
    PROVE  \E k : /\ RecordTrace(k, Append(queue, e), r)
                  /\ k[Len(Append(queue, e))] = Applied(e, h[Len(queue)])
<1>1. PICK n : n = Len(queue)
  OBVIOUS
<1>2. PICK k : k = [i \in 0 .. n + 1 |-> IF i <= n THEN h[i] ELSE Applied(e, h[n])]
  OBVIOUS
<1>3. PICK new : new = Append(queue, e)
  OBVIOUS
<1>4. /\ n \in Nat /\ Len(new) = n + 1 /\ new[n + 1] = e
      /\ \A i \in 1 .. n : new[i] = queue[i]
  BY <1>1, <1>3
<1>5. /\ \A i \in 0 .. n : k[i] = h[i]
      /\ k[n + 1] = Applied(e, h[n])
  BY <1>2, <1>4
<1>6. ASSUME NEW i \in 1 .. n + 1 PROVE k[i] = Applied(new[i], k[i - 1])
  <2>1. CASE i = n + 1
    <3>1. k[i] = Applied(e, h[n]) /\ k[i - 1] = h[n] /\ new[i] = e
      BY <1>4, <1>5, <2>1
    <3> QED
      BY <3>1
  <2>2. CASE i # n + 1
    <3>1. i \in 1 .. n /\ i \in 0 .. n /\ i - 1 \in 0 .. n
      BY <1>4, <2>2
    <3>2. k[i] = h[i] /\ k[i - 1] = h[i - 1] /\ new[i] = queue[i]
      BY <1>4, <1>5, <3>1
    <3> QED
      BY <1>1, <3>1, <3>2 DEF RecordTrace
  <2> QED
    BY <2>1, <2>2
<1>7. k[0] = r
  BY <1>4, <1>5 DEF RecordTrace
<1>8. RecordTrace(k, new, r) /\ k[Len(new)] = Applied(e, h[n])
  BY <1>4, <1>5, <1>6, <1>7 DEF RecordTrace
<1> QED
  BY <1>1, <1>3, <1>8

LEMMA CountGrows ==
    ASSUME NEW queue \in Seq(Event), NEW e \in Event, NEW c, NEW h, CountTrace(h, queue, c)
    PROVE  \E k : /\ CountTrace(k, Append(queue, e), c)
                  /\ k[Len(Append(queue, e))] = Counts(e, h[Len(queue)])
<1>1. PICK n : n = Len(queue)
  OBVIOUS
<1>2. PICK k : k = [i \in 0 .. n + 1 |-> IF i <= n THEN h[i] ELSE Counts(e, h[n])]
  OBVIOUS
<1>3. PICK new : new = Append(queue, e)
  OBVIOUS
<1>4. /\ n \in Nat /\ Len(new) = n + 1 /\ new[n + 1] = e
      /\ \A i \in 1 .. n : new[i] = queue[i]
  BY <1>1, <1>3
<1>5. /\ \A i \in 0 .. n : k[i] = h[i]
      /\ k[n + 1] = Counts(e, h[n])
  BY <1>2, <1>4
<1>6. ASSUME NEW i \in 1 .. n + 1 PROVE k[i] = Counts(new[i], k[i - 1])
  <2>1. CASE i = n + 1
    <3>1. k[i] = Counts(e, h[n]) /\ k[i - 1] = h[n] /\ new[i] = e
      BY <1>4, <1>5, <2>1
    <3> QED
      BY <3>1
  <2>2. CASE i # n + 1
    <3>1. i \in 1 .. n /\ i \in 0 .. n /\ i - 1 \in 0 .. n
      BY <1>4, <2>2
    <3>2. k[i] = h[i] /\ k[i - 1] = h[i - 1] /\ new[i] = queue[i]
      BY <1>4, <1>5, <3>1
    <3> QED
      BY <1>1, <3>1, <3>2 DEF CountTrace
  <2> QED
    BY <2>1, <2>2
<1>7. k[0] = c
  BY <1>4, <1>5 DEF CountTrace
<1>8. CountTrace(k, new, c) /\ k[Len(new)] = Counts(e, h[n])
  BY <1>4, <1>5, <1>6, <1>7 DEF CountTrace
<1> QED
  BY <1>1, <1>3, <1>8

\* ... and shrinks at its start with one that is taken in.
LEMMA RecordShrinks ==
    ASSUME NEW queue \in Seq(Event), queue # <<>>, NEW r, NEW h, RecordTrace(h, queue, r)
    PROVE  \E k : /\ RecordTrace(k, Tail(queue), Applied(Head(queue), r))
                  /\ k[Len(Tail(queue))] = h[Len(queue)]
<1>1. PICK n : n = Len(queue)
  OBVIOUS
<1>2. PICK new : new = Tail(queue)
  OBVIOUS
<1>3. /\ n \in Nat /\ n > 0 /\ Len(new) = n - 1 /\ Head(queue) = queue[1]
      /\ \A i \in 1 .. n - 1 : new[i] = queue[i + 1]
  BY <1>1, <1>2
<1>4. PICK k : k = [i \in 0 .. n - 1 |-> h[i + 1]]
  OBVIOUS
<1>5. \A i \in 0 .. n - 1 : k[i] = h[i + 1]
  BY <1>4
<1>6. k[0] = Applied(Head(queue), r)
  <2>1. k[0] = h[1] /\ 1 \in 1 .. Len(queue) /\ h[1] = Applied(queue[1], h[0])
    BY <1>1, <1>3, <1>5 DEF RecordTrace
  <2> QED
    BY <1>3, <2>1 DEF RecordTrace
<1>7. ASSUME NEW i \in 1 .. n - 1 PROVE k[i] = Applied(new[i], k[i - 1])
  <2>1. /\ i \in 0 .. n - 1 /\ i - 1 \in 0 .. n - 1 /\ i + 1 \in 1 .. Len(queue)
        /\ (i + 1) - 1 = i /\ (i - 1) + 1 = i
    BY <1>1, <1>3
  <2>2. k[i] = h[i + 1] /\ k[i - 1] = h[i] /\ h[i + 1] = Applied(queue[i + 1], h[i])
    BY <1>5, <2>1 DEF RecordTrace
  <2> QED
    BY <1>3, <2>2
<1>8. RecordTrace(k, new, Applied(Head(queue), r)) /\ k[Len(new)] = h[n]
  BY <1>3, <1>5, <1>6, <1>7 DEF RecordTrace
<1> QED
  BY <1>1, <1>2, <1>8

LEMMA CountShrinks ==
    ASSUME NEW queue \in Seq(Event), queue # <<>>, NEW c, NEW h, CountTrace(h, queue, c)
    PROVE  \E k : /\ CountTrace(k, Tail(queue), Counts(Head(queue), c))
                  /\ k[Len(Tail(queue))] = h[Len(queue)]
<1>1. PICK n : n = Len(queue)
  OBVIOUS
<1>2. PICK new : new = Tail(queue)
  OBVIOUS
<1>3. /\ n \in Nat /\ n > 0 /\ Len(new) = n - 1 /\ Head(queue) = queue[1]
      /\ \A i \in 1 .. n - 1 : new[i] = queue[i + 1]
  BY <1>1, <1>2
<1>4. PICK k : k = [i \in 0 .. n - 1 |-> h[i + 1]]
  OBVIOUS
<1>5. \A i \in 0 .. n - 1 : k[i] = h[i + 1]
  BY <1>4
<1>6. k[0] = Counts(Head(queue), c)
  <2>1. k[0] = h[1] /\ 1 \in 1 .. Len(queue) /\ h[1] = Counts(queue[1], h[0])
    BY <1>1, <1>3, <1>5 DEF CountTrace
  <2> QED
    BY <1>3, <2>1 DEF CountTrace
<1>7. ASSUME NEW i \in 1 .. n - 1 PROVE k[i] = Counts(new[i], k[i - 1])
  <2>1. /\ i \in 0 .. n - 1 /\ i - 1 \in 0 .. n - 1 /\ i + 1 \in 1 .. Len(queue)
        /\ (i + 1) - 1 = i /\ (i - 1) + 1 = i
    BY <1>1, <1>3
  <2>2. k[i] = h[i + 1] /\ k[i - 1] = h[i] /\ h[i + 1] = Counts(queue[i + 1], h[i])
    BY <1>5, <2>1 DEF CountTrace
  <2> QED
    BY <1>3, <2>2
<1>8. CountTrace(k, new, Counts(Head(queue), c)) /\ k[Len(new)] = h[n]
  BY <1>3, <1>5, <1>6, <1>7 DEF CountTrace
<1> QED
  BY <1>1, <1>2, <1>8

\* An event that is sent reaches both queues, unless one is full and its receiver lags.
LEMMA TellKeeps ==
    ASSUME StatusInv, NEW e \in Event, Tell(e),
           \A r : Right(r) => Right(Applied(e, r))',
           Counts(e, Cardinality(OnIds)) = Cardinality(OnIds')
    PROVE  QueuesInv' /\ RecordInv' /\ CountInv'
<1>1. told \in Seq(Event) /\ unread \in Seq(Event)
  BY DEF StatusInv, QueuesInv
<1>2. /\ told' = Push(told, e) /\ unread' = Push(unread, e)
      /\ record' = record /\ sessions' = sessions
      /\ "keeper" \notin lagged' => "keeper" \notin lagged /\ Len(told) # Backlog
      /\ "line" \notin lagged' => "line" \notin lagged /\ Len(unread) # Backlog
  BY DEF Tell, kept
<1>3. QueuesInv'
  <2>1. ASSUME NEW queue \in Seq(Event) PROVE Push(queue, e) \in Seq(Event)
    <3>1. CASE Len(queue) = Backlog
      <4>1. queue # <<>>
        BY <3>1, StatusAssumption
      <4>2. Tail(queue) \in Seq(Event)
        BY <4>1
      <4> QED
        BY <3>1, <4>2 DEF Push
    <3>2. CASE Len(queue) # Backlog
      BY <3>2 DEF Push
    <3> QED
      BY <3>1, <3>2
  <2> QED
    BY <1>1, <1>2, <2>1 DEF QueuesInv
<1>4. RecordInv'
  <2> SUFFICES ASSUME "keeper" \notin lagged'
               PROVE  \E h : RecordTrace(h, told', record') /\ Right(h[Len(told)])'
    BY DEF RecordInv
  <2>1. told' = Append(told, e) /\ record' = record
    BY <1>2 DEF Push
  <2>2. PICK h : RecordTrace(h, told, record) /\ Right(h[Len(told)])
    BY <1>2 DEF StatusInv, RecordInv
  <2>3. PICK k : /\ RecordTrace(k, Append(told, e), record)
                 /\ k[Len(Append(told, e))] = Applied(e, h[Len(told)])
    BY <1>1, <2>2, RecordGrows
  <2>4. PICK x : x = h[Len(told)]
    OBVIOUS
  <2>5. Right(x)
    BY <2>2, <2>4
  <2>6. Right(Applied(e, x))'
    BY <2>5
  <2>7. PICK y : y = Applied(e, x)
    OBVIOUS
  <2>8. Right(y)'
    BY <2>6, <2>7
  <2>9. RecordTrace(k, told', record') /\ k[Len(told')] = y
    BY <2>1, <2>3, <2>4, <2>7
  <2>10. Right(k[Len(told)])'
    BY <2>8, <2>9 DEF Right
  <2> QED
    BY <2>9, <2>10
<1>5. CountInv'
  <2> SUFFICES ASSUME "line" \notin lagged'
               PROVE  \E h : /\ CountTrace(h, unread', sessions')
                             /\ h[Len(unread')] = Cardinality(OnIds')
    BY DEF CountInv
  <2>1. unread' = Append(unread, e) /\ sessions' = sessions
    BY <1>2 DEF Push
  <2>2. PICK h : CountTrace(h, unread, sessions) /\ h[Len(unread)] = Cardinality(OnIds)
    BY <1>2 DEF StatusInv, CountInv
  <2>3. PICK k : /\ CountTrace(k, Append(unread, e), sessions)
                 /\ k[Len(Append(unread, e))] = Counts(e, h[Len(unread)])
    BY <1>1, <2>2, CountGrows
  <2> QED
    BY <2>1, <2>2, <2>3
<1> QED
  BY <1>3, <1>4, <1>5

\* The sessions that run are counted.
LEMMA OnIdsFinite == IsFiniteSet(OnIds) /\ Cardinality(OnIds) \in Nat
<1>1. MaxSessions \in Nat
  BY StatusAssumption
<1>2. IsFiniteSet(Ids)
  BY <1>1, FS_Interval DEF Ids
<1>3. IsFiniteSet(OnIds)
  BY <1>2, FS_Subset DEF OnIds
<1> QED
  BY <1>3, FS_CardinalityType

\* A step that says nothing leaves the queues as they are.
LEMMA QuietKeeps ==
    ASSUME StatusInv, UNCHANGED <<told, unread, lagged, record, sessions>>,
           \A r : Right(r) => Right(r)', OnIds' = OnIds
    PROVE  QueuesInv' /\ RecordInv' /\ CountInv'
<1>1. QueuesInv' /\ CountInv'
  BY DEF StatusInv, QueuesInv, CountInv
<1>2. RecordInv'
  <2> SUFFICES ASSUME "keeper" \notin lagged
               PROVE  \E h : RecordTrace(h, told, record) /\ Right(h[Len(told)])'
    BY DEF RecordInv
  <2>1. PICK h : RecordTrace(h, told, record) /\ Right(h[Len(told)])
    BY DEF StatusInv, RecordInv
  <2>2. PICK x : x = h[Len(told)]
    OBVIOUS
  <2>3. Right(x)'
    BY <2>1, <2>2
  <2>4. Right(h[Len(told)])'
    BY <2>2, <2>3 DEF Right
  <2> QED
    BY <2>1, <2>4
<1> QED
  BY <1>1, <1>2

LEMMA StatusStart == StatusInit => StatusInv
<1> SUFFICES ASSUME StatusInit PROVE StatusInv
  OBVIOUS
<1>1. QueuesInv
  BY DEF StatusInit, QueuesInv
<1>a. ServingInv
  BY DEF StatusInit, ServingInv, Before, Owners
<1>b. LiveInv
  BY DEF StatusInit, LiveInv
<1>2. told = <<>> /\ unread = <<>> /\ Len(<<>>) = 0
  BY DEF StatusInit
<1>3. RecordInv
  <2>1. RecordTrace([i \in {0} |-> record], told, record)
    BY <1>2 DEF RecordTrace
  <2>2. \A r : Right(r)
    BY DEF Right, StatusInit
  <2> QED
    BY <2>1, <2>2 DEF RecordInv
<1>4. CountInv
  <2>1. OnIds = {}
    BY DEF StatusInit, OnIds
  <2>2. Cardinality(OnIds) = 0 /\ sessions = 0
    BY <2>1, FS_EmptySet DEF StatusInit
  <2>3. PICK h : h = [i \in {0} |-> sessions]
    OBVIOUS
  <2>4. CountTrace(h, unread, sessions) /\ h[Len(unread)] = 0
    BY <1>2, <2>2, <2>3 DEF CountTrace
  <2> QED
    BY <2>2, <2>4 DEF CountInv
<1> QED
  BY <1>1, <1>a, <1>b, <1>3, <1>4 DEF StatusInv

\* A reload changes the policy alone.
LEMMA PolicyReloadKeeps ==
    ASSUME StatusInv, NEW p, PolicyReload(p) PROVE StatusInv'
<1>1. UNCHANGED <<keyOf, nameOf, serving, bound, live, told, unread, lagged, record, sessions,
                  staker, latest, overtaken>>
  BY DEF PolicyReload, queues, kept, history
<1>2. ServingInv' /\ LiveInv'
  BY <1>1 DEF StatusInv, ServingInv, LiveInv
<1>3. OnIds' = OnIds /\ \A r : Right(r) => Right(r)'
  BY <1>1 DEF OnIds, Right
<1> QED
  BY <1>1, <1>2, <1>3, QuietKeeps DEF StatusInv

LEMMA LookUpKeeps ==
    ASSUME StatusInv, NEW s \in Ids, LookUp(s), policy \in Policies PROVE StatusInv'
<1>1. /\ serving[s] = "none" /\ serving' = [serving EXCEPT ![s] = "staking"]
      /\ nameOf' = [nameOf EXCEPT ![s] = policy[keyOf[s]]]
      /\ UNCHANGED <<keyOf, bound, live, told, unread, lagged, record, sessions,
                     staker, latest, overtaken>>
  BY DEF LookUp, Becomes, queues, kept, history
<1>2. policy[keyOf[s]] \in Owners
  BY DEF StatusInv, ServingInv, Policies
<1>3. ServingInv'
  BY <1>1, <1>2 DEF StatusInv, ServingInv, Before
<1>4. LiveInv'
  BY <1>1 DEF StatusInv, ServingInv, LiveInv, Claiming
<1>5. OnIds' = OnIds
  BY <1>1 DEF StatusInv, ServingInv, OnIds
<1>6. \A r : Right(r) => Right(r)'
  BY <1>1 DEF StatusInv, ServingInv, Right, Before
<1> QED
  BY <1>1, <1>3, <1>4, <1>5, <1>6, QuietKeeps DEF StatusInv

LEMMA DeniedKeeps ==
    ASSUME StatusInv, NEW s \in Ids, Denied(s) PROVE StatusInv'
<1>1. PICK e : e = [kind |-> "Denied"]
  OBVIOUS
<1>2. /\ e \in Event /\ e.kind = "Denied" /\ Tell(e)
      /\ serving[s] = "none" /\ serving' = [serving EXCEPT ![s] = "gone"]
      /\ UNCHANGED <<keyOf, nameOf, bound, live, staker, latest, overtaken>>
  BY <1>1 DEF Event, Denied, Becomes, history
<1>3. ServingInv'
  BY <1>2 DEF StatusInv, ServingInv, Before
<1>4. LiveInv'
  BY <1>2 DEF StatusInv, ServingInv, LiveInv, Claiming
<1>5. \A r : Right(r) => Right(Applied(e, r))'
  BY <1>2 DEF StatusInv, ServingInv, Right, Applied, Before
<1>6. OnIds' = OnIds
  BY <1>2 DEF StatusInv, ServingInv, OnIds
<1>7. Counts(e, Cardinality(OnIds)) = Cardinality(OnIds')
  BY <1>2, <1>6 DEF Counts
<1> QED
  BY <1>2, <1>3, <1>4, <1>5, <1>7, TellKeeps DEF StatusInv

LEMMA StakeKeeps ==
    ASSUME StatusInv, NEW s \in Ids, Stake(s) PROVE StatusInv'
<1>1. PICK k : k = keyOf[s]
  OBVIOUS
<1>2. /\ serving[s] = "staking" /\ serving' = [serving EXCEPT ![s] = "staked"]
      /\ live' = [live EXCEPT ![k] = {s}] /\ staker' = [staker EXCEPT ![k] = {s}]
      /\ UNCHANGED <<keyOf, nameOf, bound, told, unread, lagged, record, sessions,
                     latest, overtaken>>
  BY <1>1 DEF Stake, Becomes, queues, kept
<1>3. ServingInv'
  BY <1>2 DEF StatusInv, ServingInv, Before
<1>4. LiveInv'
  <2>1. /\ live \in [Keys -> SUBSET Ids] /\ staker \in [Keys -> SUBSET Ids] /\ k \in Keys
        /\ serving'[s] = "staked" /\ \A t \in Ids : t # s => serving'[t] = serving[t]
    BY <1>1, <1>2 DEF StatusInv, LiveInv, ServingInv
  <2>2. live' \in [Keys -> SUBSET Ids] /\ staker' \in [Keys -> SUBSET Ids]
    BY <1>2, <2>1
  <2>3. ASSUME NEW j \in Keys
        PROVE  /\ live'[j] = {t \in staker'[j] : serving'[t] \in Claiming}
               /\ \A t \in staker'[j] : keyOf'[t] = j
    <3>1. CASE j = k
      BY <1>1, <1>2, <2>1, <3>1 DEF Claiming
    <3>2. CASE j # k
      <4>1. live'[j] = live[j] /\ staker'[j] = staker[j] /\ staker[j] \subseteq Ids
        BY <1>2, <2>1, <3>2
      <4>2. s \notin staker[j]
        BY <1>1, <3>2 DEF StatusInv, LiveInv
      <4>3. live[j] = {t \in staker[j] : serving[t] \in Claiming}
            /\ \A t \in staker[j] : keyOf[t] = j
        BY DEF StatusInv, LiveInv
      <4> QED
        BY <1>2, <2>1, <4>1, <4>2, <4>3
    <3> QED
      BY <3>1, <3>2
  <2> QED
    BY <2>2, <2>3 DEF LiveInv
<1>5. OnIds' = OnIds
  BY <1>2 DEF StatusInv, ServingInv, OnIds
<1>6. \A r : Right(r) => Right(r)'
  BY <1>2 DEF StatusInv, ServingInv, Right, Before
<1> QED
  BY <1>2, <1>3, <1>4, <1>5, <1>6, QuietKeeps DEF StatusInv

\* The event of a session is of the name, or one of the others.
LEMMA TellOfTells ==
    ASSUME NEW s, NEW event \in Event, TellOf(s, event)
    PROVE  \E e \in Event : /\ Tell(e)
                            /\ nameOf[s] = "ours" => e = event
                            /\ nameOf[s] # "ours" => e.kind = "Other"
<1>1. PICK e : e = IF nameOf[s] = "ours" THEN event ELSE [kind |-> "Other"]
  OBVIOUS
<1>2. e \in Event /\ Tell(e)
  BY <1>1 DEF TellOf, Event
<1>3. nameOf[s] = "ours" => e = event
  BY <1>1
<1>4. nameOf[s] # "ours" => e.kind = "Other"
  BY <1>1
<1> QED
  BY <1>2, <1>3, <1>4

LEMMA ConnectedKeeps ==
    ASSUME StatusInv, NEW s \in Ids, Connected(s) PROVE StatusInv'
<1>1. /\ serving[s] = "staked" /\ serving' = [serving EXCEPT ![s] = "on"]
      /\ latest' = IF nameOf[s] = "ours" THEN {s} ELSE latest
      /\ overtaken' = (overtaken /\ nameOf[s] # "ours")
      /\ UNCHANGED <<keyOf, nameOf, bound, live, staker>>
  BY DEF Connected, Becomes
<1>2. ServingInv'
  BY <1>1 DEF StatusInv, ServingInv, Before
<1>3. LiveInv'
  BY <1>1 DEF StatusInv, ServingInv, LiveInv, Claiming
<1>4. PICK event : event = [kind |-> "Connected", session |-> s]
  OBVIOUS
<1>5. event \in Event /\ event.kind = "Connected" /\ event.session = s /\ TellOf(s, event)
  BY <1>4 DEF Event, Connected
<1>6. PICK e \in Event : /\ Tell(e)
                         /\ nameOf[s] = "ours" => e = event
                         /\ nameOf[s] # "ours" => e.kind = "Other"
  BY <1>5, TellOfTells
<1>7. ASSUME NEW r, Right(r) PROVE Right(Applied(e, r))'
  <2>1. CASE nameOf[s] = "ours"
    <3>1. Applied(e, r) = {[session |-> s, services |-> {}]}
      BY <1>5, <1>6, <2>1 DEF Applied
    <3>2. bound'[s] = {} /\ latest' = {s}
      BY <1>1, <2>1 DEF StatusInv, ServingInv, Before
    <3> QED
      BY <3>1, <3>2 DEF Right
  <2>2. CASE nameOf[s] # "ours"
    <3>1. Applied(e, r) = r
      BY <1>6, <2>2 DEF Applied
    <3>2. s \notin latest
      BY <1>1 DEF StatusInv, ServingInv, Before
    <3>3. Right(r)'
      BY <1>1, <1>7, <2>2, <3>2 DEF Right, StatusInv, ServingInv
    <3> QED
      BY <3>1, <3>3 DEF Right
  <2> QED
    BY <2>1, <2>2
<1>8. Counts(e, Cardinality(OnIds)) = Cardinality(OnIds')
  <2>1. CASE nameOf[s] = "ours"
    <3>1. OnIds' = OnIds \cup {s} /\ s \notin OnIds
      BY <1>1, <2>1 DEF OnIds, StatusInv, ServingInv
    <3>2. Cardinality(OnIds') = Cardinality(OnIds) + 1
      BY <3>1, OnIdsFinite, FS_AddElement
    <3> QED
      BY <1>5, <1>6, <2>1, <3>2 DEF Counts
  <2>2. CASE nameOf[s] # "ours"
    <3>1. OnIds' = OnIds
      BY <1>1, <2>2 DEF OnIds, StatusInv, ServingInv
    <3> QED
      BY <1>6, <2>2, <3>1 DEF Counts
  <2> QED
    BY <2>1, <2>2
<1> QED
  BY <1>2, <1>3, <1>6, <1>7, <1>8, TellKeeps DEF StatusInv

\* A session that runs binds or unbinds a service: one that is not the latest overtakes.
LEMMA SpeaksKeeps ==
    ASSUME StatusInv, NEW s \in Ids, NEW v \in Offered,
           Bound(s, v) \/ Unbound(s, v)
    PROVE  StatusInv'
<1>1. PICK event : \/ event = [kind |-> "Bound", service |-> v] /\ Bound(s, v)
                   \/ event = [kind |-> "Unbound", service |-> v] /\ Unbound(s, v)
  OBVIOUS
<1>2. /\ serving[s] = "on" /\ TellOf(s, event)
      /\ UNCHANGED <<keyOf, nameOf, serving, live, staker, latest>>
      /\ overtaken' = (overtaken \/ (nameOf[s] = "ours" /\ s \notin latest))
  BY <1>1 DEF Bound, Unbound, Speaks
<1>3. PICK b : /\ bound' = [bound EXCEPT ![s] = b]
               /\ b = IF event.kind = "Bound" THEN bound[s] \cup {v}
                                              ELSE bound[s] \ {v}
               /\ b \subseteq Offered
  BY <1>1 DEF Bound, Unbound, StatusInv, ServingInv
<1>4. event \in Event /\ event.kind \in {"Bound", "Unbound"} /\ event.service = v
  BY <1>1 DEF Event
<1>5. ServingInv'
  BY <1>2, <1>3 DEF StatusInv, ServingInv, Before
<1>6. LiveInv'
  BY <1>2 DEF StatusInv, LiveInv
<1>7. PICK e \in Event : /\ Tell(e)
                         /\ nameOf[s] = "ours" => e = event
                         /\ nameOf[s] # "ours" => e.kind = "Other"
  BY <1>2, <1>4, TellOfTells
<1>8. ASSUME NEW r, Right(r) PROVE Right(Applied(e, r))'
  <2>1. ASSUME ~overtaken', NEW t \in latest, serving[t] = "on"
        PROVE  Applied(e, r) = {[session |-> t, services |-> bound'[t]]}
    <3>0. ~overtaken /\ r = {[session |-> t, services |-> bound[t]]}
      BY <1>2, <1>8, <2>1 DEF Right
    <3>1. CASE nameOf[s] = "ours"
      <4>1. s \in latest
        BY <1>2, <2>1, <3>1
      <4>2. t = s
        BY <2>1, <4>1 DEF StatusInv, ServingInv
      <4>3. e = event
        BY <1>7, <3>1
      <4>4. Applied(e, r) = {[session |-> s, services |-> b]}
        <5>1. CASE event.kind = "Bound"
          BY <1>3, <1>4, <3>0, <4>2, <4>3, <5>1 DEF Applied
        <5>2. CASE event.kind = "Unbound"
          BY <1>3, <1>4, <3>0, <4>2, <4>3, <5>2 DEF Applied
        <5> QED
          BY <1>4, <5>1, <5>2
      <4>5. bound'[s] = b
        BY <1>3 DEF StatusInv, ServingInv
      <4> QED
        BY <4>2, <4>4, <4>5
    <3>2. CASE nameOf[s] # "ours"
      <4>1. t # s
        BY <2>1, <3>2 DEF StatusInv, ServingInv
      <4>2. bound'[t] = bound[t]
        BY <1>3, <2>1, <4>1 DEF StatusInv, ServingInv
      <4>3. Applied(e, r) = r
        BY <1>7, <3>2 DEF Applied
      <4> QED
        BY <3>0, <4>2, <4>3
    <3> QED
      BY <3>1, <3>2
  <2> QED
    BY <1>2, <2>1 DEF Right
<1>9. Counts(e, Cardinality(OnIds)) = Cardinality(OnIds')
  <2>1. e.kind \in {"Bound", "Unbound", "Other"}
    BY <1>4, <1>7
  <2> QED
    BY <1>2, <2>1 DEF Counts, OnIds
<1> QED
  BY <1>5, <1>6, <1>7, <1>8, <1>9, TellKeeps DEF StatusInv

LEMMA EndedKeeps ==
    ASSUME StatusInv, NEW s \in Ids, Ended(s) PROVE StatusInv'
<1>1. /\ serving[s] = "on" /\ serving' = [serving EXCEPT ![s] = "ended"]
      /\ bound' = [bound EXCEPT ![s] = {}]
      /\ UNCHANGED <<keyOf, nameOf, live, staker, latest, overtaken>>
  BY DEF Ended, Becomes, history
<1>2. PICK event : event = [kind |-> "Ended"]
  OBVIOUS
<1>3. event \in Event /\ event.kind = "Ended" /\ TellOf(s, event)
  BY <1>2 DEF Event, Ended
<1>4. PICK e \in Event : /\ Tell(e)
                         /\ nameOf[s] = "ours" => e = event
                         /\ nameOf[s] # "ours" => e.kind = "Other"
  BY <1>3, TellOfTells
<1>5. ServingInv'
  BY <1>1 DEF StatusInv, ServingInv, Before
<1>6. LiveInv'
  BY <1>1 DEF StatusInv, ServingInv, LiveInv, Claiming
<1>7. \A r : Applied(e, r) = r
  BY <1>3, <1>4 DEF Applied
<1>8. ASSUME NEW r, Right(r) PROVE Right(Applied(e, r))'
  <2>1. Right(r)'
    BY <1>1, <1>8 DEF Right, StatusInv, ServingInv
  <2> QED
    BY <1>7, <2>1 DEF Right
<1>9. Counts(e, Cardinality(OnIds)) = Cardinality(OnIds')
  <2>1. CASE nameOf[s] = "ours"
    <3>1. OnIds' = OnIds \ {s} /\ s \in OnIds
      BY <1>1, <2>1 DEF OnIds, StatusInv, ServingInv
    <3>2. Cardinality(OnIds') = Cardinality(OnIds) - 1
      BY <3>1, OnIdsFinite, FS_RemoveElement
    <3>3. IsFiniteSet(OnIds') /\ Cardinality(OnIds') \in Nat
      BY <3>1, OnIdsFinite, FS_Subset, FS_CardinalityType
    <3>4. Cardinality(OnIds) > 0
      BY <3>2, <3>3, OnIdsFinite
    <3> QED
      BY <1>3, <1>4, <2>1, <3>2, <3>4 DEF Counts
  <2>2. CASE nameOf[s] # "ours"
    <3>1. OnIds' = OnIds
      BY <1>1, <2>2 DEF OnIds, StatusInv, ServingInv
    <3> QED
      BY <1>4, <2>2, <3>1 DEF Counts
  <2> QED
    BY <2>1, <2>2
<1> QED
  BY <1>4, <1>5, <1>6, <1>8, <1>9, TellKeeps DEF StatusInv

\* A claim that is dropped, in order or by a panic, leaves a newer one alone.
LEMMA GivesUpKeeps ==
    ASSUME StatusInv, NEW s \in Ids, ClaimDrops(s) \/ Unwinds(s) PROVE StatusInv'
<1>k. PICK k : k = keyOf[s]
  OBVIOUS
<1>g. /\ live' = [live EXCEPT ![k] = @ \ {s}]
      /\ UNCHANGED <<keyOf, nameOf, bound, told, unread, lagged, record, sessions, staker,
                     latest, overtaken>>
  BY <1>k DEF ClaimDrops, Unwinds, GivesUp, queues, kept, history
<1>t. PICK to : /\ to \in {"gone", "unwound"} /\ serving[s] \in {"staked", "ended", "on"}
                /\ to = "unwound" <=> serving[s] = "on"
                /\ serving' = [serving EXCEPT ![s] = to]
  BY DEF ClaimDrops, Unwinds, Becomes
<1>2. ServingInv'
  BY <1>k, <1>g, <1>t DEF StatusInv, ServingInv, Before
<1>3. LiveInv'
  <2>1. /\ live \in [Keys -> SUBSET Ids] /\ staker \in [Keys -> SUBSET Ids] /\ k \in Keys
        /\ serving'[s] \notin Claiming /\ \A t \in Ids : t # s => serving'[t] = serving[t]
    BY <1>k, <1>g, <1>t DEF StatusInv, LiveInv, ServingInv, Claiming
  <2>2. live' \in [Keys -> SUBSET Ids] /\ staker' \in [Keys -> SUBSET Ids]
    BY <1>k, <1>g, <1>t, <2>1
  <2>3. ASSUME NEW j \in Keys
        PROVE  live'[j] = {t \in staker[j] : serving'[t] \in Claiming}
    <3>0. /\ live[j] = {t \in staker[j] : serving[t] \in Claiming} /\ staker[j] \subseteq Ids
          /\ \A t \in staker[j] : keyOf[t] = j
      BY <2>1 DEF StatusInv, LiveInv
    <3>1. CASE j = k
      <4>1. live'[j] = live[j] \ {s}
        BY <1>k, <1>g, <1>t, <2>1, <3>1
      <4> QED
        BY <2>1, <3>0, <4>1
    <3>2. CASE j # k
      <4>1. live'[j] = live[j] /\ s \notin staker[j]
        BY <1>k, <1>g, <1>t, <2>1, <3>0, <3>2
      <4> QED
        BY <2>1, <3>0, <4>1
    <3> QED
      BY <3>1, <3>2
  <2> QED
    BY <1>k, <1>g, <1>t, <2>2, <2>3 DEF LiveInv, StatusInv
<1>4. OnIds' = OnIds
  BY <1>k, <1>g, <1>t DEF StatusInv, ServingInv, OnIds
<1>5. \A r : Right(r) => Right(r)'
  BY <1>k, <1>g, <1>t DEF StatusInv, ServingInv, Right
<1> QED
  BY <1>k, <1>g, <1>t, <1>2, <1>3, <1>4, <1>5, QuietKeeps DEF StatusInv

LEMMA KeepKeeps == ASSUME StatusInv, Keep PROVE StatusInv'
<1>1. /\ told # <<>> /\ told' = Tail(told) /\ record' = Applied(Head(told), record)
      /\ UNCHANGED <<keyOf, nameOf, serving, bound, live, unread, lagged, sessions, staker,
                     latest, overtaken>>
  BY AppliedIs DEF Keep, history
<1>2. told \in Seq(Event)
  BY DEF StatusInv, QueuesInv
<1>3. QueuesInv'
  BY <1>1, <1>2 DEF StatusInv, QueuesInv
<1>4. RecordInv'
  <2> SUFFICES ASSUME "keeper" \notin lagged
               PROVE  \E h : RecordTrace(h, told', record') /\ Right(h[Len(told)])'
    BY <1>1 DEF RecordInv
  <2>1. PICK h : RecordTrace(h, told, record) /\ Right(h[Len(told)])
    BY DEF StatusInv, RecordInv
  <2>2. PICK k : /\ RecordTrace(k, Tail(told), Applied(Head(told), record))
                 /\ k[Len(Tail(told))] = h[Len(told)]
    BY <1>1, <1>2, <2>1, RecordShrinks
  <2>3. RecordTrace(k, told', record') /\ k[Len(told')] = h[Len(told)]
    BY <1>1, <2>2
  <2>4. Right(k[Len(told)])'
    BY <1>1, <2>1, <2>3 DEF Right
  <2> QED
    BY <2>3, <2>4
<1>5. ServingInv' /\ LiveInv'
  BY <1>1 DEF StatusInv, ServingInv, LiveInv
<1>6. CountInv'
  BY <1>1 DEF StatusInv, CountInv, OnIds
<1> QED
  BY <1>3, <1>4, <1>5, <1>6 DEF StatusInv

LEMMA LineKeeps == ASSUME StatusInv, Line PROVE StatusInv'
<1>1. /\ unread # <<>> /\ unread' = Tail(unread) /\ sessions' = Counts(Head(unread), sessions)
      /\ UNCHANGED <<keyOf, nameOf, serving, bound, live, told, lagged, record, staker, latest,
                     overtaken>>
  BY AppliedIs DEF Line, history
<1>2. unread \in Seq(Event)
  BY DEF StatusInv, QueuesInv
<1>3. QueuesInv'
  BY <1>1, <1>2 DEF StatusInv, QueuesInv
<1>4. CountInv'
  <2> SUFFICES ASSUME "line" \notin lagged
               PROVE  \E h : CountTrace(h, unread', sessions')
                             /\ h[Len(unread')] = Cardinality(OnIds')
    BY <1>1 DEF CountInv
  <2>1. PICK h : CountTrace(h, unread, sessions) /\ h[Len(unread)] = Cardinality(OnIds)
    BY DEF StatusInv, CountInv
  <2>2. PICK k : /\ CountTrace(k, Tail(unread), Counts(Head(unread), sessions))
                 /\ k[Len(Tail(unread))] = h[Len(unread)]
    BY <1>1, <1>2, <2>1, CountShrinks
  <2>3. OnIds' = OnIds
    BY <1>1 DEF OnIds
  <2> QED
    BY <1>1, <2>1, <2>2, <2>3
<1>5. ServingInv' /\ LiveInv'
  BY <1>1 DEF StatusInv, ServingInv, LiveInv
<1>6. RecordInv'
  BY <1>1 DEF StatusInv, RecordInv, Right
<1> QED
  BY <1>3, <1>4, <1>5, <1>6 DEF StatusInv

PolicyInv == policy \in Policies

LEMMA PolicyStep == PolicyInv /\ [StatusNext]_statusVars => PolicyInv'
BY DEF PolicyInv, StatusNext, PolicyReload, LookUp, Denied, Stake, Connected, Ended, ClaimDrops, Unwinds,
       GivesUp, Bound, Unbound, Speaks, Keep, Line, policyVars, statusVars

LEMMA StatusStep ==
    StatusInv /\ PolicyInv /\ [StatusNext]_statusVars => StatusInv'
<1> SUFFICES ASSUME StatusInv, PolicyInv, [StatusNext]_statusVars PROVE StatusInv'
  OBVIOUS
<1>1. CASE UNCHANGED statusVars
  BY <1>1 DEF statusVars, StatusInv, QueuesInv, ServingInv, LiveInv, RecordInv, CountInv,
              Right, OnIds
<1> QED
  BY <1>1, PolicyReloadKeeps, LookUpKeeps, DeniedKeeps, StakeKeeps, ConnectedKeeps, SpeaksKeeps,
     EndedKeeps, GivesUpKeeps, KeepKeeps, LineKeeps DEF StatusNext, PolicyInv

\* With its events taken in and none lost, a receiver holds what is true of the sessions
\* (status/server.rs, notify.rs), however many there are, however they overlap and whatever
\* reloads make of the policy; the key that it gives the name decides who is connected.
THEOREM LatestIsNamed ==
    StatusInit /\ [][StatusNext]_statusVars => []StatusNamesLatest
<1>1. StatusInv => StatusNamesLatest
  <2> SUFFICES ASSUME StatusInv PROVE StatusNamesLatest
    OBVIOUS
  <2>0. Len(<<>>) = 0
    OBVIOUS
  <2>1. Holders # {} <=> \E k \in Keys : policy[k] = "ours"
                             /\ \E s \in staker[k] : serving[s] \in Claiming
    <3>1. \A k \in Keys : live[k] = {s \in staker[k] : serving[s] \in Claiming}
      BY DEF StatusInv, LiveInv
    <3>2. Holders # {} <=> \E k \in Keys : policy[k] = "ours" /\ live[k] # {}
      BY DEF Holders
    <3> QED
      BY <3>1, <3>2
  <2>2. /\ Presence.connected <=> Holders # {}
        /\ Holders # {} => Presence.services = UNION {r.services : r \in record}
    BY DEF Presence
  <2>3. ASSUME told = <<>>, "keeper" \notin lagged, ~overtaken, NEW s \in latest,
               serving[s] = "on"
        PROVE  /\ record = {[session |-> s, services |-> bound[s]]}
               /\ policy[keyOf[s]] = "ours" /\ staker[keyOf[s]] = {s} =>
                     Presence.connected /\ Presence.services = bound[s]
    <3>1. PICK h : RecordTrace(h, told, record) /\ Right(h[Len(told)])
      BY <2>3 DEF StatusInv, RecordInv
    <3>2. h[Len(told)] = record
      BY <2>0, <2>3, <3>1 DEF RecordTrace
    <3>3. record = {[session |-> s, services |-> bound[s]]}
      BY <2>3, <3>1, <3>2 DEF Right
    <3>4. UNION {r.services : r \in record} = bound[s]
      BY <3>3
    <3>5. keyOf[s] \in Keys /\ serving[s] \in Claiming
      BY <2>3 DEF StatusInv, ServingInv, Claiming
    <3>6. policy[keyOf[s]] = "ours" /\ staker[keyOf[s]] = {s} => Holders # {}
      BY <2>1, <3>5
    <3> QED
      BY <2>2, <3>3, <3>4, <3>6
  <2>4. ASSUME unread = <<>>, "line" \notin lagged PROVE sessions = Cardinality(OnIds)
    <3>1. PICK h : CountTrace(h, unread, sessions) /\ h[Len(unread)] = Cardinality(OnIds)
      BY <2>4 DEF StatusInv, CountInv
    <3> QED
      BY <2>0, <2>4, <3>1 DEF CountTrace
  <2> QED
    BY <2>1, <2>2, <2>3, <2>4 DEF StatusNamesLatest, OnIds
<1>2. StatusInit => PolicyInv
  BY DEF StatusInit, PolicyInv
<1> QED
  BY <1>1, <1>2, StatusStart, StatusStep, PolicyStep, PTL
=============================================================================
