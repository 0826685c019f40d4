------------------------------- MODULE Upgrade -------------------------------
(***************************************************************************)
(* `hawse upgrade' (commands/upgrade.rs): runs of it, two at once or one   *)
(* after another was killed, on one installed binary; the services that    *)
(* run the binary; and the user, who may clear away what a killed run left *)
(* and go back to the kept binary, as the messages say.                    *)
(*                                                                         *)
(* A binary is a version and whether the file is whole.  The downloads,    *)
(* the release they are of and systemd are external: any outcome.          *)
(***************************************************************************)
EXTENDS Naturals, FiniteSets

CONSTANTS Runs,         \* runs of the command, once each
          Units,     \* the units and agents that run this binary
          Versions,
          Latest,       \* the release the download page redirects to
          Floor         \* FLOOR

ASSUME UpgradeAssumption ==
    Versions \subseteq Nat /\ Latest \in Versions /\ Floor \in Nat

VARIABLES
    exe, old,       \* the binary, and the kept one: {} or {binary}
    staging,        \* .hawse-upgrade: {} or {the run that made it}
    copy,           \* hawse.old in the staging directory: {} or {binary}
    upgrade,        \* run -> [at, running, to, restart]
    service         \* service -> {} or {the version that runs}

upgradeVars == <<exe, old, staging, copy, upgrade, service>>

Whole(v) == [version |-> v, whole |-> TRUE]
NewRun   == [at |-> "off", running |-> 0, to |-> 0, restart |-> {}]

UpgradeInit ==
    /\ exe \in {Whole(v) : v \in Versions} /\ old = {}
    /\ staging = {} /\ copy = {}
    /\ upgrade = [u \in Runs |-> NewRun]
    /\ service \in [Units -> {{}, {exe.version}}]

At(u)      == upgrade[u].at
Goes(u, l) == upgrade' = [upgrade EXCEPT ![u] = [@ EXCEPT !.at = l]]
Going      == {"checked", "staged", "fetched", "tried", "copying", "copied", "kept", "swapped"}

-----------------------------------------------------------------------------
(***************************************************************************)
(* run, up to the first write.                                             *)
(***************************************************************************)
\* decide: without --version only forward, never to what runs, never below the floor;
\* and nothing but words under --check.
Decide(running, wanted, pinned, check) ==
    /\ ~check
    /\ wanted # running
    /\ pinned \/ wanted > running
    /\ wanted >= Floor

\* The version that runs is the one this process was started from.
Start(u) ==
    /\ At(u) = "off"
    /\ \E pinned, check \in BOOLEAN : \E wanted \in IF pinned THEN Versions ELSE {Latest} :
           upgrade' = [upgrade EXCEPT ![u] =
               [NewRun EXCEPT !.at = IF Decide(exe.version, wanted, pinned, check)
                                       THEN "decided" ELSE "over",
                              !.running = exe.version, !.to = wanted]]
    /\ UNCHANGED <<exe, old, staging, copy, service>>

\* The services to restart are those that run now.
FindServices(u) ==
    /\ At(u) = "decided"
    /\ upgrade' = [upgrade EXCEPT ![u] =
           [@ EXCEPT !.at = "checked", !.restart = {s \in Units : service[s] # {}}]]
    /\ UNCHANGED <<exe, old, staging, copy, service>>

\* A package manager owns the binary, or another account could write it, or a unit
\* runs it and this is not root.
Refuse(u) ==
    /\ At(u) = "decided"
    /\ Goes(u, "over")
    /\ UNCHANGED <<exe, old, staging, copy, service>>

-----------------------------------------------------------------------------
(***************************************************************************)
(* replace and swap.                                                       *)
(***************************************************************************)
\* Mutant: a directory that is already there will do.
StagingFree_Always == TRUE
\* create_dir: the directory is also the lock.
StagingFree        == staging = {}

MakeStaging(u) ==
    /\ At(u) = "checked"
    /\ IF StagingFree THEN staging' = {u} /\ Goes(u, "staged")
                      ELSE UNCHANGED staging /\ Goes(u, "over")
    /\ UNCHANGED <<exe, old, copy, service>>

\* curl succeeds and the archive has the hash SHA256SUMS gives for it.
Fetch(u) ==
    /\ At(u) = "staged"
    /\ Goes(u, "fetched")
    /\ UNCHANGED <<exe, old, staging, copy, service>>

\* It unpacks, its binary runs here and names the release, and its units are read.
Try(u) ==
    /\ At(u) = "fetched"
    /\ Goes(u, "tried")
    /\ UNCHANGED <<exe, old, staging, copy, service>>

\* fs::copy, which a kill may leave half done.
BeginCopy(u) ==
    /\ At(u) = "tried"
    /\ copy' = {[exe EXCEPT !.whole = FALSE]}
    /\ Goes(u, "copying")
    /\ UNCHANGED <<exe, old, staging, service>>
EndCopy(u) ==
    /\ At(u) = "copying"
    /\ copy' = {exe}
    /\ Goes(u, "copied")
    /\ UNCHANGED <<exe, old, staging, service>>

KeepOld(u) ==
    /\ At(u) = "copied" /\ copy # {}
    /\ old' = copy /\ copy' = {}
    /\ Goes(u, "kept")
    /\ UNCHANGED <<exe, staging, service>>

ReplaceExe(u) ==
    /\ At(u) = "kept"
    /\ exe' = Whole(upgrade[u].to)
    /\ Goes(u, "swapped")
    /\ UNCHANGED <<old, staging, copy, service>>

\* Any step of replace fails, before it has done anything: a download, a hash, a
\* binary that does not run, a full disk.
Fail(u) ==
    /\ At(u) \in Going \ {"checked", "swapped"}
    /\ Goes(u, "failed")
    /\ UNCHANGED <<exe, old, staging, copy, service>>

\* Staging's drop, however replace ends.
DropStaging(u) ==
    /\ At(u) \in {"swapped", "failed"}
    /\ staging' = {} /\ copy' = {}
    /\ Goes(u, IF At(u) = "swapped" THEN "restarting" ELSE "over")
    /\ UNCHANGED <<exe, old, service>>

-----------------------------------------------------------------------------
\* systemctl restart or launchctl kickstart: the service runs what is installed now;
\* a failure ends the run and says how to go back.
Restart(u, s) ==
    /\ At(u) = "restarting" /\ s \in upgrade[u].restart
    /\ \/ /\ service' = [service EXCEPT ![s] = {exe.version}]
          /\ upgrade' = [upgrade EXCEPT ![u] = [@ EXCEPT !.restart = upgrade[u].restart \ {s}]]
       \/ /\ service' = [service EXCEPT ![s] = {}]
          /\ Goes(u, "over")
    /\ UNCHANGED <<exe, old, staging, copy>>

Report(u) ==
    /\ At(u) = "restarting" /\ upgrade[u].restart = {}
    /\ Goes(u, "over")
    /\ UNCHANGED <<exe, old, staging, copy, service>>

\* Killed between any two steps: its staging directory stays.
KillRun(u) ==
    /\ At(u) \notin {"off", "over"}
    /\ Goes(u, "over")
    /\ UNCHANGED <<exe, old, staging, copy, service>>

\* The user: the staging directory of a run that is gone is removed, and the kept
\* binary is moved back when no run is under way.
ClearStaging ==
    /\ staging # {} /\ \A u \in staging : At(u) = "over"
    /\ staging' = {} /\ copy' = {}
    /\ UNCHANGED <<exe, old, upgrade, service>>

GoBack ==
    /\ \A u \in Runs : At(u) \in {"off", "over"}
    /\ \E b \in old : exe' = b
    /\ old' = {}
    /\ UNCHANGED <<staging, copy, upgrade, service>>

UpgradeNext ==
    \/ \E u \in Runs : \/ Start(u) \/ FindServices(u) \/ Refuse(u) \/ MakeStaging(u)
                       \/ Fetch(u) \/ Try(u) \/ BeginCopy(u) \/ EndCopy(u) \/ KeepOld(u)
                       \/ ReplaceExe(u) \/ Fail(u) \/ DropStaging(u)
                       \/ \E s \in Units : Restart(u, s)
                       \/ Report(u) \/ KillRun(u)
    \/ ClearStaging \/ GoBack

-----------------------------------------------------------------------------
\* There is a way back at every moment, whatever two runs do at once and wherever one
\* is killed: a binary is installed and whole, the kept one is whole, and a binary is
\* replaced only while the kept one is a copy of that very binary (or, by the user, by
\* the kept one itself).
WayBack ==
    [][/\ exe'.whole /\ \A b \in old' : b.whole
       /\ exe' # exe => exe \in old \/ exe' \in old]_upgradeVars
=============================================================================
