---------------------------- MODULE ServiceInstall ----------------------------
(***************************************************************************)
(* `hawse service install' and `uninstall' (commands/service.rs) against   *)
(* the service manager: systemd, which reads a unit's file only when told, *)
(* or launchd.  Any command the run gives may fail, and the run may be     *)
(* killed or the host restarted between any two of its steps, and a later  *)
(* run starts from what that left.                                         *)
(*                                                                         *)
(* What a service runs with (the binary, the config, the account) is the   *)
(* number of the request that installed it, and 0 is any file that does    *)
(* not carry install's marker.  One run at a time; a user's own changes    *)
(* come between runs.                                                      *)
(***************************************************************************)
EXTENDS Naturals, Sequences

CONSTANTS Requests,     \* what installs may be asked for, and on what host: records
          Hosts,         \* who may run the command, and where: records
          MaxRuns       \* bound on the runs of the command

Asked == DOMAIN Requests

ASSUME ServiceAssumption ==
    /\ Requests \in Seq([user : {"none", "named", "root", "malformed"},
                         exe : [rootOnly : BOOLEAN, hidden : BOOLEAN, plain : BOOLEAN],
                         config : [loads : BOOLEAN, exists : BOOLEAN, hidden : BOOLEAN,
                                   open : BOOLEAN],
                         key : [inState : BOOLEAN, dirThere : BOOLEAN, hidden : BOOLEAN]])
    /\ Hosts \subseteq [os : {"linux", "macos", "other"}, root : BOOLEAN, systemd : BOOLEAN]
    /\ MaxRuns \in Nat

VARIABLES
    host,       \* who runs the command, and where
    unit,       \* the unit's or the agent's file: {}, {0} or {id}
    loaded,     \* what the manager has read: as unit
    enabled,    \* systemd starts the unit at boot
    active,     \* what the service's process runs with: {} or {id}
    keyed,      \* the service's key exists
    step,       \* where the command is
    want,       \* the id it installs, or 0
    left,       \* runs of the command still to come
    tampered,   \* a user has changed something since a run last ended well
    sure        \* {} or {what the last run that ended well left in place}: history

serviceVars == <<host, unit, loaded, enabled, active, keyed, step, want, left, tampered, sure>>

\* manager: which service manager, if any.
Manager(h) == CASE h.os = "linux" /\ h.root /\ h.systemd -> "systemd"
                [] h.os = "macos" /\ ~h.root             -> "launchd"
                [] OTHER                                 -> "none"
Systemd == Manager(host) = "systemd"

ServiceInit ==
    /\ host \in Hosts /\ unit \in {{}, {0}}
    /\ loaded = unit /\ enabled = FALSE /\ active = {} /\ keyed \in BOOLEAN
    /\ step = "idle" /\ want = 0 /\ left = MaxRuns /\ tampered = FALSE /\ sure = {}

-----------------------------------------------------------------------------
(***************************************************************************)
(* The checks before anything is written.                                  *)
(***************************************************************************)
\* unit_key: an account's own key needs its directory; a throwaway one's is in STATE.
KeyReachable(r) == IF r.user = "none" THEN r.key.inState ELSE r.key.dirThere

\* What is refused on account of the request alone.
Accepts(r) ==
    /\ r.config.loads
    /\ r.user \in (IF Systemd THEN {"none", "named"} ELSE {"none"})
    /\ Systemd =>
        /\ r.exe.rootOnly /\ KeyReachable(r)                                 \* only_root_writes
        /\ ~r.exe.hidden /\ ~r.config.hidden                            \* hidden
        /\ r.user # "none" => ~r.key.hidden
        /\ r.user = "none" /\ r.config.exists => r.config.open          \* closed_to_others
        /\ r.exe.plain                                                  \* can_execute

\* installed: {} for a file install did not write, or else whether one it wrote is there.
Installed == CASE unit = {}  -> {FALSE}
               [] unit = {0} -> {}
               [] OTHER      -> {TRUE}

Goto(s) == step' = s
\* An error ends the run where it is, and so does a kill.
Abandon == step' = "idle" /\ want' = 0 /\ sure' = {}

Untouched == UNCHANGED <<host, left, tampered>>

Install(id) ==
    /\ step = "idle" /\ left > 0 /\ left' = left - 1
    /\ IF Manager(host) # "none" /\ Accepts(Requests[id]) /\ Installed # {}
         THEN Goto("write") /\ want' = id /\ sure' = {}
         ELSE UNCHANGED <<step, want, sure>>
    /\ UNCHANGED <<host, unit, loaded, enabled, active, keyed, tampered>>

\* fs::write truncates the file first: one that fails may leave no marker in it.
Write ==
    /\ step = "write"
    /\ \/ unit' = {want} /\ Goto(IF Systemd THEN "reload" ELSE "key") /\ UNCHANGED <<want, sure>>
       \/ unit' \in {unit, {0}} /\ Abandon
    /\ Untouched /\ UNCHANGED <<loaded, enabled, active, keyed>>

\* A run ends well.
EndsWell(what) ==
    /\ Goto("idle") /\ want' = 0 /\ sure' = {what} /\ tampered' = FALSE

-----------------------------------------------------------------------------
(***************************************************************************)
(* systemd                                                                 *)
(***************************************************************************)
DaemonReload ==
    /\ step \in {"reload", "forget"}
    /\ \/ /\ loaded' = unit
          /\ IF step = "reload" THEN Goto("enable") /\ UNCHANGED <<want, sure, tampered>>
                                ELSE EndsWell({})
       \/ Abandon /\ UNCHANGED <<loaded, tampered>>
    /\ UNCHANGED <<host, left, unit, enabled, active, keyed>>

Enable ==
    /\ step = "enable"
    /\ \/ enabled' = TRUE /\ Goto("restart") /\ UNCHANGED <<want, sure>>
       \/ Abandon /\ UNCHANGED enabled
    /\ Untouched /\ UNCHANGED <<unit, loaded, active, keyed>>

\* Mutant: systemctl start, which leaves a service that runs as it is.
Restarted_Start == IF active = {} THEN loaded ELSE active
\* systemctl restart.
Restarted       == loaded

\* It returns once the service is ready, which has made its key by then; one that does
\* not come up may have made it too.
RestartUnit ==
    /\ step = "restart"
    /\ \/ active' = Restarted /\ keyed' = TRUE /\ Goto("loadkey") /\ UNCHANGED <<want, sure>>
       \/ active' = {} /\ keyed' \in {keyed, TRUE} /\ Abandon
    /\ Untouched /\ UNCHANGED <<unit, loaded, enabled>>

\* A key that is not there or cannot be read is an error.
LoadUnitKey ==
    /\ step = "loadkey"
    /\ \/ keyed /\ EndsWell({want})
       \/ Abandon /\ UNCHANGED tampered
    /\ UNCHANGED <<host, left, unit, loaded, enabled, active, keyed>>

\* systemctl disable --now
Disable ==
    /\ step = "disable"
    /\ \/ enabled' = FALSE /\ active' = {} /\ Goto("remove") /\ UNCHANGED <<want, sure>>
       \/ enabled' \in {enabled, FALSE} /\ UNCHANGED active /\ Abandon
    /\ Untouched /\ UNCHANGED <<unit, loaded, keyed>>

-----------------------------------------------------------------------------
(***************************************************************************)
(* launchd                                                                 *)
(***************************************************************************)
LoadOrCreate ==
    /\ step = "key"
    /\ \/ keyed' = TRUE /\ Goto("bootout") /\ UNCHANGED <<want, sure>>
       \/ Abandon /\ UNCHANGED keyed
    /\ Untouched /\ UNCHANGED <<unit, loaded, enabled, active>>

\* bootout, which returns once the agent is gone or after 30 s.
Bootout ==
    /\ step \in {"bootout", "unload"}
    /\ \/ /\ loaded' = {} /\ active' = {} /\ UNCHANGED <<want, sure>>
          /\ Goto(IF step = "bootout" THEN "bootstrap" ELSE "remove")
       \/ loaded # {} /\ Abandon /\ UNCHANGED <<loaded, active>>
    /\ Untouched /\ UNCHANGED <<unit, enabled, keyed>>

Bootstrap ==
    /\ step = "bootstrap"
    /\ \/ loaded' = unit /\ active' = unit /\ EndsWell({want})
       \/ Abandon /\ UNCHANGED <<loaded, active, tampered>>
    /\ UNCHANGED <<host, left, unit, enabled, keyed>>

-----------------------------------------------------------------------------
(***************************************************************************)
(* uninstall                                                               *)
(***************************************************************************)
Uninstall ==
    /\ step = "idle" /\ left > 0 /\ left' = left - 1
    /\ IF Manager(host) = "none" \/ Installed = {} THEN UNCHANGED <<step, sure>>
       ELSE IF Installed = {FALSE}
              THEN sure' = (IF tampered THEN sure ELSE {{}}) /\ UNCHANGED step
              ELSE Goto(IF Systemd THEN "disable" ELSE "unload") /\ sure' = {}
    /\ UNCHANGED <<host, unit, loaded, enabled, active, keyed, want, tampered>>

Remove ==
    /\ step = "remove"
    /\ \/ /\ unit' = {}
          /\ IF Systemd THEN Goto("forget") /\ UNCHANGED <<want, sure, tampered>> ELSE EndsWell({})
       \/ Abandon /\ UNCHANGED <<unit, tampered>>
    /\ UNCHANGED <<host, left, loaded, enabled, active, keyed>>

-----------------------------------------------------------------------------
(***************************************************************************)
(* What else happens: the run is killed, in the middle of a write perhaps; *)
(* the service ends and the manager starts it again; the host restarts; a  *)
(* user writes a file of their own in the place of the unit, or removes it.*)
(***************************************************************************)
Killed ==
    /\ step # "idle" /\ Abandon
    /\ unit' \in (IF step = "write" THEN {unit, {0}} ELSE {unit})
    /\ Untouched /\ UNCHANGED <<loaded, enabled, active, keyed>>

ServiceEnds ==
    /\ active # {} /\ active' \in {{}, loaded}
    /\ UNCHANGED <<host, unit, loaded, enabled, keyed, step, want, left, tampered, sure>>

\* What a boot, or a login, starts.
Boots == IF Systemd /\ ~enabled THEN {} ELSE unit

Reboot ==
    /\ step' = "idle" /\ want' = 0 /\ sure' = IF step = "idle" THEN sure ELSE {}
    /\ loaded' = unit /\ active' \in {{}, Boots}
    /\ UNCHANGED <<host, unit, enabled, keyed, left, tampered>>

UserChanges ==
    /\ step = "idle" /\ unit' \in {{}, {0}} \ {unit}
    /\ tampered' = TRUE /\ sure' = {}
    /\ UNCHANGED <<host, loaded, enabled, active, keyed, step, want, left>>

ServiceNext ==
    \/ \E id \in Asked : Install(id)
    \/ Uninstall \/ Write \/ DaemonReload \/ Enable \/ RestartUnit \/ LoadUnitKey \/ Disable
    \/ LoadOrCreate \/ Bootout \/ Bootstrap \/ Remove
    \/ Killed \/ ServiceEnds \/ Reboot \/ UserChanges

ServiceSpec == ServiceInit /\ [][ServiceNext]_serviceVars

-----------------------------------------------------------------------------
\* Once an install or an uninstall has ended well, and until another begins or a user
\* interferes, the service runs with what was asked for or not at all, a boot starts
\* just that, and it has its key; whatever runs that failed or were killed came before,
\* and for an uninstall that found nothing to remove too.
ServiceAsAsked ==
    \A what \in sure : /\ active \subseteq what /\ Boots = what
                       /\ what # {} => keyed /\ loaded = what
=============================================================================
