------------------------------- MODULE MCHost -------------------------------
(* Parts of a host that share nothing, checked in one run: a behaviour is one  *)
(* of the server's status, of a client's status, of a client's totals, of      *)
(* processes that start on one key file and socket, of upgrades, or of a       *)
(* service installed and removed.  Where hawse looks for files is a matter of  *)
(* functions alone, and is evaluated before the run.                           *)
EXTENDS ServerStatus, ClientStatus, Startup, Upgrade, ServiceInstall, Places

ASSUME StartFindsConfig
ASSUME InstallFindsKey
ASSUME CallerFindsSocket

\* Two requests that can be met, one that an account is named in, and one that is
\* refused; root with systemd, a user of macOS, and one whom no manager serves.
Fine == [user   |-> "none",
         exe    |-> [rootOnly |-> TRUE, hidden |-> FALSE, plain |-> TRUE],
         config |-> [loads |-> TRUE, exists |-> TRUE, hidden |-> FALSE, open |-> TRUE],
         key    |-> [inState |-> TRUE, dirThere |-> TRUE, hidden |-> FALSE]]
MCRequests == <<Fine, Fine, [Fine EXCEPT !.user = "named", !.key.inState = FALSE],
                [Fine EXCEPT !.config.open = FALSE]>>
MCHosts == {[os |-> "linux", root |-> TRUE, systemd |-> TRUE],
            [os |-> "macos", root |-> FALSE, systemd |-> FALSE],
            [os |-> "linux", root |-> FALSE, systemd |-> TRUE]}

\* A client's second reload undoes the first in its first session; the panel and the
\* status line take answers in alike, and the line goes without it.
Restores == configs' = 2 => /\ printer = "panel" /\ connects' <= 1 /\ client'.n = 1
                            /\ turn' = "run" /\ shown'.cfg = [s \in Services |-> 1]

\* A reload of the server takes the name from k or not, and gives j to some name or to none.
Gives == policy' # policy => policy'["k"] # "other"

VARIABLE part

\* What a part that the behaviour is not of starts from makes no difference, nor does it
\* what a client counts to what it says, or what it says to the totals; sessions are
\* alike but for their keys.
MCInit ==
    /\ part \in {"server", "client", "totals", "start", "upgrade", "service"}
    /\ StatusInit /\ policy = [k \in Keys |-> IF k = "k" THEN "ours" ELSE "nobody"]
    /\ keyOf[1] = "k"
    /\ part # "server" => keyOf = [s \in Ids |-> "k"]
    /\ ClientStatusInit /\ (part # "client" => printer = "log")
    /\ StartInit
    /\ UpgradeInit /\ (part # "upgrade" => exe = Whole(Floor) /\ \A u \in Units : service[u] = {})
    /\ ServiceInit /\ (part # "service" => host.os = "macos" /\ unit = {} /\ ~keyed)

MCNext ==
    /\ UNCHANGED part
    /\ \/ part = "server" /\ StatusNext /\ Gives /\ UNCHANGED <<clientVars, startVars, upgradeVars, serviceVars>>
       \/ part = "client" /\ ClientStatusNext /\ Restores
          /\ UNCHANGED <<totals, statusVars, startVars, upgradeVars, serviceVars>>
       \/ part = "totals" /\ ClientStatusNext /\ UNCHANGED <<connects, statusVars, startVars, upgradeVars, serviceVars>>
       \/ part = "start" /\ StartNext /\ UNCHANGED <<statusVars, clientVars, upgradeVars, serviceVars>>
       \/ part = "upgrade" /\ UpgradeNext /\ UNCHANGED <<statusVars, clientVars, startVars, serviceVars>>
       \/ part = "service" /\ ServiceNext /\ UNCHANGED <<statusVars, clientVars, startVars, upgradeVars>>

MCSpec == MCInit /\ [][MCNext]_<<part, statusVars, clientVars, startVars, upgradeVars, serviceVars>>
=============================================================================
