\* The server's status: two sessions, of two keys that a reload may give and take, and
\* receivers that lag. The client's status: two clients one after the other, two
\* sessions, a reload and one that undoes it; its totals: with tasks that outlive it.
\* Startup: three processes.  Upgrade: two runs, from and to any of three versions.
\* Services: four runs, of systemd and of launchd.
CONSTANTS
    Offered = {"w"}
    Keys = {"j", "k"}
    MaxSessions = 2
    MaxReloads = 1
    Backlog = 2
    Services = {"w"}
    MaxClients = 2
    MaxSettings = 2
    MaxConfigs = 2
    MaxCounted = 1
    MaxConnects = 2
    Queue = 1
    Procs = {"c", "d", "e"}
    Runs = {"x", "y"}
    Units = {"server"}
    Versions = {1, 2, 3}
    Latest = 3
    Floor = 2
    Requests <- MCRequests
    Hosts <- MCHosts
    MaxRuns = 4
SPECIFICATION MCSpec
CHECK_DEADLOCK FALSE
INVARIANTS
    StatusNamesLatest
    StatusAgrees
    TotalsExact
    StartsAgree
    ServiceAsAsked
PROPERTIES
    WayBack
