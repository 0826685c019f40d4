------------------------------- MODULE Places -------------------------------
(***************************************************************************)
(* Where hawse looks for its config and its key and puts its socket        *)
(* (paths.rs, socket.rs, commands/service.rs), as functions of how a       *)
(* process was started.  A directory is a name, and stands for the file of *)
(* the role in it; an option is a set of at most one.                      *)
(***************************************************************************)
EXTENDS Sequences

State == "/var/lib/hawse"
Etc   == "/etc/hawse"
Run   == "/run/hawse-role"

First(option) == CHOOSE x \in option : TRUE

\* locate: the directory of the config and whether it is there; `there' are the
\* directories with a config in them, `user' is the account's own.
Locate(explicit, user, root, there) ==
    LET dir == IF explicit # {} THEN First(explicit)
               ELSE IF user \cap there # {} THEN First(user)
               ELSE IF Etc \in there \/ root \/ user = {} THEN Etc
               ELSE First(user)
    IN  [dir |-> dir, exists |-> dir \in there]

\* default_key: one already beside the config, else systemd's state directory, else
\* root's, else beside the config.
DefaultKey(config, beside, stateDirectory, root) ==
    IF beside THEN config
    ELSE IF stateDirectory # {} THEN First(stateDirectory)
    ELSE IF root THEN State
    ELSE config

\* key_path, of a process with that environment; `configured' is the config's own key.
KeyPath(env, config, beside, configured) ==
    IF configured # {} THEN First(configured)
    ELSE DefaultKey(config, beside, env.stateDirectory, env.root)

\* unit_key: where install expects the unit to keep its key; {} when it refuses.
UnitKey(config, beside, configured, account) ==
    LET key == IF configured # {} THEN First(configured)
               ELSE DefaultKey(config, beside, IF account THEN {} ELSE {State}, FALSE)
    IN  IF account \/ key = State THEN {key} ELSE {}

\* What systemd gives the processes of the two units install writes.
UnitEnv(account) ==
    [notify |-> TRUE, runtime |-> {Run}, root |-> FALSE, linux |-> TRUE,
     stateDirectory |-> IF account THEN {} ELSE {State}, xdg |-> {}, state |-> {}]

\* place: <<>> when there is none.
Place(env) ==
    IF env.runtime # {} THEN <<First(env.runtime)>>
    ELSE IF env.notify THEN <<>>
    ELSE IF env.root /\ env.linux THEN <<Run>>
    ELSE IF env.xdg # {} THEN <<First(env.xdg)>>
    ELSE IF env.state # {} THEN <<First(env.state)>>
    ELSE <<>>

\* candidates: the places a caller tries, in order.
Candidates(env) ==
    LET Some(option) == IF option = {} THEN <<>> ELSE <<First(option)>>
    IN  Some(env.runtime) \o (IF env.linux THEN <<Run>> ELSE <<>>)
            \o Some(env.xdg) \o Some(env.state)

-----------------------------------------------------------------------------
Envs == [notify : BOOLEAN, runtime : {{}, {Run}}, root : BOOLEAN, linux : BOOLEAN,
         stateDirectory : {{}, {State}}, xdg : {{}, {"xdg"}}, state : {{}, {"local"}}]
Dirs == {State, Etc, "elsewhere"}

\* Install prints the key of the path the unit it wrote loads or creates its key at,
\* for any config directory, a key beside the config or not, and any `key' in it.
InstallFindsKey ==
    \A config \in Dirs, beside, account \in BOOLEAN :
        \A configured \in {{}} \cup {{d} : d \in Dirs} :
            \A key \in UnitKey(config, beside, configured, account) :
                key = KeyPath(UnitEnv(account), config, beside, configured)

\* A config written where none was found, with the key made for it, is where a later
\* start of the same account finds both: join's client runs with the key it joined by.
StartFindsConfig ==
    \A explicit \in {{}} \cup {{d} : d \in Dirs}, user \in {{}, {"elsewhere"}} :
        \A there \in SUBSET Dirs, env \in Envs, beside \in BOOLEAN :
            LET at  == Locate(explicit, user, env.root, there)
                key == KeyPath(env, at.dir, beside, {})
                now == Locate(explicit, user, env.root, there \cup {at.dir})
            IN  /\ now = [dir |-> at.dir, exists |-> TRUE]
                /\ KeyPath(env, now.dir, beside \/ key = at.dir, {}) = key

\* A caller finds a process of its own account, and of a unit of the system, wherever
\* that process put its socket: a unit's process may have been told nothing else.
CallerFindsSocket ==
    \A server, caller \in Envs :
        /\ server.linux = caller.linux
        /\ server.xdg = caller.xdg /\ server.state = caller.state
        /\ server.runtime # {} => server.linux
        => \A i \in DOMAIN Place(server) :
              \E j \in DOMAIN Candidates(caller) : Candidates(caller)[j] = Place(server)[i]
=============================================================================
