------------------------------- MODULE Startup -------------------------------
(***************************************************************************)
(* Processes of one role that start on one host with one key file          *)
(* (identity.rs) and one status socket (socket.rs), and may be killed at   *)
(* any step: two clients, or two servers with listen ports of their own (a *)
(* second server on one port fails before it comes to the socket).  Every  *)
(* access to the file system is a step of its own.                         *)
(***************************************************************************)
EXTENDS FiniteSets

CONSTANT Procs          \* each starts once

VARIABLES
    proc,       \* process -> where it stands
    identity,   \* process -> {} or {the key it runs with}
    key,        \* the key file: {} or {whose key; {} while it is empty}
    path,       \* the socket's path: {} or {whose socket}
    listener,   \* process -> "none", "bound" or "listening"
    overlapped  \* history: two processes were in bind_at at once

startVars == <<proc, identity, key, path, listener, overlapped>>

Binding == {"checking", "removing", "binding", "listening", "permitting"}

StartInit ==
    /\ proc = [p \in Procs |-> "off"]
    /\ identity = [p \in Procs |-> {}]
    /\ key = {} /\ path = {}
    /\ listener = [p \in Procs |-> "none"]
    /\ overlapped = FALSE

Moves(p, l) == proc' = [proc EXCEPT ![p] = l]

-----------------------------------------------------------------------------
(***************************************************************************)
(* Identity::load_or_create.                                               *)
(***************************************************************************)
\* A key file that is there is read, and an empty one does not parse.
LoadKey(p) ==
    /\ proc[p] = "off"
    /\ Moves(p, IF key = {} THEN "creating" ELSE IF {} \in key THEN "failed" ELSE "keyed")
    /\ identity' = [identity EXCEPT ![p] = IF {} \in key THEN {} ELSE UNION key]
    /\ UNCHANGED <<key, path, listener, overlapped>>

\* Mutant: the file is opened to be written, whether or not it is there.
CreateKey_Over(p) ==
    /\ proc[p] = "creating"
    /\ key' = {{}} /\ Moves(p, "writing")
    /\ UNCHANGED <<identity, path, listener, overlapped>>
\* write_private: create_new fails on a file that has come meanwhile.
CreateKey(p) ==
    /\ proc[p] = "creating"
    /\ IF key = {} THEN key' = {{}} /\ Moves(p, "writing")
                   ELSE UNCHANGED key /\ Moves(p, "failed")
    /\ UNCHANGED <<identity, path, listener, overlapped>>

WriteKey(p) ==
    /\ proc[p] = "writing"
    /\ key' = {{p}} /\ identity' = [identity EXCEPT ![p] = {p}]
    /\ Moves(p, "keyed")
    /\ UNCHANGED <<path, listener, overlapped>>

-----------------------------------------------------------------------------
(***************************************************************************)
(* bind_at, with the directory made and its own.                           *)
(***************************************************************************)
EnterBind(p) ==
    /\ proc[p] = "keyed"
    /\ Moves(p, "checking")
    /\ overlapped' = (overlapped \/ \E q \in Procs : proc[q] \in Binding)
    /\ UNCHANGED <<identity, key, path, listener>>

\* Connect(path), for bind_at and for `hawse status': a socket that is bound and does
\* not listen, yet or any more, refuses.
Answers == \E q \in path : listener[q] = "listening"

\* Only a refused connection shows that a socket is stale.
Stale == path # {} /\ ~Answers

CheckSocket(p) ==
    /\ proc[p] = "checking"
    /\ Moves(p, IF Stale THEN "removing" ELSE IF path = {} THEN "binding" ELSE "serving")
    /\ UNCHANGED <<identity, key, path, listener, overlapped>>

\* remove_file fails on a file that has gone: the process runs without a socket.
RemoveStale(p) ==
    /\ proc[p] = "removing"
    /\ path' = {} /\ Moves(p, IF path = {} THEN "serving" ELSE "binding")
    /\ UNCHANGED <<identity, key, listener, overlapped>>

BindSocket(p) ==
    /\ proc[p] = "binding"
    /\ IF path # {} THEN Moves(p, "serving") /\ UNCHANGED <<path, listener>>
       ELSE /\ path' = {p} /\ listener' = [listener EXCEPT ![p] = "bound"]
            /\ Moves(p, "listening")
    /\ UNCHANGED <<identity, key, overlapped>>

Listen(p) ==
    /\ proc[p] = "listening"
    /\ listener' = [listener EXCEPT ![p] = "listening"]
    /\ Moves(p, "permitting")
    /\ UNCHANGED <<identity, key, path, overlapped>>

\* set_permissions fails on a path that has gone, and the socket is dropped.
Permit(p) ==
    /\ proc[p] = "permitting"
    /\ Moves(p, "serving")
    /\ listener' = [listener EXCEPT ![p] = IF path = {} THEN "none" ELSE @]
    /\ UNCHANGED <<identity, key, path, overlapped>>

-----------------------------------------------------------------------------
\* The end of a process: Bound's drop removes what is at the path, and then the socket
\* closes.
Unlink(p) ==
    /\ proc[p] = "serving"
    /\ Moves(p, "unlinked")
    /\ path' = IF listener[p] = "none" THEN path ELSE {}
    /\ UNCHANGED <<identity, key, listener, overlapped>>

Exit(p) ==
    /\ proc[p] \in {"unlinked", "failed"}
    /\ Moves(p, "gone") /\ listener' = [listener EXCEPT ![p] = "none"]
    /\ identity' = [identity EXCEPT ![p] = {}]
    /\ UNCHANGED <<key, path, overlapped>>

\* Killed, or the power is cut: what it left on disk stays.
Kill(p) ==
    /\ proc[p] \notin {"off", "failed", "gone"}
    /\ Moves(p, "gone") /\ listener' = [listener EXCEPT ![p] = "none"]
    /\ identity' = [identity EXCEPT ![p] = {}]
    /\ UNCHANGED <<key, path, overlapped>>

\* The user removes a key file that does not parse, once nothing is starting.
RemoveKey ==
    /\ {} \in key /\ \A p \in Procs : proc[p] # "writing"
    /\ key' = {}
    /\ UNCHANGED <<proc, identity, path, listener, overlapped>>

StartNext ==
    \/ \E p \in Procs : \/ LoadKey(p) \/ CreateKey(p) \/ WriteKey(p)
                        \/ EnterBind(p) \/ CheckSocket(p) \/ RemoveStale(p)
                        \/ BindSocket(p) \/ Listen(p) \/ Permit(p)
                        \/ Unlink(p) \/ Exit(p) \/ Kill(p)
    \/ RemoveKey

-----------------------------------------------------------------------------
\* What the comment on bind_at says: a bind does not take the path of a process that
\* lives, which would steal its callers.
SocketKept ==
    \A p \in Procs : proc[p] = "serving" /\ listener[p] = "listening" => path = {p}

\* However processes of one host start, stop and are killed, they have one identity,
\* the one in the key file; and as long as no two of them are in bind_at at once, the
\* path leads to the one that serves: a socket left by a kill is replaced, and one in
\* use is not.
StartsAgree ==
    /\ \A p \in Procs : identity[p] # {} => key = {identity[p]}
    /\ ~overlapped => SocketKept
=============================================================================
