--------------------------- MODULE PortAllocator ---------------------------
(***************************************************************************)
(* The allocator of public ports that every session of a server shares     *)
(* (server/ports.rs).  It is always used under one mutex, so each method   *)
(* is one step: the operators below are the conjuncts that a step of a     *)
(* session uses for its call.                                              *)
(***************************************************************************)
EXTENDS Integers, FiniteSets

CONSTANTS Numbers,      \* the port numbers of the host
          SpanFirst,    \* dynamic_ports: the first number of the pool
          SpanLast,     \* and its last
          ListenPort    \* the number the server itself listens on

Kinds == {"tcp", "udp"}
Port  == [number : Numbers, kind : Kinds]

\* PortSpan is parsed as first <= last, and both are port numbers.
ASSUME SpanAssumption == /\ Numbers \subseteq Nat
                         /\ SpanFirst \in Nat /\ SpanLast \in Nat
                         /\ SpanFirst <= SpanLast
                         /\ SpanFirst..SpanLast \subseteq Numbers
                         /\ ListenPort \in Numbers

VARIABLES cursor,       \* where the next walk through the pool starts
          inUse         \* the claimed ports

allocVars == <<cursor, inUse>>

SpanLen  == SpanLast - SpanFirst + 1
Reserved == [number : {ListenPort}, kind : Kinds]

AllocTypeOK == /\ cursor \in SpanFirst..SpanLast
               /\ inUse \in SUBSET Port

\* new() and then reserve() for the listen port, before any session runs.
AllocInit == cursor = SpanFirst /\ inUse = Reserved

\* The i-th number of a walk that starts at the cursor and wraps at the end.
Walk(i) == SpanFirst + ((cursor - SpanFirst + i) % SpanLen)

Slot(i, kind)      == [number |-> Walk(i), kind |-> kind]
FreeSlots(kind)    == {i \in 0..(SpanLen - 1) : Slot(i, kind) \notin inUse}
FirstFree(kind, i) == /\ i \in FreeSlots(kind)
                      /\ \A j \in FreeSlots(kind) : i <= j

Claim(port) == /\ port \notin inUse
               /\ inUse' = inUse \cup {port}
               /\ UNCHANGED cursor

\* The walk hands out the first free port and leaves the cursor after it.
ClaimDynamic(kind, port) ==
    \E i \in FreeSlots(kind) :
        /\ FirstFree(kind, i)
        /\ port = Slot(i, kind)
        /\ inUse' = inUse \cup {port}
        /\ cursor' = Walk(i + 1)

\* A walk over a full pool comes back to where it started.
Exhausted(kind) == FreeSlots(kind) = {}

Release(ports) == inUse' = inUse \ ports /\ UNCHANGED cursor
=============================================================================
