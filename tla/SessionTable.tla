---------------------------- MODULE SessionTable ----------------------------
(***************************************************************************)
(* Which visitor each session id of a UDP service belongs to, on the       *)
(* server (server/udp/table.rs), and how the service's tasks use it        *)
(* (server/udp/mod.rs): packets of visitors come in, the client's packets  *)
(* go out by session id, and a timer drops what is idle.  The table is     *)
(* behind a mutex, so every call is one step.                              *)
(*                                                                         *)
(* The client is told of no eviction, and its packets for a session may    *)
(* arrive at any later time: `opens' remembers whose they would be.        *)
(***************************************************************************)
EXTENDS Integers, FiniteSets, Sequences

CONSTANTS Visitors,     \* addresses the service's allow list admits
          None,
          Cap,          \* limits.udp_sessions_per_service, a u32
          IdSpace,      \* 2^32: ids are u32 and the counter wraps
          Idle,         \* IDLE, in ticks
          MaxClock,     \* bound on the clock
          MaxOpens      \* bound on sessions opened

Ids   == 0..(IdSpace - 1)
Times == 0..MaxClock

ASSUME TableAssumption == /\ Cap \in Nat /\ IdSpace \in Nat /\ Idle \in Nat
                          /\ Cap < IdSpace /\ 1 < IdSpace
                          /\ MaxClock \in Nat /\ MaxOpens \in Nat
                          /\ None \notin Visitors /\ None \notin Ids

VARIABLES clock,        \* Instant::now()
          nextId,       \* the counter claim_id starts from
          byVisitor,    \* visitor -> id
          bySession,    \* id -> entry
          byAge,        \* the pairs of a BTreeSet<(Instant, u32)>
          opens         \* history: every session opened, in order

tableVars == <<clock, nextId, byVisitor, bySession, byAge, opens>>

Entry == [visitor : Visitors, used : Times]
Free  == [visitor |-> None, used |-> 0]
Live  == {i \in Ids : bySession[i] # Free}
Aged  == {<<bySession[i].used, i>> : i \in Live}

TableTypeOK ==
    /\ clock \in Times /\ nextId \in Ids
    /\ byVisitor \in [Visitors -> Ids \cup {None}]
    /\ bySession \in [Ids -> Entry \cup {Free}]
    /\ byAge \subseteq Times \X Ids
    /\ opens \in Seq([session : Ids, visitor : Visitors])

TableInit ==
    /\ clock = 0 /\ nextId = 0
    /\ byVisitor = [v \in Visitors |-> None]
    /\ bySession = [i \in Ids |-> Free]
    /\ byAge = {}
    /\ opens = <<>>

-----------------------------------------------------------------------------
(***************************************************************************)
(* The table with one of its three indexes changed at a time would be no   *)
(* table: `remove' and `touch' give the three together, from `t'.          *)
(***************************************************************************)
Table == [visitors |-> byVisitor, sessions |-> bySession, ages |-> byAge]

\* The order of the set: by the clock, and by id within an instant.
Before(a, b) == a[1] < b[1] \/ (a[1] = b[1] /\ a[2] < b[2])
First(ages)  == CHOOSE a \in ages : \A b \in ages : a = b \/ Before(a, b)

\* Mutant: the visitor keeps the id of the removed session.
Remove_KeepsVisitor(t, S) ==
    [visitors |-> t.visitors,
     sessions |-> [i \in Ids |-> IF i \in S THEN Free ELSE t.sessions[i]],
     ages     |-> t.ages \ {<<t.sessions[i].used, i>> : i \in S}]
Remove(t, S) ==
    [visitors |-> [v \in Visitors |->
                     IF \E i \in S : t.sessions[i].visitor = v THEN None ELSE t.visitors[v]],
     sessions |-> [i \in Ids |-> IF i \in S THEN Free ELSE t.sessions[i]],
     ages     |-> t.ages \ {<<t.sessions[i].used, i>> : i \in S}]

Touch(t, i) ==
    [visitors |-> t.visitors,
     sessions |-> [t.sessions EXCEPT ![i] = [@ EXCEPT !.used = clock]],
     ages     |-> (t.ages \ {<<t.sessions[i].used, i>>}) \cup {<<clock, i>>}]

Put(t) == byVisitor' = t.visitors /\ bySession' = t.sessions /\ byAge' = t.ages

Full(t) == Cardinality({i \in Ids : t.sessions[i] # Free}) >= Cap

\* evict_oldest, when the table is full; an empty one has nothing to evict.
MakeRoom(t) == IF Full(t) /\ t.ages # {} THEN Remove(t, {First(t.ages)[2]}) ELSE t

\* claim_id: the k-th id from the counter on is the first that no session holds.
Counted(k) == (nextId + k) % IdSpace
\* Mutants: the counter alone gives the id, or the lowest free id is taken.
Claimable_Wrapped(t, k) == k = 0
Claimable_Lowest(t, k)  == /\ t.sessions[Counted(k)] = Free
                           /\ \A i \in Ids : i < Counted(k) => t.sessions[i] # Free
Claimable(t, k) == /\ t.sessions[Counted(k)] = Free
                   /\ \A j \in 0..(k - 1) : t.sessions[Counted(j)] # Free

Following(k) == Counted(k + 1)

-----------------------------------------------------------------------------
\* A packet of a visitor that has a session.
InboundKnown(v) ==
    /\ byVisitor[v] # None
    /\ Put(Touch(Table, byVisitor[v]))
    /\ UNCHANGED <<clock, nextId, opens>>

\* The first packet of a visitor.
InboundFresh(v) ==
    LET t == MakeRoom(Table)
    IN  /\ byVisitor[v] = None /\ Len(opens) < MaxOpens
        /\ \E k \in 0..(IdSpace - 1) :
              /\ Claimable(t, k)
              /\ Put([visitors |-> [t.visitors EXCEPT ![v] = Counted(k)],
                      sessions |-> [t.sessions EXCEPT ![Counted(k)] =
                                      [visitor |-> v, used |-> clock]],
                      ages     |-> t.ages \cup {<<clock, Counted(k)>>}])
              /\ nextId' = Following(k)
              /\ opens' = Append(opens, [session |-> Counted(k), visitor |-> v])
        /\ UNCHANGED clock

\* A packet of the client goes to the visitor of its session.
Outbound(i) ==
    /\ i \in Live
    /\ Put(Touch(Table, i))
    /\ UNCHANGED <<clock, nextId, opens>>

\* One for a session that is not there is dropped.
OutboundLost(i) == i \notin Live /\ UNCHANGED tableVars

\* From the front of the order, up to the first session that is not idle yet.
Sweep ==
    LET idle == {a \in byAge : clock - a[1] >= Idle}
    IN  /\ idle # {}
        /\ Put(Remove(Table, {a[2] : a \in idle}))
        /\ UNCHANGED <<clock, nextId, opens>>

ClockTicks ==
    /\ clock < MaxClock
    /\ clock' = clock + 1
    /\ UNCHANGED <<nextId, byVisitor, bySession, byAge, opens>>

TableNext ==
    \/ \E v \in Visitors : InboundKnown(v) \/ InboundFresh(v)
    \/ \E i \in Ids : Outbound(i) \/ OutboundLost(i)
    \/ Sweep
    \/ ClockTicks

TableSpec == TableInit /\ [][TableNext]_tableVars

-----------------------------------------------------------------------------
\* The three indexes tell the same story: visitors and ids name each other, and the
\* order holds each session once, at the time it was last used; and a table never
\* holds more sessions than its cap, or than one if that is zero.
IndexesAgree ==
    /\ \A i \in Live : byVisitor[bySession[i].visitor] = i
    /\ \A v \in Visitors : byVisitor[v] # None =>
           byVisitor[v] \in Live /\ bySession[byVisitor[v]].visitor = v
    /\ byAge = Aged
    /\ Cardinality(Live) <= IF Cap = 0 THEN 1 ELSE Cap

\* A late packet for a session that is gone reaches nobody else's visitor, until the
\* counter has been around: all ids but the cap's worth have been given out since.
LateReplyLost ==
    \A n \in 1..Len(opens) :
        LET e == bySession[opens[n].session]
        IN  e.visitor \notin {None, opens[n].visitor} =>
                Len(opens) - n > IdSpace - 1 - Cap

\* The table implements the routing it stands for.
Routing == INSTANCE VisitorRouting WITH
               route <- [i \in Ids |-> bySession[i].visitor]
ImplementsRouting == Routing!RoutingSpec
=============================================================================
