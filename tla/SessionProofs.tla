--------------------------- MODULE SessionProofs ---------------------------
(***************************************************************************)
(* Theorems about the sessions of a server, for any number of connections, *)
(* keys, names and ports: their state is well typed, and a public port has *)
(* one owner, which the allocator knows exactly; a key has one session, a  *)
(* session that says it is done has stopped its services, an id names one  *)
(* service, a reload is honoured, and a client finds its own ports free    *)
(* again.                                                                  *)
(***************************************************************************)
EXTENDS ServerSessions, TLAPS

(***************************************************************************)
(* A bind in progress has its request in hand and an id left to give.      *)
(***************************************************************************)
RequestInv ==
    \A c \in Conns :
        /\ at[c] \in {"opening", "binding", "freeing"} => conn[c].request \in Request
        /\ at[c] \in {"opening", "binding"} => conn[c].lastId < MaxId

TypeInv == TypeOK /\ RequestInv

(***************************************************************************)
(* What a bind has claimed is in use, its own, and nobody's socket yet.    *)
(***************************************************************************)
HeldInv ==
    \A c \in Conns :
        /\ held[c] \subseteq inUse
        /\ \A p \in held[c] : p \notin Reserved
        /\ \A p \in held[c] : \A t \in tasks : t.port # p
        /\ \A d \in Conns : \A p \in held[c] : p \in held[d] => c = d
        /\ at[c] = "binding" => Requested(conn[c].request) \in held[c]

InUseInv ==
    /\ Reserved \subseteq inUse
    /\ \A t \in tasks : t.port \in inUse
    /\ \A p \in inUse : \/ p \in Reserved
                        \/ \E t \in tasks : t.port = p
                        \/ \E c \in Conns : p \in held[c]

PortInv == HeldInv /\ InUseInv /\ PortExclusive

-----------------------------------------------------------------------------
\* A walk through the pool stays in the pool, wherever it starts and stops.
LEMMA WalkInSpan ==
    ASSUME AllocTypeOK, NEW i \in Nat
    PROVE  Walk(i) \in SpanFirst..SpanLast
<1>1. /\ SpanLen \in Nat /\ SpanLen > 0
      /\ cursor - SpanFirst + i \in Nat
  BY SpanAssumption DEF AllocTypeOK, SpanLen
<1>2. (cursor - SpanFirst + i) % SpanLen \in 0..(SpanLen - 1)
  BY <1>1
<1>3. QED
  BY <1>1, <1>2, SpanAssumption DEF Walk, SpanLen

\* What claim_dynamic hands out is a port of the pool that nobody had, and it leaves
\* the cursor in the pool.
LEMMA ClaimDynamicFree ==
    ASSUME AllocTypeOK, NEW kind \in Kinds, NEW port, ClaimDynamic(kind, port)
    PROVE  /\ port \in Port /\ port \notin inUse
           /\ inUse' = inUse \cup {port}
           /\ cursor' \in SpanFirst..SpanLast
<1>1. PICK i \in FreeSlots(kind) : /\ port = Slot(i, kind)
                                   /\ inUse' = inUse \cup {port}
                                   /\ cursor' = Walk(i + 1)
  BY DEF ClaimDynamic
<1>2. i \in Nat /\ i + 1 \in Nat
  BY <1>1, SpanAssumption DEF FreeSlots, SpanLen
<1>3. Walk(i) \in SpanFirst..SpanLast /\ Walk(i + 1) \in SpanFirst..SpanLast
  BY <1>2, WalkInSpan
<1>4. port \in Port
  BY <1>1, <1>3, SpanAssumption DEF Slot, Port
<1>5. QED
  BY <1>1, <1>3, <1>4 DEF FreeSlots

\* Stopping services changes the state of their sockets, and nothing else of a task.
LEMMA StopKeepsPorts ==
    ASSUME NEW c, NEW bs, tasks \in SUBSET Task, StopServices(c, bs)
    PROVE  /\ tasks' \in SUBSET Task
           /\ \A t \in tasks' : \E u \in tasks : t.port = u.port
           /\ \A u \in tasks : \E t \in tasks' : t.port = u.port
           /\ PortExclusive => PortExclusive'
<1> DEFINE f(t) == IF t.conn = c /\ t.socket = "open" /\ \E b \in bs : b.id = t.id
                     THEN [t EXCEPT !.socket = "stopping"] ELSE t
<1>1. tasks' = {f(t) : t \in tasks}
  BY DEF StopServices
<1>2. \A t \in Task : f(t) \in Task /\ f(t).port = t.port
  BY DEF Task
<1> HIDE DEF f
<1>3. QED
  BY <1>1, <1>2 DEF PortExclusive, Reserved

-----------------------------------------------------------------------------
\* The initial state is well typed, with nothing requested.
LEMMA InitTypeInv == Init => TypeInv
<1> SUFFICES ASSUME Init PROVE TypeInv
  OBVIOUS
<1>1. NewConn \in Conn
  BY SessionAssumption DEF NewConn, Conn, Given, Reply
<1>2. AllocTypeOK
  BY SpanAssumption DEF Init, AllocInit, AllocTypeOK, Reserved, Port
<1>3. /\ at \in [Conns -> Location] /\ conn \in [Conns -> Conn]
      /\ sessions \in [Keys -> Conns \cup {NoConn}]
      /\ held \in [Conns -> SUBSET Port]
  BY <1>1 DEF Init, Location, BeforeClaim
<1>4. /\ policy \in Policies /\ reloads \in 0..MaxReloads
      /\ tasks \in SUBSET Task /\ overdue \in SUBSET Keys
  BY SessionAssumption DEF Init
<1>5. serverCancel \in BOOLEAN
  BY DEF Init
<1>6. RequestInv
  BY DEF Init, RequestInv
<1>7. QED
  BY <1>2, <1>3, <1>4, <1>5, <1>6 DEF TypeInv, TypeOK

\* A connection that moves to a location with a well-typed state of its task leaves
\* the rest of the connections as they are.
LEMMA MoveTyped ==
    ASSUME TypeInv, NEW c \in Conns, NEW l \in Location, NEW r \in Conn,
           Goto(c, l), Become(c, r),
           l \in {"opening", "binding", "freeing"} => r.request \in Request,
           l \in {"opening", "binding"} => r.lastId < MaxId
    PROVE  at' \in [Conns -> Location] /\ conn' \in [Conns -> Conn] /\ RequestInv'
BY DEF TypeInv, TypeOK, Goto, Become, RequestInv

\* The same for a move alone, to a place where no bind is in progress.
LEMMA GotoTyped ==
    ASSUME TypeInv, NEW c \in Conns, NEW l \in Location, Goto(c, l), UNCHANGED conn,
           l \notin {"opening", "binding", "freeing"}
    PROVE  at' \in [Conns -> Location] /\ conn' \in [Conns -> Conn] /\ RequestInv'
BY DEF TypeInv, TypeOK, Goto, RequestInv

\* The loop that breaks leaves a well-typed state.
LEMMA EndTyped ==
    ASSUME TypeInv, NEW c \in Conns, End(c)
    PROVE  TypeInv'
<1> DEFINE r == [conn[c] EXCEPT !.services = {}, !.pending = {}, !.reply = "answer",
                                !.request = NoRequest]
<1>1. r \in Conn
  <2>1. conn[c] \in Conn
    BY DEF TypeInv, TypeOK
  <2>2. QED
    BY <2>1 DEF Conn, Reply
<1>2. Goto(c, "leaving") /\ Become(c, r)
  BY DEF End
<1>3. at' \in [Conns -> Location] /\ conn' \in [Conns -> Conn] /\ RequestInv'
  <2>1. "leaving" \in Location
    BY DEF Location, HoldsClaim, Welcomed
  <2> HIDE DEF r
  <2>2. QED
    BY <1>1, <1>2, <2>1, MoveTyped
<1>4. tasks' \in SUBSET Task
  BY StopKeepsPorts DEF End, TypeInv, TypeOK
<1>5. QED
  BY <1>3, <1>4 DEF End, TypeInv, TypeOK, AllocTypeOK, world

\* An answer takes the connection on to the sending of it.
LEMMA AnswerTyped ==
    ASSUME TypeInv, NEW c \in Conns, NEW m \in Reply, Answer(c, m)
    PROVE  at' \in [Conns -> Location] /\ conn' \in [Conns -> Conn] /\ RequestInv'
<1> DEFINE r == [conn[c] EXCEPT !.reply = m, !.request = NoRequest]
<1>1. r \in Conn
  <2>1. conn[c] \in Conn
    BY DEF TypeInv, TypeOK
  <2>2. QED
    BY <2>1 DEF Conn
<1>2. "replying" \in Location
  BY DEF Location, HoldsClaim, Welcomed, InLoop
<1>3. Goto(c, "replying") /\ Become(c, r)
  BY DEF Answer
<1> HIDE DEF r
<1>4. QED
  BY <1>1, <1>2, <1>3, MoveTyped

\* So does the end of a claim.
LEMMA SignalDoneTyped ==
    ASSUME TypeInv, NEW c \in Conns, SignalDone(c)
    PROVE  at' \in [Conns -> Location] /\ conn' \in [Conns -> Conn] /\ RequestInv'
<1> DEFINE r == [conn[c] EXCEPT !.done = TRUE]
<1>1. r \in Conn
  <2>1. conn[c] \in Conn
    BY DEF TypeInv, TypeOK
  <2>2. QED
    BY <2>1 DEF Conn
<1>2. "dropping" \in Location
  BY DEF Location, Ended
<1>3. Goto(c, "dropping") /\ Become(c, r)
  BY DEF SignalDone
<1> HIDE DEF r
<1>4. QED
  BY <1>1, <1>2, <1>3, MoveTyped

\* Every step keeps the state well typed, with the request of a bind in hand.
LEMMA NextTypeInv == TypeInv /\ [Next]_vars => TypeInv'
<1> SUFFICES ASSUME TypeInv, [Next]_vars PROVE TypeInv'
  OBVIOUS
<1> DEFINE Moved == at' \in [Conns -> Location] /\ conn' \in [Conns -> Conn] /\ RequestInv'
<1>c. \A c \in Conns : conn[c] \in Conn /\ KeyOf[c] \in Keys
  BY SessionAssumption DEF TypeInv, TypeOK
<1>g. \A k \in Keys : policy[k] \in Grant \cup {NoGrant}
  <2> TAKE k \in Keys
  <2>1. policy[k] \in {policy[j] : j \in Keys} /\ policy \in Policies
    BY DEF TypeInv, TypeOK
  <2>2. {policy[j] : j \in Keys} \in {{q[j] : j \in Keys} : q \in Policies}
    BY <2>1, Zenon
  <2>3. policy[k] \in UNION {{q[j] : j \in Keys} : q \in Policies}
    BY <2>1, <2>2, Zenon
  <2>4. QED
    BY <2>3, Zenon DEF Grant
<1>l. Location = {"absent", "greeting", "lookup", "denied", "staking", "cancelling",
                  "superseding", "welcoming", "serving", "opening", "binding",
                  "freeing", "replying", "leaving", "dropping", "lingering", "closed"}
  BY DEF Location, BeforeClaim, HoldsClaim, Waiting, Welcomed, InLoop, Ended
<1>1. ASSUME NEW c \in Conns, Connect(c) PROVE TypeInv'
  <2>1. Moved
    BY <1>1, <1>l, GotoTyped DEF Connect
  <2>2. QED
    BY <1>1, <1>c, <2>1 DEF Connect, TypeInv, TypeOK, AllocTypeOK, portVars, world
<1>2. ASSUME NEW c \in Conns, CloseUngreeted(c) PROVE TypeInv'
  <2>1. Moved
    BY <1>2, <1>l, GotoTyped DEF CloseUngreeted
  <2>2. QED
    BY <1>2, <1>c, <2>1 DEF CloseUngreeted, TypeInv, TypeOK, AllocTypeOK, portVars, world
<1>3. ASSUME NEW c \in Conns, CloseDenied(c) PROVE TypeInv'
  <2>1. Moved
    BY <1>3, <1>l, GotoTyped DEF CloseDenied
  <2>2. QED
    BY <1>3, <1>c, <2>1 DEF CloseDenied, TypeInv, TypeOK, AllocTypeOK, portVars, world
<1>4. ASSUME NEW c \in Conns, PreviousDone(c) PROVE TypeInv'
  <2>1. Moved
    BY <1>4, <1>l, GotoTyped DEF PreviousDone
  <2>2. QED
    BY <1>4, <1>c, <2>1 DEF PreviousDone, TypeInv, TypeOK, AllocTypeOK, portVars, world
<1>5. ASSUME NEW c \in Conns, SupersedeTimeout(c) PROVE TypeInv'
  <2>1. Moved
    BY <1>5, <1>l, GotoTyped DEF SupersedeTimeout
  <2>2. QED
    BY <1>5, <1>c, <2>1 DEF SupersedeTimeout, TypeInv, TypeOK, AllocTypeOK, portVars, world
<1>6. ASSUME NEW c \in Conns, Welcome(c) PROVE TypeInv'
  <2>1. Moved
    BY <1>6, <1>l, GotoTyped DEF Welcome
  <2>2. QED
    BY <1>6, <1>c, <2>1 DEF Welcome, TypeInv, TypeOK, AllocTypeOK, portVars, world
<1>7. ASSUME NEW c \in Conns, GiveUpKey(c) PROVE TypeInv'
  <2>1. Moved
    BY <1>7, <1>l, GotoTyped DEF GiveUpKey
  <2>2. QED
    BY <1>7, <1>c, <2>1 DEF GiveUpKey, TypeInv, TypeOK, AllocTypeOK, portVars, world
<1>8. ASSUME NEW c \in Conns, CloseTransport(c) PROVE TypeInv'
  <2>1. Moved
    BY <1>8, <1>l, GotoTyped DEF CloseTransport
  <2>2. QED
    BY <1>8, <1>c, <2>1 DEF CloseTransport, TypeInv, TypeOK, AllocTypeOK, portVars, world
<1>9. ASSUME NEW c \in Conns, SupersedeShutdown(c) PROVE TypeInv'
  <2>1. Moved
    BY <1>9, SignalDoneTyped DEF SupersedeShutdown
  <2>2. QED
    BY <1>9, <1>c, <2>1 DEF SupersedeShutdown, TypeInv, TypeOK, AllocTypeOK, portVars, world
<1>10. ASSUME NEW c \in Conns, WelcomeFails(c) PROVE TypeInv'
  <2>1. Moved
    BY <1>10, SignalDoneTyped DEF WelcomeFails
  <2>2. QED
    BY <1>10, <1>c, <2>1 DEF WelcomeFails, TypeInv, TypeOK, AllocTypeOK, portVars, world
<1>11. ASSUME NEW c \in Conns, Leave(c) PROVE TypeInv'
  <2>1. Moved
    BY <1>11, SignalDoneTyped DEF Leave
  <2>2. QED
    BY <1>11, <1>c, <2>1 DEF Leave, TypeInv, TypeOK, AllocTypeOK, portVars, world
<1>12. ASSUME NEW c \in Conns, Stopped(c) PROVE TypeInv'
  BY <1>12, EndTyped DEF Stopped
<1>13. ASSUME NEW c \in Conns, Unresponsive(c) PROVE TypeInv'
  BY <1>13, EndTyped DEF Unresponsive
<1>14. ASSUME NEW c \in Conns, ControlEnds(c) PROVE TypeInv'
  BY <1>14, EndTyped DEF ControlEnds
<1>15. ASSUME NEW c \in Conns, SendFails(c) PROVE TypeInv'
  BY <1>15, EndTyped DEF SendFails
<1>16. ASSUME NEW c \in Conns, Chatter(c) PROVE TypeInv'
  <2>1. Moved
    BY <1>16, AnswerTyped DEF Chatter, Reply
  <2>2. QED
    BY <1>16, <2>1 DEF Chatter, TypeInv, TypeOK, AllocTypeOK, portVars, world
<1>17. ASSUME NEW c \in Conns, Subscribe(c) PROVE TypeInv'
  <2> DEFINE r == [conn[c] EXCEPT !.changed = FALSE]
  <2>1. r \in Conn
    BY <1>17, <1>c DEF Conn
  <2>2. Become(c, r) /\ \E l \in {"lookup"} : Goto(c, l)
    BY <1>17 DEF Subscribe
  <2>3. Moved
    <3> HIDE DEF r
    <3>1. QED
      BY <1>l, <2>1, <2>2, MoveTyped
  <2>4. QED
    BY <1>17, <1>c, <2>3 DEF Subscribe, TypeInv, TypeOK, AllocTypeOK, portVars, world
<1>18. ASSUME NEW c \in Conns, LookUp(c) PROVE TypeInv'
  <2> DEFINE r == [conn[c] EXCEPT !.changed = FALSE, !.grant = policy[KeyOf[c]]]
  <2>1. r \in Conn
    BY <1>18, <1>c, <1>g DEF Conn
  <2>2. Become(c, r) /\ \E l \in {"denied", "staking"} : Goto(c, l)
    BY <1>18 DEF LookUp
  <2>3. Moved
    <3> HIDE DEF r
    <3>1. QED
      BY <1>l, <2>1, <2>2, MoveTyped
  <2>4. QED
    BY <1>18, <1>c, <2>3 DEF LookUp, TypeInv, TypeOK, AllocTypeOK, portVars, world
<1>19. ASSUME NEW c \in Conns, Stake(c) PROVE TypeInv'
  <2> DEFINE r == [conn[c] EXCEPT !.previous = sessions[KeyOf[c]]]
  <2>1. r \in Conn
    BY <1>19, <1>c DEF Conn, TypeInv, TypeOK
  <2>2. Become(c, r) /\ \E l \in {"welcoming", "cancelling"} : Goto(c, l)
    BY <1>19 DEF Stake
  <2>3. Moved
    <3> HIDE DEF r
    <3>1. QED
      BY <1>l, <2>1, <2>2, MoveTyped
  <2>4. QED
    BY <1>19, <1>c, <2>3 DEF Stake, TypeInv, TypeOK, AllocTypeOK, portVars, world
<1>20. ASSUME NEW c \in Conns, ReplyOvertaken(c) PROVE TypeInv'
  <2> DEFINE r == [conn[c] EXCEPT !.reply = "answer"]
  <2>1. r \in Conn
    BY <1>20, <1>c DEF Conn, Reply
  <2>2. Become(c, r) /\ \E l \in {"serving"} : Goto(c, l)
    BY <1>20 DEF ReplyOvertaken
  <2>3. Moved
    <3> HIDE DEF r
    <3>1. QED
      BY <1>l, <2>1, <2>2, MoveTyped
  <2>4. QED
    BY <1>20, <1>c, <2>3 DEF ReplyOvertaken, TypeInv, TypeOK, AllocTypeOK, portVars, world
<1>21. ASSUME NEW c \in Conns, Freed(c) PROVE TypeInv'
  <2> DEFINE r == [conn[c] EXCEPT !.request = NoRequest]
  <2>1. r \in Conn
    BY <1>21, <1>c DEF Conn
  <2>2. Become(c, r) /\ \E l \in {"serving"} : Goto(c, l)
    BY <1>21 DEF Freed
  <2>3. Moved
    <3> HIDE DEF r
    <3>1. QED
      BY <1>l, <2>1, <2>2, MoveTyped
  <2>4. QED
    BY <1>21, <1>c, <2>3 DEF Freed, TypeInv, TypeOK, AllocTypeOK, portVars, world
<1>22. ASSUME NEW c \in Conns, Unwind(c) PROVE TypeInv'
  <2> DEFINE r == [conn[c] EXCEPT !.services = {}, !.done = TRUE]
  <2>1. r \in Conn
    BY <1>22, <1>c DEF Conn
  <2>2. Become(c, r) /\ \E l \in {"dropping"} : Goto(c, l)
    BY <1>22 DEF Unwind
  <2>3. Moved
    <3> HIDE DEF r
    <3>1. QED
      BY <1>l, <2>1, <2>2, MoveTyped
  <2>5. tasks' \in SUBSET Task
    BY <1>22, StopKeepsPorts DEF Unwind, TypeInv, TypeOK
  <2>4. QED
    BY <1>22, <1>c, <2>3, <2>5 DEF Unwind, TypeInv, TypeOK, AllocTypeOK, portVars, world
<1>23. ASSUME NEW c \in Conns, CancelPrevious(c) PROVE TypeInv'
  <2> DEFINE q == conn[c].previous
  <2>1. conn' \in [Conns -> Conn]
    <3>1. CASE q \in Conns
      <4>1. \A d \in Conns : [conn[d] EXCEPT !.cancelled = TRUE] \in Conn
        BY <1>c DEF Conn
      <4>2. QED
        BY <1>23, <3>1, <4>1 DEF CancelPrevious, Become, TypeInv, TypeOK
    <3>2. CASE q \notin Conns
      BY <1>23, <3>2 DEF CancelPrevious, Become, TypeInv, TypeOK
    <3>3. QED
      BY <3>1, <3>2
  <2>2. at' \in [Conns -> Location] /\ \A d \in Conns : at'[d] = IF d = c THEN "superseding" ELSE at[d]
    BY <1>23, <1>l DEF CancelPrevious, Goto, TypeInv, TypeOK
  <2>3. \A d \in Conns : conn'[d].request = conn[d].request /\ conn'[d].lastId = conn[d].lastId
    <3>1. ASSUME NEW d \in Conns PROVE conn'[d] = conn[d] \/ conn'[d] = [conn[d] EXCEPT !.cancelled = TRUE]
      BY <1>23 DEF CancelPrevious, Become, TypeInv, TypeOK
    <3>2. QED
      BY <1>c, <3>1 DEF Conn
  <2>4. RequestInv'
    BY <2>2, <2>3 DEF RequestInv, TypeInv
  <2>5. QED
    BY <1>23, <2>1, <2>2, <2>4 DEF CancelPrevious, TypeInv, TypeOK, AllocTypeOK, portVars, world
<1>24. ASSUME NEW c \in Conns, TakePending(c) PROVE TypeInv'
  <2>0. PICK m \in conn[c].pending :
           Become(c, [conn[c] EXCEPT !.pending = @ \ {m},
                                     !.reply = IF m = "shutdown" THEN m ELSE "answer"])
    BY <1>24 DEF TakePending
  <2> DEFINE w == IF m = "shutdown" THEN m ELSE "answer"
             r == [conn[c] EXCEPT !.pending = @ \ {m}, !.reply = w]
  <2>1. r \in Conn
    <3>1. w \in Reply
      BY DEF Reply
    <3> HIDE DEF w
    <3>2. QED
      BY <1>c, <3>1 DEF Conn
  <2>2. Become(c, r) /\ Goto(c, "replying")
    BY <1>24, <2>0 DEF TakePending
  <2>3. Moved
    <3> HIDE DEF r
    <3>1. QED
      BY <1>l, <2>1, <2>2, MoveTyped
  <2>4. QED
    BY <1>24, <2>3 DEF TakePending, TypeInv, TypeOK, AllocTypeOK, portVars, world
<1>25. ASSUME NEW c \in Conns, Regrant(c) PROVE TypeInv'
  <2> DEFINE new  == policy[KeyOf[c]]
             lost == {b \in conn[c].services : b.fixed /\ b.port \notin new.ports}
             r    == [conn[c] EXCEPT !.changed = FALSE, !.grant = new,
                                     !.services = @ \ lost,
                                     !.pending = {b.name : b \in lost}]
             q    == [conn[c] EXCEPT !.changed = FALSE, !.pending = {"shutdown"}]
  <2>1. r \in Conn /\ q \in Conn
    <3>1. new \in Grant \cup {NoGrant} /\ conn[c].services \in SUBSET Bound
      BY <1>c, <1>g DEF Conn
    <3>2. {b.name : b \in lost} \in SUBSET (Names \cup {"shutdown"})
      BY <3>1 DEF Bound
    <3>3. conn[c].services \ lost \in SUBSET Bound
      BY <3>1
    <3> HIDE DEF new, lost
    <3>4. r \in Conn
      BY <1>c, <3>1, <3>2, <3>3 DEF Conn
    <3>5. q \in Conn
      BY <1>c DEF Conn
    <3>6. QED
      BY <3>4, <3>5
  <2>2. /\ \/ Become(c, r) /\ StopServices(c, lost)
           \/ Become(c, q) /\ UNCHANGED tasks
        /\ at[c] = "serving" /\ UNCHANGED at
    BY <1>25 DEF Regrant
  <2>3. tasks' \in SUBSET Task
    BY <2>2, StopKeepsPorts DEF TypeInv, TypeOK
  <2>4. conn' \in [Conns -> Conn] /\ RequestInv'
    <3> HIDE DEF r, q, lost
    <3>1. QED
      BY <2>1, <2>2 DEF Become, RequestInv, TypeInv, TypeOK
  <2>5. QED
    BY <1>25, <2>3, <2>4 DEF Regrant, TypeInv, TypeOK, AllocTypeOK, world
<1>26. ASSUME NEW c \in Conns, NEW a \in Asks, Bind(c, a) PROVE TypeInv'
  <2>1. CASE Answer(c, "answer") \/ Answer(c, "shutdown")
    <3>1. Moved
      BY <2>1, AnswerTyped DEF Reply
    <3>2. QED
      BY <1>26, <3>1 DEF Bind, TypeInv, TypeOK, AllocTypeOK, portVars, world
  <2>2. CASE IdsLeft(c) /\ Become(c, [conn[c] EXCEPT !.request = a]) /\ Goto(c, "opening")
    <3> DEFINE r == [conn[c] EXCEPT !.request = a]
    <3>1. r \in Conn /\ r.request \in Request /\ r.lastId < MaxId
      BY <1>c, <2>2, SessionAssumption DEF Conn, IdsLeft
    <3>2. Become(c, r) /\ Goto(c, "opening")
      BY <2>2
    <3>3. Moved
      <4> HIDE DEF r
      <4>1. QED
        BY <1>l, <3>1, <3>2, MoveTyped
    <3>4. QED
      BY <1>26, <3>3 DEF Bind, TypeInv, TypeOK, AllocTypeOK, portVars, world
  <2>3. QED
    BY <1>26, <2>1, <2>2 DEF Bind
<1>27. ASSUME NEW c \in Conns, ClaimFixed(c) PROVE TypeInv'
  <2>1. conn[c].request \in Request
    BY <1>27 DEF ClaimFixed, TypeInv, RequestInv
  <2>2. Requested(conn[c].request) \in Port
    BY <2>1 DEF Requested, Port, Request
  <2>3. /\ inUse' \in SUBSET Port /\ held' \in [Conns -> SUBSET Port]
        /\ cursor' \in SpanFirst..SpanLast
    BY <1>27, <2>2 DEF ClaimFixed, Claim, TypeInv, TypeOK, AllocTypeOK
  <2>4. at' \in [Conns -> Location] /\ RequestInv'
    BY <1>27, <1>l, <2>1 DEF ClaimFixed, Goto, RequestInv, TypeInv, TypeOK
  <2>5. QED
    BY <1>27, <2>3, <2>4 DEF ClaimFixed, TypeInv, TypeOK, AllocTypeOK, world
<1>28. ASSUME NEW c \in Conns, ClaimFromPool(c) PROVE TypeInv'
  <2> DEFINE a == conn[c].request
  <2>1. a \in Request /\ conn[c].lastId < MaxId
    BY <1>28 DEF ClaimFromPool, TypeInv, RequestInv
  <2>2. PICK port \in Port : /\ ClaimDynamic(a.kind, port)
                             /\ held' = [held EXCEPT ![c] = @ \cup {port}]
                             /\ Become(c, [conn[c] EXCEPT !.request.number = port.number])
    BY <1>28 DEF ClaimFromPool
  <2>3. inUse' \in SUBSET Port /\ cursor' \in SpanFirst..SpanLast
    <3>1. a.kind \in Kinds
      BY <2>1 DEF Request
    <3>2. QED
      BY <2>2, <3>1, ClaimDynamicFree DEF TypeInv, TypeOK, AllocTypeOK
  <2>4. held' \in [Conns -> SUBSET Port]
    BY <2>2 DEF TypeInv, TypeOK
  <2> DEFINE q == [a EXCEPT !.number = port.number]
             r == [conn[c] EXCEPT !.request = q]
  <2>5. q \in Request
    BY <2>1 DEF Request, Port
  <2>6. r \in Conn /\ r.request \in Request /\ r.lastId < MaxId
    <3> HIDE DEF q
    <3>1. QED
      BY <1>c, <2>1, <2>5 DEF Conn
  <2>7. Become(c, r) /\ Goto(c, "binding")
    BY <1>28, <2>2 DEF ClaimFromPool
  <2>8. Moved
    <3> HIDE DEF r
    <3>1. QED
      BY <1>l, <2>6, <2>7, MoveTyped
  <2>9. QED
    BY <1>28, <2>3, <2>4, <2>8 DEF ClaimFromPool, TypeInv, TypeOK, AllocTypeOK, world
<1>29. ASSUME NEW c \in Conns, OpenFails(c) PROVE TypeInv'
  <2>1. Moved
    BY <1>29, AnswerTyped DEF OpenFails, Reply
  <2>2. QED
    BY <1>29, <2>1 DEF OpenFails, GiveBack, Release, TypeInv, TypeOK, AllocTypeOK, world
<1>30. ASSUME NEW c \in Conns, HostRefuses(c) PROVE TypeInv'
  <2>1. CASE GiveBack(c) /\ Answer(c, "answer")
    <3>1. Moved
      BY <2>1, AnswerTyped DEF Reply
    <3>2. QED
      BY <1>30, <2>1, <3>1 DEF HostRefuses, GiveBack, Release, TypeInv, TypeOK, AllocTypeOK,
                              world
  <2>2. CASE Goto(c, "opening") /\ UNCHANGED <<cursor, inUse, held, conn>>
    <3>1. Moved
      BY <1>30, <1>l, <2>2 DEF HostRefuses, Goto, RequestInv, TypeInv, TypeOK
    <3>2. QED
      BY <1>30, <2>2, <3>1 DEF HostRefuses, TypeInv, TypeOK, AllocTypeOK, world
  <2>3. QED
    BY <1>30, <2>1, <2>2 DEF HostRefuses
<1>31. ASSUME NEW c \in Conns, HostBinds(c) PROVE TypeInv'
  <2> DEFINE a     == conn[c].request
             port  == Requested(a)
             id    == NextId(c)
             bound == [name |-> a.name, id |-> id, port |-> port, fixed |-> a.fixed]
             given == Append(conn[c].given, id)
             r     == [conn[c] EXCEPT !.lastId = id, !.given = Append(@, id),
                                      !.reply = "answer",
                                      !.request = NoRequest,
                                      !.services = @ \cup {bound}]
  <2>1. a \in Request /\ conn[c].lastId < MaxId
    BY <1>31 DEF HostBinds, TypeInv, RequestInv
  <2>2. port \in Port
    BY <2>1 DEF Requested, Port, Request
  <2>3. id \in 1..MaxId
    BY <1>c, <2>1, SessionAssumption DEF NextId, Conn
  <2>4. bound \in Bound
    BY <2>1, <2>2, <2>3 DEF Bound, Request
  <2>5. Become(c, r) /\ Goto(c, "replying")
    BY <1>31 DEF HostBinds
  <2>6. tasks' \in SUBSET Task
    BY <1>31, <2>2, <2>3 DEF HostBinds, Task, TypeInv, TypeOK
  <2>7. inUse' \in SUBSET Port /\ held' \in [Conns -> SUBSET Port] /\ UNCHANGED cursor
    BY <1>31 DEF HostBinds, Release, TypeInv, TypeOK, AllocTypeOK
  <2>8. Moved
    <3> HIDE DEF bound, id
    <3>0. conn[c].services \cup {bound} \in SUBSET Bound /\ id \in 0..MaxId
      BY <1>c, <2>3, <2>4, SessionAssumption DEF Conn
    <3>g. given \in Given
      BY <1>c, <2>3 DEF Conn, Given
    <3>x. r = [conn[c] EXCEPT !.lastId = id, !.given = given, !.reply = "answer",
                              !.request = NoRequest, !.services = @ \cup {bound}]
      BY <1>c DEF Conn
    <3> HIDE DEF given, r
    <3>1. r \in Conn
      BY <1>c, <3>0, <3>g, <3>x DEF Conn, Reply
    <3>2. QED
      BY <1>l, <2>5, <3>1, MoveTyped
  <2>9. QED
    BY <1>31, <2>6, <2>7, <2>8 DEF HostBinds, TypeInv, TypeOK, AllocTypeOK, world
<1>32. ASSUME NEW c \in Conns, NEW b, Unbind(c, b) PROVE TypeInv'
  <2> DEFINE r == [conn[c] EXCEPT !.services = @ \ {b}, !.request = AskedFor(b)]
  <2>1. b \in Bound
    BY <1>32, <1>c DEF Unbind, Conn
  <2>2. AskedFor(b) \in Request
    BY <2>1 DEF AskedFor, Bound, Request, Port
  <2>3. r \in Conn /\ r.request \in Request
    BY <1>c, <2>2 DEF Conn
  <2>4. Become(c, r) /\ Goto(c, "freeing")
    BY <1>32 DEF Unbind
  <2>5. Moved
    <3> HIDE DEF r
    <3>1. QED
      BY <1>l, <2>3, <2>4, MoveTyped
  <2>6. tasks' \in SUBSET Task
    BY <1>32, StopKeepsPorts DEF Unbind, TypeInv, TypeOK
  <2>7. QED
    BY <1>32, <2>5, <2>6 DEF Unbind, TypeInv, TypeOK, AllocTypeOK, world
<1>33. ASSUME NEW c \in Conns, SendReply(c) PROVE TypeInv'
  <2>1. CASE End(c)
    BY <2>1, EndTyped
  <2>2. CASE Goto(c, "serving") /\ UNCHANGED <<portVars, sessions, conn, overdue, world>>
    <3>1. Moved
      BY <2>2, <1>l, GotoTyped
    <3>2. QED
      BY <2>2, <3>1 DEF TypeInv, TypeOK, AllocTypeOK, portVars, world
  <2>3. QED
    BY <1>33, <2>1, <2>2 DEF SendReply
<1>34. ASSUME NEW t \in tasks, CloseSocket(t) PROVE TypeInv'
  <2>1. tasks' \in SUBSET Task
    BY <1>34 DEF CloseSocket, Task, TypeInv, TypeOK
  <2>2. QED
    BY <1>34, <2>1 DEF CloseSocket, TypeInv, TypeOK, AllocTypeOK, RequestInv, world
<1>35. ASSUME NEW t \in tasks, ReleasePort(t) PROVE TypeInv'
  BY <1>35 DEF ReleasePort, Release, TypeInv, TypeOK, AllocTypeOK, RequestInv, world
<1>36. ASSUME NEW p \in Policies, Reload(p) PROVE TypeInv'
  <2>1. \A c \in Conns : conn'[c] = [conn[c] EXCEPT !.changed = @ \/ Notified(c)]
    BY <1>36 DEF Reload
  <2>2. \A c \in Conns : [conn[c] EXCEPT !.changed = @ \/ Notified(c)] \in Conn
    <3> TAKE c \in Conns
    <3>1. (conn[c].changed \/ Notified(c)) \in BOOLEAN
      OBVIOUS
    <3>2. QED
      BY <1>c, <3>1, Zenon DEF Conn
  <2>3. conn' \in [Conns -> Conn]
    BY <1>36, <2>1, <2>2 DEF Reload
  <2>4. \A c \in Conns : conn'[c].request = conn[c].request /\ conn'[c].lastId = conn[c].lastId
    BY <1>c, <2>1 DEF Conn
  <2>5. RequestInv'
    BY <1>36, <2>4 DEF Reload, RequestInv, TypeInv
  <2>6. reloads' \in 0..MaxReloads
    BY <1>36, SessionAssumption DEF Reload, TypeInv, TypeOK
  <2>7. QED
    BY <1>36, <2>3, <2>5, <2>6 DEF Reload, TypeInv, TypeOK, AllocTypeOK, portVars
<1>37. ASSUME ShutDown PROVE TypeInv'
  BY <1>37 DEF ShutDown, TypeInv, TypeOK, AllocTypeOK, RequestInv, portVars
<1>38. ASSUME UNCHANGED vars PROVE TypeInv'
  BY <1>38 DEF vars, TypeInv, TypeOK, AllocTypeOK, RequestInv
<1>q. QED
  BY <1>1, <1>2, <1>3, <1>4, <1>5, <1>6, <1>7, <1>8, <1>9, <1>10, <1>11, <1>12,
     <1>13, <1>14, <1>15, <1>16, <1>17, <1>18, <1>19, <1>20, <1>21, <1>22,
     <1>23, <1>24, <1>25, <1>26, <1>27, <1>28, <1>29, <1>30, <1>31, <1>32,
     <1>33, <1>34, <1>35, <1>36, <1>37, <1>38
     DEF Next, Greet, Settle, Close, Hear, Open, Break, Turn, Finished

\* Every state a server reaches is well typed: no location, grant, id, port or
\* task outside its type, whatever the clients, the host and the operator do.
THEOREM TypeCorrect == Spec => []TypeOK
<1>1. TypeInv => TypeOK
  BY DEF TypeInv
<1>2. QED
  BY <1>1, InitTypeInv, NextTypeInv, PTL DEF Spec

-----------------------------------------------------------------------------
(***************************************************************************)
(* Port exclusivity.  Only six actions touch the allocator, the ports held *)
(* or the set of tasks; every other step is one of the two lemmas below.   *)
(***************************************************************************)
\* A step that leaves the claims alone, and at most stops services, keeps the port
\* invariant, provided that no bind in progress changes what it is after.
LEMMA PortsUntouched ==
    ASSUME TypeInv, PortInv, UNCHANGED <<inUse, held>>,
           tasks' = tasks \/ \E c \in Conns : \E bs : StopServices(c, bs),
           \A d \in Conns : at'[d] = "binding" =>
               at[d] = "binding" /\ conn'[d].request = conn[d].request
    PROVE  PortInv'
<1>1. /\ \A t \in tasks' : \E u \in tasks : t.port = u.port
      /\ \A u \in tasks : \E t \in tasks' : t.port = u.port
      /\ PortExclusive'
  <2>1. CASE tasks' = tasks
    BY <2>1 DEF PortInv, PortExclusive, Reserved
  <2>2. CASE \E c \in Conns : \E bs : StopServices(c, bs)
    BY <2>2, StopKeepsPorts DEF PortInv, TypeInv, TypeOK
  <2>3. QED
    BY <2>1, <2>2
<1>2. HeldInv'
  <2>1. \A c \in Conns : at'[c] = "binding" => Requested(conn[c].request)' \in held'[c]
    BY DEF PortInv, HeldInv, Requested
  <2>2. QED
    BY <1>1, <2>1 DEF PortInv, HeldInv, Reserved
<1>3. InUseInv'
  BY <1>1 DEF PortInv, InUseInv, Reserved
<1>4. QED
  BY <1>1, <1>2, <1>3 DEF PortInv

\* The same for a connection that moves on, other than to the bind of a claimed port.
LEMMA MoveKeepsPorts ==
    ASSUME TypeInv, PortInv, NEW c \in Conns, NEW l, Goto(c, l), l # "binding",
           UNCHANGED conn \/ \E r : Become(c, r), UNCHANGED <<inUse, held>>,
           tasks' = tasks \/ \E bs : StopServices(c, bs)
    PROVE  PortInv'
<1>1. \A d \in Conns : at'[d] = "binding" =>
          at[d] = "binding" /\ conn'[d].request = conn[d].request
  BY DEF Goto, Become, TypeInv, TypeOK
<1>2. QED
  BY <1>1, PortsUntouched

\* A claim of a port nobody had goes to the connection that made it.
LEMMA ClaimKeepsPorts ==
    ASSUME TypeInv, PortInv, NEW c \in Conns, NEW port, port \notin inUse,
           inUse' = inUse \cup {port}, held' = [held EXCEPT ![c] = @ \cup {port}],
           UNCHANGED tasks,
           \A d \in Conns : at'[d] = "binding" => Requested(conn[d].request)' \in held'[d]
    PROVE  PortInv'
<1>1. PortExclusive'
  BY DEF PortInv, PortExclusive, Reserved
<1>2. HeldInv'
  <2>1. \A d \in Conns : held'[d] = IF d = c THEN held[c] \cup {port} ELSE held[d]
    BY DEF TypeInv, TypeOK
  <2>2. \A d \in Conns : port \notin held[d]
    BY DEF PortInv, HeldInv
  <2>3. port \notin Reserved /\ \A t \in tasks : t.port # port
    BY DEF PortInv, InUseInv
  <2>4. QED
    BY <2>1, <2>2, <2>3 DEF PortInv, HeldInv, Reserved
<1>3. InUseInv'
  BY DEF PortInv, InUseInv, Reserved, TypeInv, TypeOK
<1>4. QED
  BY <1>1, <1>2, <1>3 DEF PortInv

\* A bind that fails gives back what it held, and nothing that is anyone else's.
LEMMA GiveBackKeepsPorts ==
    ASSUME TypeInv, PortInv, NEW c \in Conns, GiveBack(c), Answer(c, "answer"),
           UNCHANGED tasks
    PROVE  PortInv'
<1>1. /\ inUse' = inUse \ held[c] /\ held' = [held EXCEPT ![c] = {}]
      /\ Goto(c, "replying") /\ \E r : Become(c, r)
  BY DEF GiveBack, Release, Answer
<1>2. PortExclusive'
  BY DEF PortInv, PortExclusive, Reserved
<1>3. HeldInv'
  <2>1. \A d \in Conns : at'[d] = "binding" => Requested(conn[d].request)' \in held'[d]
    BY <1>1 DEF Goto, Become, PortInv, HeldInv, Requested, TypeInv, TypeOK
  <2>2. QED
    BY <1>1, <2>1 DEF PortInv, HeldInv, Reserved, TypeInv, TypeOK
<1>4. InUseInv'
  BY <1>1 DEF PortInv, HeldInv, InUseInv, Reserved, TypeInv, TypeOK
<1>5. QED
  BY <1>2, <1>3, <1>4 DEF PortInv

\* Every step keeps the port invariant.
LEMMA NextPortInv == TypeInv /\ PortInv /\ [Next]_vars => PortInv'
<1> SUFFICES ASSUME TypeInv, PortInv, [Next]_vars PROVE PortInv'
  OBVIOUS
<1>1. ASSUME NEW c \in Conns, Connect(c) PROVE PortInv'
  BY <1>1, MoveKeepsPorts DEF Connect, portVars
<1>2. ASSUME NEW c \in Conns, CloseUngreeted(c) PROVE PortInv'
  BY <1>2, MoveKeepsPorts DEF CloseUngreeted, portVars
<1>3. ASSUME NEW c \in Conns, CloseDenied(c) PROVE PortInv'
  BY <1>3, MoveKeepsPorts DEF CloseDenied, portVars
<1>4. ASSUME NEW c \in Conns, PreviousDone(c) PROVE PortInv'
  BY <1>4, MoveKeepsPorts DEF PreviousDone, portVars
<1>5. ASSUME NEW c \in Conns, SupersedeTimeout(c) PROVE PortInv'
  BY <1>5, MoveKeepsPorts DEF SupersedeTimeout, portVars
<1>6. ASSUME NEW c \in Conns, Welcome(c) PROVE PortInv'
  BY <1>6, MoveKeepsPorts DEF Welcome, portVars
<1>7. ASSUME NEW c \in Conns, GiveUpKey(c) PROVE PortInv'
  BY <1>7, MoveKeepsPorts DEF GiveUpKey, portVars
<1>8. ASSUME NEW c \in Conns, CloseTransport(c) PROVE PortInv'
  BY <1>8, MoveKeepsPorts DEF CloseTransport, portVars
<1>9. ASSUME NEW c \in Conns, SupersedeShutdown(c) PROVE PortInv'
  BY <1>9, MoveKeepsPorts DEF SupersedeShutdown, SignalDone, portVars
<1>10. ASSUME NEW c \in Conns, WelcomeFails(c) PROVE PortInv'
  BY <1>10, MoveKeepsPorts DEF WelcomeFails, SignalDone, portVars
<1>11. ASSUME NEW c \in Conns, Leave(c) PROVE PortInv'
  BY <1>11, MoveKeepsPorts DEF Leave, SignalDone, portVars
<1>12. ASSUME NEW c \in Conns, Stopped(c) PROVE PortInv'
  BY <1>12, MoveKeepsPorts DEF Stopped, End, portVars
<1>13. ASSUME NEW c \in Conns, Unresponsive(c) PROVE PortInv'
  BY <1>13, MoveKeepsPorts DEF Unresponsive, End, portVars
<1>14. ASSUME NEW c \in Conns, ControlEnds(c) PROVE PortInv'
  BY <1>14, MoveKeepsPorts DEF ControlEnds, End, portVars
<1>15. ASSUME NEW c \in Conns, SendFails(c) PROVE PortInv'
  BY <1>15, MoveKeepsPorts DEF SendFails, End, portVars
<1>16. ASSUME NEW c \in Conns, Chatter(c) PROVE PortInv'
  BY <1>16, MoveKeepsPorts DEF Chatter, Answer, portVars
<1>17. ASSUME NEW c \in Conns, Subscribe(c) PROVE PortInv'
  BY <1>17, MoveKeepsPorts DEF Subscribe, portVars
<1>18. ASSUME NEW c \in Conns, LookUp(c) PROVE PortInv'
  BY <1>18, MoveKeepsPorts DEF LookUp, portVars
<1>19. ASSUME NEW c \in Conns, Stake(c) PROVE PortInv'
  BY <1>19, MoveKeepsPorts DEF Stake, portVars
<1>20. ASSUME NEW c \in Conns, ReplyOvertaken(c) PROVE PortInv'
  BY <1>20, MoveKeepsPorts DEF ReplyOvertaken, portVars
<1>21. ASSUME NEW c \in Conns, Freed(c) PROVE PortInv'
  BY <1>21, MoveKeepsPorts DEF Freed, portVars
<1>22. ASSUME NEW c \in Conns, Unwind(c) PROVE PortInv'
  BY <1>22, MoveKeepsPorts DEF Unwind, portVars
<1>23. ASSUME NEW c \in Conns, TakePending(c) PROVE PortInv'
  BY <1>23, MoveKeepsPorts DEF TakePending, portVars
<1>24. ASSUME NEW c \in Conns, SendReply(c) PROVE PortInv'
  BY <1>24, MoveKeepsPorts DEF SendReply, End, portVars
<1>25. ASSUME NEW c \in Conns, CancelPrevious(c) PROVE PortInv'
  <2>1. \A d \in Conns : conn'[d].request = conn[d].request
    <3>1. \A d \in Conns : conn[d] \in Conn
      BY DEF TypeInv, TypeOK
    <3>2. ASSUME NEW d \in Conns
          PROVE  conn'[d] = conn[d] \/ conn'[d] = [conn[d] EXCEPT !.cancelled = TRUE]
      BY <1>25 DEF CancelPrevious, Become, TypeInv, TypeOK
    <3>3. QED
      BY <3>1, <3>2 DEF Conn
  <2>2. \A d \in Conns : at'[d] = "binding" => at[d] = "binding"
    BY <1>25 DEF CancelPrevious, Goto, TypeInv, TypeOK
  <2>3. QED
    BY <1>25, <2>1, <2>2, PortsUntouched DEF CancelPrevious, portVars
<1>26. ASSUME NEW c \in Conns, Regrant(c) PROVE PortInv'
  <2>1. /\ \E r : Become(c, r)
        /\ tasks' = tasks \/ \E bs : StopServices(c, bs)
        /\ at[c] = "serving" /\ UNCHANGED <<at, inUse, held>>
    BY <1>26 DEF Regrant
  <2>2. \A d \in Conns : at'[d] = "binding" =>
            at[d] = "binding" /\ conn'[d].request = conn[d].request
    BY <2>1 DEF Become, TypeInv, TypeOK
  <2>3. QED
    BY <2>1, <2>2, PortsUntouched
<1>27. ASSUME NEW c \in Conns, NEW a \in Asks, Bind(c, a) PROVE PortInv'
  <2>1. \E l : l # "binding" /\ Goto(c, l)
    BY <1>27 DEF Bind, Answer
  <2>2. QED
    BY <1>27, <2>1, MoveKeepsPorts DEF Bind, Answer, portVars
<1>28. ASSUME NEW c \in Conns, NEW b, Unbind(c, b) PROVE PortInv'
  BY <1>28, MoveKeepsPorts DEF Unbind
<1>29. ASSUME NEW c \in Conns, ClaimFixed(c) PROVE PortInv'
  <2> DEFINE port == Requested(conn[c].request)
  <2>1. /\ port \notin inUse /\ inUse' = inUse \cup {port}
        /\ held' = [held EXCEPT ![c] = @ \cup {port}]
        /\ UNCHANGED <<tasks, conn>> /\ at' = [at EXCEPT ![c] = "binding"]
    BY <1>29 DEF ClaimFixed, Claim, Goto
  <2>2. \A d \in Conns : at'[d] = "binding" => Requested(conn[d].request)' \in held'[d]
    BY <2>1 DEF PortInv, HeldInv, Requested, TypeInv, TypeOK
  <2> HIDE DEF port
  <2>3. QED
    BY <2>1, <2>2, ClaimKeepsPorts
<1>30. ASSUME NEW c \in Conns, ClaimFromPool(c) PROVE PortInv'
  <2> DEFINE a == conn[c].request
  <2>1. PICK port \in Port : /\ ClaimDynamic(a.kind, port)
                             /\ held' = [held EXCEPT ![c] = @ \cup {port}]
                             /\ Become(c, [conn[c] EXCEPT !.request.number = port.number])
    BY <1>30 DEF ClaimFromPool
  <2>2. a \in Request /\ conn[c] \in Conn
    BY <1>30 DEF ClaimFromPool, TypeInv, TypeOK, RequestInv
  <2>3. port \notin inUse /\ inUse' = inUse \cup {port}
    <3>1. a.kind \in Kinds /\ AllocTypeOK
      BY <2>2 DEF Request, TypeInv, TypeOK
    <3>2. QED
      BY <2>1, <3>1, ClaimDynamicFree
  <2>4. port.kind = a.kind
    BY <2>1 DEF ClaimDynamic, Slot
  <2>5. Requested([a EXCEPT !.number = port.number]) = port
    BY <2>2, <2>4 DEF Requested, Request, Port
  <2>6. conn'[c].request = [a EXCEPT !.number = port.number]
    <3>1. conn'[c] = [conn[c] EXCEPT !.request.number = port.number]
      BY <2>1 DEF Become, TypeInv, TypeOK
    <3>2. QED
      BY <2>2, <3>1 DEF Conn
  <2>7. at' = [at EXCEPT ![c] = "binding"] /\ UNCHANGED tasks
    BY <1>30 DEF ClaimFromPool, Goto
  <2>8. \A d \in Conns : at'[d] = "binding" => Requested(conn[d].request)' \in held'[d]
    <3>1. ASSUME NEW d \in Conns, at'[d] = "binding", d # c
          PROVE  Requested(conn[d].request)' \in held'[d]
      BY <2>1, <2>7, <3>1 DEF Become, PortInv, HeldInv, Requested, TypeInv, TypeOK
    <3>2. Requested(conn[c].request)' = port /\ port \in held'[c]
      BY <2>1, <2>5, <2>6 DEF Requested, TypeInv, TypeOK
    <3>3. QED
      BY <3>1, <3>2
  <2>9. QED
    BY <2>1, <2>3, <2>7, <2>8, ClaimKeepsPorts
<1>31. ASSUME NEW c \in Conns, OpenFails(c) PROVE PortInv'
  BY <1>31, GiveBackKeepsPorts DEF OpenFails
<1>32. ASSUME NEW c \in Conns, HostRefuses(c) PROVE PortInv'
  <2>1. CASE GiveBack(c) /\ Answer(c, "answer")
    BY <1>32, <2>1, GiveBackKeepsPorts DEF HostRefuses
  <2>2. CASE Goto(c, "opening") /\ UNCHANGED <<cursor, inUse, held, conn>>
    BY <1>32, <2>2, MoveKeepsPorts DEF HostRefuses
  <2>3. QED
    BY <1>32, <2>1, <2>2 DEF HostRefuses
<1>33. ASSUME NEW c \in Conns, HostBinds(c) PROVE PortInv'
  <2> DEFINE port == Requested(conn[c].request)
             t == [conn |-> c, id |-> NextId(c), port |-> port, socket |-> "open"]
  <2>1. /\ port \in held[c] /\ at[c] = "binding"
        /\ inUse' = inUse \ (held[c] \ {port})
        /\ held' = [held EXCEPT ![c] = {}]
        /\ tasks' = tasks \cup {t} /\ t.port = port
        /\ Goto(c, "replying") /\ \E r : Become(c, r)
    BY <1>33 DEF HostBinds, Release, PortInv, HeldInv
  <2>2. \A d \in Conns : at'[d] = "binding" => Requested(conn[d].request)' \in held'[d]
    BY <2>1 DEF Goto, Become, PortInv, HeldInv, Requested, TypeInv, TypeOK
  <2> HIDE DEF port, t
  <2>3. PortExclusive'
    BY <2>1 DEF PortInv, HeldInv, PortExclusive, Reserved
  <2>4. HeldInv'
    BY <2>1, <2>2 DEF PortInv, HeldInv, Reserved, TypeInv, TypeOK
  <2>5. InUseInv'
    BY <2>1 DEF PortInv, HeldInv, InUseInv, Reserved, TypeInv, TypeOK
  <2>6. QED
    BY <2>3, <2>4, <2>5 DEF PortInv
<1>34. ASSUME NEW t \in tasks, CloseSocket(t) PROVE PortInv'
  <2> DEFINE u == [t EXCEPT !.socket = "closed"]
  <2>1. tasks' = (tasks \ {t}) \cup {u} /\ u.port = t.port
    BY <1>34 DEF CloseSocket, Task, TypeInv, TypeOK
  <2>2. UNCHANGED <<inUse, held, at, conn>>
    BY <1>34 DEF CloseSocket
  <2> HIDE DEF u
  <2>3. PortExclusive'
    BY <2>1 DEF PortInv, PortExclusive, Reserved
  <2>4. HeldInv'
    BY <2>1, <2>2 DEF PortInv, HeldInv, Requested, Reserved
  <2>5. InUseInv'
    BY <2>1, <2>2 DEF PortInv, InUseInv, Reserved
  <2>6. QED
    BY <2>3, <2>4, <2>5 DEF PortInv
<1>35. ASSUME NEW t \in tasks, ReleasePort(t) PROVE PortInv'
  <2>1. /\ inUse' = inUse \ {t.port} /\ tasks' = tasks \ {t}
        /\ UNCHANGED <<held, at, conn>>
    BY <1>35 DEF ReleasePort, Release
  <2>2. PortExclusive'
    BY <2>1 DEF PortInv, PortExclusive, Reserved
  <2>3. HeldInv'
    BY <2>1 DEF PortInv, HeldInv, Requested, Reserved
  <2>4. InUseInv'
    BY <2>1 DEF PortInv, PortExclusive, InUseInv, Reserved
  <2>5. QED
    BY <2>2, <2>3, <2>4 DEF PortInv
<1>36. ASSUME NEW p \in Policies, Reload(p) PROVE PortInv'
  <2>1. \A c \in Conns : conn'[c].request = conn[c].request
    <3>1. \A c \in Conns : conn[c] \in Conn
      BY DEF TypeInv, TypeOK
    <3>2. \A c \in Conns : conn'[c] = [conn[c] EXCEPT !.changed = @ \/ Notified(c)]
      BY <1>36 DEF Reload
    <3>3. QED
      BY <3>1, <3>2 DEF Conn
  <2>2. QED
    BY <1>36, <2>1, PortsUntouched DEF Reload, portVars
<1>37. ASSUME ShutDown PROVE PortInv'
  BY <1>37, PortsUntouched DEF ShutDown, portVars
<1>38. ASSUME UNCHANGED vars PROVE PortInv'
  BY <1>38, PortsUntouched DEF vars
<1>q. QED
  BY <1>1, <1>2, <1>3, <1>4, <1>5, <1>6, <1>7, <1>8, <1>9, <1>10, <1>11, <1>12,
     <1>13, <1>14, <1>15, <1>16, <1>17, <1>18, <1>19, <1>20, <1>21, <1>22, <1>23,
     <1>24, <1>25, <1>26, <1>27, <1>28, <1>29, <1>30, <1>31, <1>32, <1>33, <1>34,
     <1>35, <1>36, <1>37, <1>38
     DEF Next, Greet, Settle, Close, Hear, Open, Break, Turn, Finished

\* At the start only the listen port is in use, and nothing holds or serves a port.
LEMMA InitPortInv == Init => PortInv
BY DEF Init, AllocInit, PortInv, HeldInv, InUseInv, PortExclusive

\* The state is well typed and its ports accounted for, at every moment.
LEMMA PortsAccounted == Spec => [](TypeInv /\ PortInv)
BY InitTypeInv, InitPortInv, NextTypeInv, NextPortInv, PTL DEF Spec

\* No two services have the same public port, from the claim until the socket is
\* closed and the claim released, and none has the port the server listens on:
\* `open' and the listener's release keep the allocator ahead of the sockets.
THEOREM PortsExclusive == Spec => []PortExclusive
<1>1. PortInv => PortExclusive
  BY DEF PortInv
<1>2. QED
  BY <1>1, PortsAccounted, PTL

\* The allocator leaks no port and forgets none, on every path through `open', the
\* listeners' ends and the sessions' ends: what it has in use is exactly the listen
\* port, what the tasks serve and what binds in progress hold.
THEOREM AllocatorAccounts == Spec => []AllocatorExact
<1>1. PortInv => AllocatorExact
  <2> SUFFICES ASSUME PortInv PROVE AllocatorExact
    OBVIOUS
  <2>1. \A p : p \in PortsOf(tasks) <=> \E t \in tasks : t.port = p
    BY DEF PortsOf
  <2>2. \A p : p \in UNION {held[c] : c \in Conns} <=> \E c \in Conns : p \in held[c]
    OBVIOUS
  <2>3. \A p : p \in inUse <=> \/ p \in Reserved
                               \/ \E t \in tasks : t.port = p
                               \/ \E c \in Conns : p \in held[c]
    BY DEF PortInv, HeldInv, InUseInv
  <2> HIDE DEF PortInv
  <2>4. QED
    BY <2>1, <2>2, <2>3, Zenon DEF AllocatorExact
<1>2. QED
  BY <1>1, PortsAccounted, PTL

-----------------------------------------------------------------------------

(***************************************************************************)
(* The services of a session and its tasks.                                *)
(***************************************************************************)
\* A task that takes visitors is that of a service the session still has.
OpenIsServed ==
    \A t \in tasks : t.socket = "open" => \E b \in conn[t.conn].services : b.id = t.id

\* Ids are given in order, so the next one is new.
IdsGiven ==
    /\ \A t \in tasks : t.id <= conn[t.conn].lastId
    /\ \A c \in Conns : \A b, d \in conn[c].services : b.id = d.id => b = d

TasksNamed ==
    /\ \A t, u \in tasks : t.conn = u.conn /\ t.id = u.id => t = u
    /\ \A c \in Conns : \A b \in conn[c].services :
           [conn |-> c, id |-> b.id, port |-> b.port, socket |-> "open"] \in tasks

\* Only a session in its loop has services, and only one past its claim is done.
StageInv ==
    \A c \in Conns : /\ at[c] \notin InLoop => conn[c].services = {}
                     /\ conn[c].done => at[c] \in Ended

LifeInv == OpenIsServed /\ IdsGiven /\ TasksNamed /\ StageInv

(***************************************************************************)
(* What a reload has left a session with, from the lookup of its grant on. *)
(***************************************************************************)
Granting == {"staking", "welcoming"} \cup Waiting \cup InLoop

Honoured(c) ==
    /\ conn[c].grant = policy[KeyOf[c]]
    /\ \A b \in conn[c].services : b.fixed => b.port \in conn[c].grant.ports

GrantInv ==
    \A c \in Conns :
        /\ at[c] \in Granting /\ ~conn[c].changed =>
               \/ "shutdown" \in conn[c].pending \/ conn[c].reply = "shutdown"
               \/ IsCancelled(c) \/ Honoured(c)
        /\ conn[c].reply = "shutdown" => at[c] \in {"replying"} \cup Ended
        /\ at[c] = "binding" /\ conn[c].request.fixed =>
               Requested(conn[c].request) \in conn[c].grant.ports

(***************************************************************************)
(* A session whose key never saw a wait run out leaves no task behind, and *)
(* a stopped one only in a session that waits for just that port.          *)
(***************************************************************************)
LeftInv ==
    \A c \in Conns : KeyOf[c] \notin overdue /\ at[c] \notin Welcomed => TasksOf(c) = {}

FreeingInv ==
    /\ reloads = 0 => \A c \in Conns : ~conn[c].changed
    /\ reloads = 0 => \A t \in tasks :
           \/ KeyOf[t.conn] \in overdue \/ at[t.conn] \notin InLoop
           \/ t.socket = "open"
           \/ at[t.conn] = "freeing" /\ t.port = Requested(conn[t.conn].request)

(***************************************************************************)
(* The sessions that hold a claim on a key stand in a queue, in the order  *)
(* `rank' of their stakes: one that has another before it waits, and for   *)
(* one that stands no further ahead; the map names the last.               *)
(***************************************************************************)
Queued(rank, c, d) ==
    rank[d] < rank[c] =>
        LET p == conn[c].previous
        IN  /\ at[c] \in Waiting
            /\ p \in Conns /\ KeyOf[p] = KeyOf[c] /\ at[p] \in HoldsClaim
            /\ rank[d] <= rank[p] /\ rank[p] < rank[c]

Peers(c) == {d \in Conns : d # c /\ KeyOf[d] = KeyOf[c] /\ at[d] \in HoldsClaim}

InQueue(rank, c) ==
    LET s == sessions[KeyOf[c]]
    IN  /\ \A d \in Peers(c) : rank[d] # rank[c] /\ Queued(rank, c, d)
        /\ s \in Conns /\ at[s] \in HoldsClaim /\ rank[c] <= rank[s]

QueueInv ==
    \E rank \in [Conns -> Nat] : \A c \in Conns :
        at[c] \in HoldsClaim /\ KeyOf[c] \notin overdue /\ ~serverCancel
            => InQueue(rank, c)
-----------------------------------------------------------------------------
(***************************************************************************)
(* What the steps with more than one effect do, field by field.            *)
(***************************************************************************)
Lost(c) == {b \in conn[c].services : b.fixed /\ b.port \notin policy[KeyOf[c]].ports}

Regranted(c) ==
    /\ at[c] = "serving" /\ conn[c].changed /\ UNCHANGED at
    /\ \A d \in Conns : d # c => conn'[d] = conn[d]
    /\ ~conn'[c].changed
    /\ conn'[c].previous = conn[c].previous /\ conn'[c].cancelled = conn[c].cancelled
    /\ conn'[c].done = conn[c].done /\ conn'[c].lastId = conn[c].lastId
    /\ conn'[c].reply = conn[c].reply /\ conn'[c].request = conn[c].request
    /\ \/ /\ conn'[c].services = conn[c].services \ Lost(c)
          /\ conn'[c].grant = policy[KeyOf[c]] /\ StopServices(c, Lost(c))
       \/ /\ conn'[c].services = conn[c].services /\ conn'[c].grant = conn[c].grant
          /\ conn'[c].pending = {"shutdown"} /\ UNCHANGED tasks

\* A session takes a reload up: it loses the fixed ports it is no longer granted, or it
\* has its end to send.
LEMMA RegrantEffect ==
    ASSUME TypeInv, NEW c \in Conns, Regrant(c)
    PROVE  Regranted(c)
<1> DEFINE names == {b.name : b \in Lost(c)}
           r == [conn[c] EXCEPT !.changed = FALSE, !.grant = policy[KeyOf[c]],
                                !.services = @ \ Lost(c), !.pending = names]
           q == [conn[c] EXCEPT !.changed = FALSE, !.pending = {"shutdown"}]
<1>1. /\ \/ Become(c, r) /\ StopServices(c, Lost(c))
         \/ Become(c, q) /\ UNCHANGED tasks
      /\ at[c] = "serving" /\ conn[c].changed /\ UNCHANGED at
  BY DEF Regrant, Lost
<1>2. conn[c] \in Conn /\ conn \in [Conns -> Conn]
  BY DEF TypeInv, TypeOK
<1> HIDE DEF names
<1>3. /\ ~r.changed /\ r.services = conn[c].services \ Lost(c) /\ r.grant = policy[KeyOf[c]]
      /\ r.previous = conn[c].previous /\ r.cancelled = conn[c].cancelled
      /\ r.done = conn[c].done /\ r.lastId = conn[c].lastId
      /\ r.reply = conn[c].reply /\ r.request = conn[c].request
  BY <1>2 DEF Conn
<1>4. /\ ~q.changed /\ q.services = conn[c].services /\ q.grant = conn[c].grant
      /\ q.pending = {"shutdown"}
      /\ q.previous = conn[c].previous /\ q.cancelled = conn[c].cancelled
      /\ q.done = conn[c].done /\ q.lastId = conn[c].lastId
      /\ q.reply = conn[c].reply /\ q.request = conn[c].request
  BY <1>2 DEF Conn
<1> HIDE DEF r, q
<1>5. QED
  BY <1>1, <1>2, <1>3, <1>4 DEF Become, Regranted

Reloaded(p) ==
    /\ policy' = p /\ reloads' = reloads + 1
    /\ UNCHANGED <<tasks, inUse, held, at, sessions, serverCancel, overdue>>
    /\ \A c \in Conns :
           /\ conn'[c].changed = (conn[c].changed \/ Notified(c))
           /\ conn'[c].grant = conn[c].grant /\ conn'[c].previous = conn[c].previous
           /\ conn'[c].cancelled = conn[c].cancelled /\ conn'[c].done = conn[c].done
           /\ conn'[c].services = conn[c].services /\ conn'[c].lastId = conn[c].lastId
           /\ conn'[c].pending = conn[c].pending /\ conn'[c].reply = conn[c].reply
           /\ conn'[c].request = conn[c].request

\* A reload changes nothing of a session but that it may have news.
LEMMA ReloadEffect ==
    ASSUME TypeInv, NEW p \in Policies, Reload(p)
    PROVE  Reloaded(p)
<1>1. \A c \in Conns : conn[c] \in Conn
  BY DEF TypeInv, TypeOK
<1>2. \A c \in Conns : conn'[c] = [conn[c] EXCEPT !.changed = @ \/ Notified(c)]
  BY DEF Reload
<1>3. QED
  BY <1>1, <1>2 DEF Reload, Reloaded, portVars, Conn

Served(c) ==
    \E t, b :
    /\ t = [conn |-> c, id |-> conn[c].lastId + 1,
            port |-> Requested(conn[c].request), socket |-> "open"]
    /\ b.id = t.id /\ b.port = t.port /\ b.fixed = conn[c].request.fixed
    /\ tasks' = tasks \cup {t}
    /\ at[c] = "binding" /\ at' = [at EXCEPT ![c] = "replying"]
    /\ \A d \in Conns : d # c => conn'[d] = conn[d]
    /\ conn'[c].services = conn[c].services \cup {b}
    /\ conn'[c].lastId = conn[c].lastId + 1 /\ conn'[c].reply = "answer"
    /\ conn'[c].grant = conn[c].grant /\ conn'[c].changed = conn[c].changed
    /\ conn'[c].previous = conn[c].previous /\ conn'[c].cancelled = conn[c].cancelled
    /\ conn'[c].done = conn[c].done /\ conn'[c].pending = conn[c].pending

\* A service that is bound has a new id, and its task runs.
LEMMA HostBindsEffect ==
    ASSUME TypeInv, NEW c \in Conns, HostBinds(c)
    PROVE  Served(c)
<1> DEFINE t == [conn |-> c, id |-> conn[c].lastId + 1,
                 port |-> Requested(conn[c].request), socket |-> "open"]
           b == [name |-> conn[c].request.name, id |-> conn[c].lastId + 1,
                 port |-> Requested(conn[c].request), fixed |-> conn[c].request.fixed]
           r == [conn[c] EXCEPT !.lastId = conn[c].lastId + 1,
                                !.given = Append(@, conn[c].lastId + 1), !.reply = "answer",
                                !.request = NoRequest, !.services = @ \cup {b}]
<1>1. /\ tasks' = tasks \cup {t} /\ Become(c, r)
      /\ at[c] = "binding" /\ Goto(c, "replying")
  BY DEF HostBinds, NextId
<1>2. conn[c] \in Conn /\ conn \in [Conns -> Conn]
  BY DEF TypeInv, TypeOK
<1>3. b.id = t.id /\ b.port = t.port /\ b.fixed = conn[c].request.fixed
  OBVIOUS
<1> HIDE DEF b
<1>4. /\ r.services = conn[c].services \cup {b} /\ r.lastId = conn[c].lastId + 1
      /\ r.reply = "answer"
      /\ r.grant = conn[c].grant /\ r.changed = conn[c].changed
      /\ r.previous = conn[c].previous /\ r.cancelled = conn[c].cancelled
      /\ r.done = conn[c].done /\ r.pending = conn[c].pending
  BY <1>2 DEF Conn
<1> HIDE DEF r
<1>5. QED
  BY <1>1, <1>2, <1>3, <1>4 DEF Become, Goto, Served

Superseded(c) ==
    /\ at[c] = "cancelling" /\ at' = [at EXCEPT ![c] = "superseding"]
    /\ UNCHANGED <<tasks, inUse, held, sessions, overdue, policy, reloads, serverCancel>>
    /\ \A d \in Conns :
           /\ conn[d].cancelled \/ d = conn[c].previous => conn'[d].cancelled
           /\ conn'[d].grant = conn[d].grant /\ conn'[d].changed = conn[d].changed
           /\ conn'[d].previous = conn[d].previous /\ conn'[d].done = conn[d].done
           /\ conn'[d].services = conn[d].services /\ conn'[d].lastId = conn[d].lastId
           /\ conn'[d].pending = conn[d].pending /\ conn'[d].reply = conn[d].reply
           /\ conn'[d].request = conn[d].request

\* A session tells the one before it to stop.
LEMMA CancelPreviousEffect ==
    ASSUME TypeInv, NEW c \in Conns, CancelPrevious(c)
    PROVE  Superseded(c)
<1>1. \A d \in Conns : conn[d] \in Conn
  BY DEF TypeInv, TypeOK
<1>2. \A d \in Conns : conn'[d] = IF d = conn[c].previous
                                    THEN [conn[d] EXCEPT !.cancelled = TRUE] ELSE conn[d]
  BY DEF CancelPrevious, Become, TypeInv, TypeOK
<1>3. ASSUME NEW d \in Conns
      PROVE  /\ conn[d].cancelled \/ d = conn[c].previous => conn'[d].cancelled
             /\ conn'[d].grant = conn[d].grant /\ conn'[d].changed = conn[d].changed
             /\ conn'[d].previous = conn[d].previous /\ conn'[d].done = conn[d].done
             /\ conn'[d].services = conn[d].services /\ conn'[d].lastId = conn[d].lastId
             /\ conn'[d].pending = conn[d].pending /\ conn'[d].reply = conn[d].reply
             /\ conn'[d].request = conn[d].request
  <2>1. CASE d = conn[c].previous
    <3>1. conn[d] \in Conn /\ conn'[d] = [conn[d] EXCEPT !.cancelled = TRUE]
      BY <1>1, <1>2, <2>1
    <3>2. QED
      BY <2>1, <3>1 DEF Conn
  <2>2. CASE d # conn[c].previous
    BY <1>2, <2>2
  <2>3. QED
    BY <2>1, <2>2
<1>4. QED
  BY <1>3 DEF Superseded, CancelPrevious, Goto, portVars, world

-----------------------------------------------------------------------------
\* A session that gives services up and stops them keeps the others and their tasks.
LEMMA StopKeepsServices ==
    ASSUME TypeInv, LifeInv, NEW c \in Conns, NEW bs \in SUBSET conn[c].services,
           StopServices(c, bs), conn'[c].services = conn[c].services \ bs,
           conn'[c].lastId = conn[c].lastId,
           \A d \in Conns : d # c => conn'[d] = conn[d]
    PROVE  OpenIsServed' /\ IdsGiven' /\ TasksNamed'
<1> DEFINE hit(t) == t.conn = c /\ t.socket = "open" /\ \E b \in bs : b.id = t.id
           f(t) == IF hit(t) THEN [t EXCEPT !.socket = "stopping"] ELSE t
<1>1. tasks' = {f(t) : t \in tasks} /\ tasks \subseteq Task
  BY DEF StopServices, TypeInv, TypeOK
<1>2. ASSUME NEW t \in Task
      PROVE  /\ f(t).conn = t.conn /\ f(t).id = t.id /\ t.conn \in Conns
             /\ hit(t) => f(t).socket = "stopping"
             /\ ~hit(t) => f(t) = t
  BY DEF Task
<1> HIDE DEF f
<1>3. \A d \in Conns : /\ conn'[d].services \subseteq conn[d].services
                       /\ conn'[d].lastId = conn[d].lastId
  OBVIOUS
<1>4. IdsGiven'
  BY <1>1, <1>2, <1>3 DEF LifeInv, IdsGiven
<1>5. OpenIsServed'
  <2> SUFFICES ASSUME NEW t \in tasks', t.socket = "open"
               PROVE  \E b \in conn'[t.conn].services : b.id = t.id
    BY DEF OpenIsServed
  <2>1. t \in tasks /\ t \in Task /\ ~hit(t)
    BY <1>1, <1>2
  <2>2. PICK b \in conn[t.conn].services : b.id = t.id
    BY <2>1 DEF LifeInv, OpenIsServed
  <2>3. CASE t.conn = c
    BY <2>1, <2>2, <2>3
  <2>4. CASE t.conn # c
    BY <1>2, <2>1, <2>2, <2>4
  <2>5. QED
    BY <2>3, <2>4
<1>6. \A t, u \in tasks' : t.conn = u.conn /\ t.id = u.id => t = u
  BY <1>1, <1>2 DEF LifeInv, TasksNamed
<1>7. ASSUME NEW d \in Conns, NEW b \in conn'[d].services
      PROVE  [conn |-> d, id |-> b.id, port |-> b.port, socket |-> "open"] \in tasks'
  <2> DEFINE u == [conn |-> d, id |-> b.id, port |-> b.port, socket |-> "open"]
  <2>1. u \in tasks /\ u.conn = d /\ u.id = b.id
    BY <1>3, <1>7 DEF LifeInv, TasksNamed
  <2>2. ~hit(u)
    BY <1>3, <1>7, <2>1 DEF LifeInv, IdsGiven
  <2> HIDE DEF u, hit
  <2>3. u \in tasks'
    BY <1>1, <1>2, <2>1, <2>2
  <2>4. QED
    BY <2>3 DEF u
<1>8. QED
  BY <1>4, <1>5, <1>6, <1>7 DEF TasksNamed

\* A session whose loop breaks has no service left.
LEMMA EndKeepsLife ==
    ASSUME TypeInv, LifeInv, NEW c \in Conns, at[c] \in InLoop, End(c)
    PROVE  LifeInv'
<1>1. conn[c] \in Conn /\ conn \in [Conns -> Conn] /\ at \in [Conns -> Location]
  BY DEF TypeInv, TypeOK
<1>2. /\ StopServices(c, conn[c].services) /\ at' = [at EXCEPT ![c] = "leaving"]
      /\ conn'[c].services = {} /\ conn'[c].lastId = conn[c].lastId
      /\ conn'[c].done = conn[c].done /\ \A d \in Conns : d # c => conn'[d] = conn[d]
  BY <1>1 DEF End, Become, Goto, Conn
<1>3. OpenIsServed' /\ IdsGiven' /\ TasksNamed'
  BY <1>2, StopKeepsServices
<1>4. StageInv'
  BY <1>1, <1>2 DEF LifeInv, StageInv, Ended, InLoop
<1>5. QED
  BY <1>3, <1>4 DEF LifeInv

\* Every step keeps services, ids and tasks together.
LEMMA NextLifeInv == TypeInv /\ LifeInv /\ [Next]_vars => LifeInv'
<1> SUFFICES ASSUME TypeInv, LifeInv, [Next]_vars PROVE LifeInv'
  OBVIOUS
<1> USE DEF LifeInv, OpenIsServed, IdsGiven, TasksNamed, StageInv, TypeInv, TypeOK,
           Goto, Become, Conn, InLoop, Welcomed, HoldsClaim, Ended, Task
<1>1. ASSUME NEW c \in Conns, Connect(c) PROVE LifeInv'
  BY <1>1 DEF Connect, portVars
<1>2. ASSUME NEW c \in Conns, CloseUngreeted(c) PROVE LifeInv'
  BY <1>2 DEF CloseUngreeted, portVars
<1>3. ASSUME NEW c \in Conns, Subscribe(c) PROVE LifeInv'
  BY <1>3 DEF Subscribe, portVars
<1>4. ASSUME NEW c \in Conns, LookUp(c) PROVE LifeInv'
  BY <1>4 DEF LookUp, portVars
<1>5. ASSUME NEW c \in Conns, CloseDenied(c) PROVE LifeInv'
  BY <1>5 DEF CloseDenied, portVars
<1>6. ASSUME NEW c \in Conns, Stake(c) PROVE LifeInv'
  BY <1>6 DEF Stake, portVars
<1>7. ASSUME NEW c \in Conns, CancelPrevious(c) PROVE LifeInv'
  BY <1>7 DEF CancelPrevious, portVars
<1>8. ASSUME NEW c \in Conns, PreviousDone(c) PROVE LifeInv'
  BY <1>8 DEF PreviousDone, portVars
<1>9. ASSUME NEW c \in Conns, SupersedeTimeout(c) PROVE LifeInv'
  BY <1>9 DEF SupersedeTimeout, portVars
<1>10. ASSUME NEW c \in Conns, SupersedeShutdown(c) PROVE LifeInv'
  BY <1>10 DEF SupersedeShutdown, SignalDone, portVars
<1>11. ASSUME NEW c \in Conns, Welcome(c) PROVE LifeInv'
  BY <1>11 DEF Welcome, portVars
<1>12. ASSUME NEW c \in Conns, WelcomeFails(c) PROVE LifeInv'
  BY <1>12 DEF WelcomeFails, SignalDone, portVars
<1>13. ASSUME NEW c \in Conns, GiveUpKey(c) PROVE LifeInv'
  BY <1>13 DEF GiveUpKey, portVars
<1>14. ASSUME NEW c \in Conns, CloseTransport(c) PROVE LifeInv'
  BY <1>14 DEF CloseTransport, portVars
<1>15. ASSUME NEW c \in Conns, Stopped(c) PROVE LifeInv'
  BY <1>15, EndKeepsLife DEF Stopped
<1>16. ASSUME NEW c \in Conns, Unresponsive(c) PROVE LifeInv'
  BY <1>16, EndKeepsLife DEF Unresponsive
<1>17. ASSUME NEW c \in Conns, ControlEnds(c) PROVE LifeInv'
  BY <1>17, EndKeepsLife DEF ControlEnds
<1>18. ASSUME NEW c \in Conns, SendFails(c) PROVE LifeInv'
  BY <1>18, EndKeepsLife DEF SendFails
<1>19. ASSUME NEW c \in Conns, Chatter(c) PROVE LifeInv'
  BY <1>19 DEF Chatter, Answer, portVars
<1>20. ASSUME NEW c \in Conns, TakePending(c) PROVE LifeInv'
  BY <1>20 DEF TakePending, portVars
<1>21. ASSUME NEW c \in Conns, Regrant(c) PROVE LifeInv'
  <2>1. Regranted(c) /\ Lost(c) \in SUBSET conn[c].services
    BY <1>21, RegrantEffect DEF Lost
  <2> HIDE DEF LifeInv, OpenIsServed, IdsGiven, TasksNamed
  <2>2. StageInv'
    BY <2>1 DEF Regranted, LifeInv
  <2>3. CASE conn'[c].services = conn[c].services \ Lost(c) /\ StopServices(c, Lost(c))
    <3>1. OpenIsServed' /\ IdsGiven' /\ TasksNamed'
      BY <2>1, <2>3, StopKeepsServices DEF Regranted
    <3>2. QED
      BY <2>2, <3>1 DEF LifeInv
  <2>4. CASE conn'[c].services = conn[c].services /\ UNCHANGED tasks
    <3>1. \A d \in Conns : /\ conn'[d].services = conn[d].services
                           /\ conn'[d].lastId = conn[d].lastId
      BY <2>1, <2>4 DEF Regranted
    <3>2. OpenIsServed' /\ IdsGiven'
      BY <2>4, <3>1 DEF LifeInv, OpenIsServed, IdsGiven
    <3>3. TasksNamed'
      BY <2>4, <3>1 DEF LifeInv, TasksNamed
    <3>4. QED
      BY <2>2, <3>2, <3>3 DEF LifeInv
  <2>5. QED
    BY <2>1, <2>3, <2>4 DEF Regranted
<1>22. ASSUME NEW c \in Conns, NEW r \in Asks, Bind(c, r) PROVE LifeInv'
  <2>1. CASE \E m \in Reply : Answer(c, m)
    BY <1>22, <2>1 DEF Bind, Answer, portVars
  <2>2. CASE Become(c, [conn[c] EXCEPT !.request = r]) /\ Goto(c, "opening")
    BY <1>22, <2>2 DEF Bind, portVars
  <2>3. QED
    BY <1>22, <2>1, <2>2 DEF Bind, Reply
<1>23. ASSUME NEW c \in Conns, ClaimFixed(c) PROVE LifeInv'
  BY <1>23 DEF ClaimFixed
<1>24. ASSUME NEW c \in Conns, ClaimFromPool(c) PROVE LifeInv'
  BY <1>24 DEF ClaimFromPool
<1>25. ASSUME NEW c \in Conns, OpenFails(c) PROVE LifeInv'
  BY <1>25 DEF OpenFails, Answer
<1>26. ASSUME NEW c \in Conns, HostRefuses(c) PROVE LifeInv'
  <2>1. CASE Answer(c, "answer")
    BY <1>26, <2>1 DEF HostRefuses, Answer
  <2>2. CASE Goto(c, "opening") /\ UNCHANGED conn
    BY <1>26, <2>2 DEF HostRefuses
  <2>3. QED
    BY <1>26, <2>1, <2>2 DEF HostRefuses
<1>27. ASSUME NEW c \in Conns, HostBinds(c) PROVE LifeInv'
  <2>1. PICK t, b :
           /\ t = [conn |-> c, id |-> conn[c].lastId + 1,
                   port |-> Requested(conn[c].request), socket |-> "open"]
           /\ b.id = t.id /\ b.port = t.port
           /\ tasks' = tasks \cup {t} /\ at' = [at EXCEPT ![c] = "replying"]
           /\ \A d \in Conns : d # c => conn'[d] = conn[d]
           /\ conn'[c].services = conn[c].services \cup {b}
           /\ conn'[c].lastId = conn[c].lastId + 1 /\ conn'[c].done = conn[c].done
           /\ at[c] = "binding"
    BY <1>27, HostBindsEffect DEF Served
  <2>2. t.conn = c /\ t.id = conn[c].lastId + 1 /\ t.socket = "open"
    BY <2>1
  <2>3. t = [conn |-> c, id |-> b.id, port |-> b.port, socket |-> "open"]
    BY <2>1
  <2>4. \A d \in Conns : conn[d].lastId \in Nat
    BY SessionAssumption
  <2>5. \A d \in conn[c].services : d.id <= conn[c].lastId
    <3> TAKE d \in conn[c].services
    <3> DEFINE u == [conn |-> c, id |-> d.id, port |-> d.port, socket |-> "open"]
    <3>1. u \in tasks /\ u.id = d.id /\ u.conn = c
      OBVIOUS
    <3>2. QED
      BY <3>1
  <2>6. StageInv'
    BY <2>1
  <2>7. TasksNamed'
    BY <2>1, <2>2, <2>3, <2>4
  <2>8. IdsGiven'
    <3>1. \A u \in tasks' : u.id <= conn'[u.conn].lastId
      BY <2>1, <2>2, <2>4
    <3>2. \A d \in Conns : \A e, g \in conn'[d].services : e.id = g.id => e = g
      BY <2>1, <2>2, <2>4, <2>5
    <3>3. QED
      BY <3>1, <3>2
  <2>9. OpenIsServed'
    BY <2>1, <2>2
  <2>10. QED
    BY <2>6, <2>7, <2>8, <2>9
<1>28. ASSUME NEW c \in Conns, NEW b \in conn[c].services, Unbind(c, b) PROVE LifeInv'
  <2>1. /\ StopServices(c, {b}) /\ at' = [at EXCEPT ![c] = "freeing"]
        /\ conn'[c].services = conn[c].services \ {b} /\ conn'[c].lastId = conn[c].lastId
        /\ \A d \in Conns : d # c => conn'[d] = conn[d]
    BY <1>28 DEF Unbind
  <2>2. StageInv'
    BY <1>28, <2>1 DEF Unbind
  <2> HIDE DEF LifeInv, OpenIsServed, IdsGiven, TasksNamed
  <2>3. OpenIsServed' /\ IdsGiven' /\ TasksNamed'
    BY <2>1, StopKeepsServices
  <2>4. QED
    BY <2>2, <2>3 DEF LifeInv
<1>29. ASSUME NEW c \in Conns, Freed(c) PROVE LifeInv'
  BY <1>29 DEF Freed, portVars
<1>30. ASSUME NEW c \in Conns, SendReply(c) PROVE LifeInv'
  <2>1. CASE End(c)
    BY <1>30, <2>1, EndKeepsLife DEF SendReply
  <2>2. CASE /\ conn[c].reply = "answer" /\ Goto(c, "serving")
             /\ UNCHANGED <<portVars, conn, sessions, overdue, world>>
    BY <1>30, <2>2 DEF SendReply, portVars
  <2>3. QED
    BY <1>30, <2>1, <2>2 DEF SendReply
<1>31. ASSUME NEW c \in Conns, ReplyOvertaken(c) PROVE LifeInv'
  BY <1>31 DEF ReplyOvertaken, portVars
<1>32. ASSUME NEW c \in Conns, Leave(c) PROVE LifeInv'
  BY <1>32 DEF Leave, SignalDone, portVars
<1>33. ASSUME NEW c \in Conns, Unwind(c) PROVE LifeInv'
  <2>1. /\ StopServices(c, conn[c].services) /\ at' = [at EXCEPT ![c] = "dropping"]
        /\ conn'[c].services = {} /\ conn'[c].lastId = conn[c].lastId
        /\ \A d \in Conns : d # c => conn'[d] = conn[d]
    BY <1>33 DEF Unwind
  <2>2. StageInv'
    BY <1>33, <2>1 DEF Unwind
  <2> HIDE DEF LifeInv, OpenIsServed, IdsGiven, TasksNamed
  <2>3. OpenIsServed' /\ IdsGiven' /\ TasksNamed'
    BY <2>1, StopKeepsServices
  <2>4. QED
    BY <2>2, <2>3 DEF LifeInv
<1>34. ASSUME NEW t \in tasks, CloseSocket(t) PROVE LifeInv'
  BY <1>34 DEF CloseSocket
<1>35. ASSUME NEW t \in tasks, ReleasePort(t) PROVE LifeInv'
  BY <1>35 DEF ReleasePort, Release
<1>36. ASSUME NEW p \in Policies, Reload(p) PROVE LifeInv'
  <2>1. Reloaded(p)
    BY <1>36, ReloadEffect
  <2>2. QED
    BY <2>1 DEF Reloaded
<1>37. ASSUME ShutDown PROVE LifeInv'
  BY <1>37 DEF ShutDown, portVars
<1>38. ASSUME UNCHANGED vars PROVE LifeInv'
  BY <1>38 DEF vars
<1>q. QED
  BY <1>1, <1>2, <1>3, <1>4, <1>5, <1>6, <1>7, <1>8, <1>9, <1>10, <1>11, <1>12,
     <1>13, <1>14, <1>15, <1>16, <1>17, <1>18, <1>19, <1>20, <1>21, <1>22, <1>23,
     <1>24, <1>25, <1>26, <1>27, <1>28, <1>29, <1>30, <1>31, <1>32, <1>33, <1>34,
     <1>35, <1>36, <1>37, <1>38
     DEF Next, Greet, Settle, Close, Hear, Open, Break, Turn, Finished

\* Every step leaves each key with one session that was not told to stop.
LEMMA NextOneSession == TypeInv /\ OneSessionPerKey /\ [Next]_vars => OneSessionPerKey'
<1> SUFFICES ASSUME TypeInv, OneSessionPerKey, [Next]_vars PROVE OneSessionPerKey'
  OBVIOUS
<1> USE DEF OneSessionPerKey, TypeInv, TypeOK, Goto, Become, Conn, InLoop, Waiting, Welcomed,
           HoldsClaim, Ended
<1>1. ASSUME NEW c \in Conns, Connect(c) PROVE OneSessionPerKey'
  BY <1>1 DEF Connect, portVars
<1>2. ASSUME NEW c \in Conns, CloseUngreeted(c) PROVE OneSessionPerKey'
  BY <1>2 DEF CloseUngreeted, portVars
<1>3. ASSUME NEW c \in Conns, Subscribe(c) PROVE OneSessionPerKey'
  BY <1>3 DEF Subscribe, portVars
<1>4. ASSUME NEW c \in Conns, LookUp(c) PROVE OneSessionPerKey'
  BY <1>4 DEF LookUp, portVars
<1>5. ASSUME NEW c \in Conns, CloseDenied(c) PROVE OneSessionPerKey'
  BY <1>5 DEF CloseDenied, portVars
<1>6. ASSUME NEW c \in Conns, Stake(c) PROVE OneSessionPerKey'
  <2> DEFINE k == KeyOf[c]
  <2>1. /\ sessions' = [sessions EXCEPT ![k] = c]
        /\ at' = [at EXCEPT ![c] = IF sessions[k] = NoConn THEN "welcoming" ELSE "cancelling"]
        /\ conn'[c].previous = sessions[k] /\ conn'[c].cancelled = conn[c].cancelled
        /\ \A d \in Conns : d # c => conn'[d] = conn[d]
        /\ at[c] = "staking"
    BY <1>6 DEF Stake
  <2>2. ASSUME NEW d \in Conns, at'[d] \in HoldsClaim
        PROVE  \/ sessions'[KeyOf[d]] = d \/ conn'[d].cancelled
               \/ \E e \in Conns : at'[e] = "cancelling" /\ conn'[e].previous = d
    <3>1. CASE d = c
      BY <2>1, <3>1, SessionAssumption
    <3>2. CASE d # c /\ sessions[KeyOf[d]] = d
      BY <2>1, <2>2, <3>2, SessionAssumption
    <3>3. CASE d # c /\ sessions[KeyOf[d]] # d
      BY <2>1, <2>2, <3>3
    <3>4. QED
      BY <3>1, <3>2, <3>3
  <2>3. ASSUME NEW j \in Keys, sessions'[j] # NoConn
        PROVE  KeyOf[sessions'[j]] = j /\ at'[sessions'[j]] \in HoldsClaim \cup {"dropping"}
    BY <2>1, <2>3, SessionAssumption
  <2>4. QED
    BY <2>2, <2>3
<1>7. ASSUME NEW c \in Conns, CancelPrevious(c) PROVE OneSessionPerKey'
  <2>1. Superseded(c)
    BY <1>7, CancelPreviousEffect
  <2>2. QED
    BY <2>1 DEF Superseded
<1>8. ASSUME NEW c \in Conns, PreviousDone(c) PROVE OneSessionPerKey'
  BY <1>8 DEF PreviousDone, portVars
<1>9. ASSUME NEW c \in Conns, SupersedeTimeout(c) PROVE OneSessionPerKey'
  BY <1>9 DEF SupersedeTimeout, portVars
<1>10. ASSUME NEW c \in Conns, SupersedeShutdown(c) PROVE OneSessionPerKey'
  BY <1>10 DEF SupersedeShutdown, SignalDone, portVars
<1>11. ASSUME NEW c \in Conns, Welcome(c) PROVE OneSessionPerKey'
  BY <1>11 DEF Welcome, portVars
<1>12. ASSUME NEW c \in Conns, WelcomeFails(c) PROVE OneSessionPerKey'
  BY <1>12 DEF WelcomeFails, SignalDone, portVars
<1>13. ASSUME NEW c \in Conns, GiveUpKey(c) PROVE OneSessionPerKey'
  BY <1>13 DEF GiveUpKey, portVars
<1>14. ASSUME NEW c \in Conns, CloseTransport(c) PROVE OneSessionPerKey'
  BY <1>14 DEF CloseTransport, portVars
<1>15. ASSUME NEW c \in Conns, Stopped(c) PROVE OneSessionPerKey'
  BY <1>15 DEF Stopped, End, StopServices
<1>16. ASSUME NEW c \in Conns, Unresponsive(c) PROVE OneSessionPerKey'
  BY <1>16 DEF Unresponsive, End, StopServices
<1>17. ASSUME NEW c \in Conns, ControlEnds(c) PROVE OneSessionPerKey'
  BY <1>17 DEF ControlEnds, End, StopServices
<1>18. ASSUME NEW c \in Conns, SendFails(c) PROVE OneSessionPerKey'
  BY <1>18 DEF SendFails, End, StopServices
<1>19. ASSUME NEW c \in Conns, Chatter(c) PROVE OneSessionPerKey'
  BY <1>19 DEF Chatter, Answer, portVars
<1>20. ASSUME NEW c \in Conns, TakePending(c) PROVE OneSessionPerKey'
  BY <1>20 DEF TakePending, portVars
<1>21. ASSUME NEW c \in Conns, Regrant(c) PROVE OneSessionPerKey'
  <2>1. Regranted(c) /\ UNCHANGED sessions
    BY <1>21, RegrantEffect DEF Regrant
  <2>2. QED
    BY <2>1 DEF Regranted
<1>22. ASSUME NEW c \in Conns, NEW r \in Asks, Bind(c, r) PROVE OneSessionPerKey'
  <2>1. CASE \E m \in Reply : Answer(c, m)
    BY <1>22, <2>1 DEF Bind, Answer, portVars
  <2>2. CASE Become(c, [conn[c] EXCEPT !.request = r]) /\ Goto(c, "opening")
    BY <1>22, <2>2 DEF Bind, portVars
  <2>3. QED
    BY <1>22, <2>1, <2>2 DEF Bind, Reply
<1>23. ASSUME NEW c \in Conns, ClaimFixed(c) PROVE OneSessionPerKey'
  BY <1>23 DEF ClaimFixed
<1>24. ASSUME NEW c \in Conns, ClaimFromPool(c) PROVE OneSessionPerKey'
  BY <1>24 DEF ClaimFromPool
<1>25. ASSUME NEW c \in Conns, OpenFails(c) PROVE OneSessionPerKey'
  BY <1>25 DEF OpenFails, Answer
<1>26. ASSUME NEW c \in Conns, HostRefuses(c) PROVE OneSessionPerKey'
  <2>1. CASE Answer(c, "answer")
    BY <1>26, <2>1 DEF HostRefuses, Answer
  <2>2. CASE Goto(c, "opening") /\ UNCHANGED conn
    BY <1>26, <2>2 DEF HostRefuses
  <2>3. QED
    BY <1>26, <2>1, <2>2 DEF HostRefuses
<1>27. ASSUME NEW c \in Conns, HostBinds(c) PROVE OneSessionPerKey'
  BY <1>27 DEF HostBinds, NextId
<1>28. ASSUME NEW c \in Conns, NEW b \in conn[c].services, Unbind(c, b) PROVE OneSessionPerKey'
  BY <1>28 DEF Unbind, StopServices
<1>29. ASSUME NEW c \in Conns, Freed(c) PROVE OneSessionPerKey'
  BY <1>29 DEF Freed, portVars
<1>30. ASSUME NEW c \in Conns, SendReply(c) PROVE OneSessionPerKey'
  <2>1. CASE End(c)
    BY <1>30, <2>1 DEF SendReply, End, StopServices
  <2>2. CASE /\ conn[c].reply = "answer" /\ Goto(c, "serving")
             /\ UNCHANGED <<portVars, conn, sessions, overdue, world>>
    BY <1>30, <2>2 DEF SendReply, portVars
  <2>3. QED
    BY <1>30, <2>1, <2>2 DEF SendReply
<1>31. ASSUME NEW c \in Conns, ReplyOvertaken(c) PROVE OneSessionPerKey'
  BY <1>31 DEF ReplyOvertaken, portVars
<1>32. ASSUME NEW c \in Conns, Leave(c) PROVE OneSessionPerKey'
  BY <1>32 DEF Leave, SignalDone, portVars
<1>33. ASSUME NEW c \in Conns, Unwind(c) PROVE OneSessionPerKey'
  BY <1>33 DEF Unwind, StopServices
<1>34. ASSUME NEW t \in tasks, CloseSocket(t) PROVE OneSessionPerKey'
  BY <1>34 DEF CloseSocket
<1>35. ASSUME NEW t \in tasks, ReleasePort(t) PROVE OneSessionPerKey'
  BY <1>35 DEF ReleasePort, Release
<1>36. ASSUME NEW p \in Policies, Reload(p) PROVE OneSessionPerKey'
  <2>1. Reloaded(p)
    BY <1>36, ReloadEffect
  <2>2. QED
    BY <2>1 DEF Reloaded
<1>37. ASSUME ShutDown PROVE OneSessionPerKey'
  BY <1>37 DEF ShutDown, portVars
<1>38. ASSUME UNCHANGED vars PROVE OneSessionPerKey'
  BY <1>38 DEF vars
<1>q. QED
  BY <1>1, <1>2, <1>3, <1>4, <1>5, <1>6, <1>7, <1>8, <1>9, <1>10, <1>11, <1>12,
     <1>13, <1>14, <1>15, <1>16, <1>17, <1>18, <1>19, <1>20, <1>21, <1>22, <1>23,
     <1>24, <1>25, <1>26, <1>27, <1>28, <1>29, <1>30, <1>31, <1>32, <1>33, <1>34,
     <1>35, <1>36, <1>37, <1>38
     DEF Next, Greet, Settle, Close, Hear, Open, Break, Turn, Finished

\* Ids are given in order, so that the next one has not been given before.
GivenInv ==
    \A c \in Conns : \A i, j \in DOMAIN conn[c].given :
        /\ conn[c].given[i] <= conn[c].lastId
        /\ conn[c].given[i] = conn[c].given[j] => i = j

GivenKept ==
    \A d \in Conns : conn'[d].given = conn[d].given /\ conn'[d].lastId = conn[d].lastId

\* The id that a bind gives is new.
LEMMA BindGivesNewId ==
    ASSUME TypeInv, GivenInv, NEW c \in Conns, HostBinds(c) PROVE GivenInv'
<1>1. /\ conn'[c].given = Append(conn[c].given, conn[c].lastId + 1)
      /\ conn'[c].lastId = conn[c].lastId + 1
      /\ \A d \in Conns : d # c => conn'[d] = conn[d]
  <2>1. PICK e, bs : /\ e = Append(conn[c].given, conn[c].lastId + 1)
                     /\ conn' = [conn EXCEPT ![c] =
                            [conn[c] EXCEPT !.lastId = conn[c].lastId + 1, !.given = e,
                                            !.reply = "answer", !.request = NoRequest,
                                            !.services = bs]]
    BY DEF HostBinds, NextId, Become
  <2>2. conn \in [Conns -> Conn]
    BY DEF TypeInv, TypeOK
  <2>3. QED
    BY <2>1, <2>2 DEF Conn
<1>2. conn[c].given \in Seq(1..MaxId) /\ conn[c].lastId \in 0..MaxId /\ MaxId \in Nat
  BY SessionAssumption DEF TypeInv, TypeOK, Conn, Given
<1>3. PICK g, n : g = conn[c].given /\ n = conn[c].lastId
  OBVIOUS
<1>4. /\ g \in Seq(Nat) /\ n \in Nat
      /\ \A i, j \in DOMAIN g : g[i] <= n /\ (g[i] = g[j] => i = j)
  BY <1>2, <1>3 DEF GivenInv
<1>5. \A i \in DOMAIN g : g[i] \in Nat
  BY <1>4
<1>6. ASSUME NEW i \in DOMAIN Append(g, n + 1), NEW j \in DOMAIN Append(g, n + 1)
      PROVE  /\ Append(g, n + 1)[i] <= n + 1
             /\ Append(g, n + 1)[i] = Append(g, n + 1)[j] => i = j
  BY <1>4, <1>5
<1>7. PICK h : h = Append(g, n + 1)
  OBVIOUS
<1>8. \A i, j \in DOMAIN h : h[i] <= n + 1 /\ (h[i] = h[j] => i = j)
  BY <1>6, <1>7
<1>9. conn'[c].given = h /\ conn'[c].lastId = n + 1
  BY <1>1, <1>3, <1>7
<1>10. ASSUME NEW d \in Conns, NEW i \in DOMAIN conn'[d].given, NEW j \in DOMAIN conn'[d].given
       PROVE  /\ conn'[d].given[i] <= conn'[d].lastId
              /\ conn'[d].given[i] = conn'[d].given[j] => i = j
  <2>1. CASE d = c
    BY <1>8, <1>9, <1>10, <2>1
  <2>2. CASE d # c
    BY <1>1, <1>10, <2>2 DEF GivenInv
  <2>3. QED
    BY <2>1, <2>2
<1>11. QED
  BY <1>10 DEF GivenInv

\* No other step gives an id.
LEMMA NextGivenInv == TypeInv /\ GivenInv /\ [Next]_vars => GivenInv'
<1> SUFFICES ASSUME TypeInv, GivenInv, [Next]_vars PROVE GivenInv'
  OBVIOUS
<1>k. GivenKept => GivenInv'
  BY DEF GivenKept, GivenInv
<1> USE DEF GivenKept, TypeInv, TypeOK, Goto, Become, Conn
<1>1. ASSUME NEW c \in Conns, Connect(c) PROVE GivenKept
  BY <1>1 DEF Connect, portVars
<1>2. ASSUME NEW c \in Conns, CloseUngreeted(c) PROVE GivenKept
  BY <1>2 DEF CloseUngreeted, portVars
<1>3. ASSUME NEW c \in Conns, Subscribe(c) PROVE GivenKept
  BY <1>3 DEF Subscribe, portVars
<1>4. ASSUME NEW c \in Conns, LookUp(c) PROVE GivenKept
  BY <1>4 DEF LookUp, portVars
<1>5. ASSUME NEW c \in Conns, CloseDenied(c) PROVE GivenKept
  BY <1>5 DEF CloseDenied, portVars
<1>6. ASSUME NEW c \in Conns, Stake(c) PROVE GivenKept
  BY <1>6 DEF Stake, portVars
<1>7. ASSUME NEW c \in Conns, CancelPrevious(c) PROVE GivenKept
  <2>1. \A d \in Conns : conn'[d] = IF d = conn[c].previous
                                    THEN [conn[d] EXCEPT !.cancelled = TRUE] ELSE conn[d]
    BY <1>7 DEF CancelPrevious
  <2>2. QED
    BY <2>1
<1>8. ASSUME NEW c \in Conns, PreviousDone(c) PROVE GivenKept
  BY <1>8 DEF PreviousDone, portVars
<1>9. ASSUME NEW c \in Conns, SupersedeTimeout(c) PROVE GivenKept
  BY <1>9 DEF SupersedeTimeout, portVars
<1>10. ASSUME NEW c \in Conns, SupersedeShutdown(c) PROVE GivenKept
  BY <1>10 DEF SupersedeShutdown, SignalDone, portVars
<1>11. ASSUME NEW c \in Conns, Welcome(c) PROVE GivenKept
  BY <1>11 DEF Welcome, portVars
<1>12. ASSUME NEW c \in Conns, WelcomeFails(c) PROVE GivenKept
  BY <1>12 DEF WelcomeFails, SignalDone, portVars
<1>13. ASSUME NEW c \in Conns, GiveUpKey(c) PROVE GivenKept
  BY <1>13 DEF GiveUpKey, portVars
<1>14. ASSUME NEW c \in Conns, CloseTransport(c) PROVE GivenKept
  BY <1>14 DEF CloseTransport, portVars
<1>15. ASSUME NEW c \in Conns, Stopped(c) PROVE GivenKept
  BY <1>15 DEF Stopped, End, StopServices
<1>16. ASSUME NEW c \in Conns, Unresponsive(c) PROVE GivenKept
  BY <1>16 DEF Unresponsive, End, StopServices
<1>17. ASSUME NEW c \in Conns, ControlEnds(c) PROVE GivenKept
  BY <1>17 DEF ControlEnds, End, StopServices
<1>18. ASSUME NEW c \in Conns, SendFails(c) PROVE GivenKept
  BY <1>18 DEF SendFails, End, StopServices
<1>19. ASSUME NEW c \in Conns, Chatter(c) PROVE GivenKept
  BY <1>19 DEF Chatter, Answer, portVars
<1>20. ASSUME NEW c \in Conns, TakePending(c) PROVE GivenKept
  BY <1>20 DEF TakePending, portVars
<1>21. ASSUME NEW c \in Conns, Regrant(c) PROVE GivenKept
  <2> DEFINE names == {b.name : b \in Lost(c)}
             r == [conn[c] EXCEPT !.changed = FALSE, !.grant = policy[KeyOf[c]],
                                  !.services = @ \ Lost(c), !.pending = names]
             q == [conn[c] EXCEPT !.changed = FALSE, !.pending = {"shutdown"}]
  <2>1. Become(c, r) \/ Become(c, q)
    BY <1>21 DEF Regrant, Lost
  <2>2. conn[c] \in Conn /\ conn \in [Conns -> Conn]
    OBVIOUS
  <2> HIDE DEF names
  <2>3. /\ r.given = conn[c].given /\ r.lastId = conn[c].lastId
        /\ q.given = conn[c].given /\ q.lastId = conn[c].lastId
    BY <2>2
  <2> HIDE DEF r, q
  <2>4. QED
    BY <2>1, <2>2, <2>3
<1>22. ASSUME NEW c \in Conns, NEW r \in Asks, Bind(c, r) PROVE GivenKept
  <2>1. CASE \E m \in Reply : Answer(c, m)
    BY <1>22, <2>1 DEF Bind, Answer, portVars
  <2>2. CASE Become(c, [conn[c] EXCEPT !.request = r]) /\ Goto(c, "opening")
    BY <1>22, <2>2 DEF Bind, portVars
  <2>3. QED
    BY <1>22, <2>1, <2>2 DEF Bind, Reply
<1>23. ASSUME NEW c \in Conns, ClaimFixed(c) PROVE GivenKept
  BY <1>23 DEF ClaimFixed
<1>24. ASSUME NEW c \in Conns, ClaimFromPool(c) PROVE GivenKept
  BY <1>24 DEF ClaimFromPool
<1>25. ASSUME NEW c \in Conns, OpenFails(c) PROVE GivenKept
  BY <1>25 DEF OpenFails, Answer
<1>26. ASSUME NEW c \in Conns, HostRefuses(c) PROVE GivenKept
  <2>1. CASE Answer(c, "answer")
    BY <1>26, <2>1 DEF HostRefuses, Answer
  <2>2. CASE Goto(c, "opening") /\ UNCHANGED conn
    BY <1>26, <2>2 DEF HostRefuses
  <2>3. QED
    BY <1>26, <2>1, <2>2 DEF HostRefuses
<1>27. ASSUME NEW c \in Conns, HostBinds(c) PROVE GivenInv'
  BY <1>27, BindGivesNewId
<1>28. ASSUME NEW c \in Conns, NEW b \in conn[c].services, Unbind(c, b) PROVE GivenKept
  BY <1>28 DEF Unbind, StopServices
<1>29. ASSUME NEW c \in Conns, Freed(c) PROVE GivenKept
  BY <1>29 DEF Freed, portVars
<1>30. ASSUME NEW c \in Conns, SendReply(c) PROVE GivenKept
  <2>1. CASE End(c)
    BY <1>30, <2>1 DEF SendReply, End, StopServices
  <2>2. CASE /\ conn[c].reply = "answer" /\ Goto(c, "serving")
             /\ UNCHANGED <<portVars, conn, sessions, overdue, world>>
    BY <1>30, <2>2 DEF SendReply, portVars
  <2>3. QED
    BY <1>30, <2>1, <2>2 DEF SendReply
<1>31. ASSUME NEW c \in Conns, ReplyOvertaken(c) PROVE GivenKept
  BY <1>31 DEF ReplyOvertaken, portVars
<1>32. ASSUME NEW c \in Conns, Leave(c) PROVE GivenKept
  BY <1>32 DEF Leave, SignalDone, portVars
<1>33. ASSUME NEW c \in Conns, Unwind(c) PROVE GivenKept
  BY <1>33 DEF Unwind, StopServices
<1>34. ASSUME NEW t \in tasks, CloseSocket(t) PROVE GivenKept
  BY <1>34 DEF CloseSocket
<1>35. ASSUME NEW t \in tasks, ReleasePort(t) PROVE GivenKept
  BY <1>35 DEF ReleasePort, Release
<1>36. ASSUME NEW p \in Policies, Reload(p) PROVE GivenKept
  <2>1. \A d \in Conns : conn'[d] = [conn[d] EXCEPT !.changed = @ \/ Notified(d)]
    BY <1>36 DEF Reload
  <2>2. QED
    BY <2>1
<1>37. ASSUME ShutDown PROVE GivenKept
  BY <1>37 DEF ShutDown, portVars
<1>38. ASSUME UNCHANGED vars PROVE GivenKept
  BY <1>38 DEF vars
<1>q. QED
  <2> HIDE DEF GivenKept
  <2>1. QED
    BY <1>k, <1>1, <1>2, <1>3, <1>4, <1>5, <1>6, <1>7, <1>8, <1>9, <1>10, <1>11, <1>12,
       <1>13, <1>14, <1>15, <1>16, <1>17, <1>18, <1>19, <1>20, <1>21, <1>22, <1>23,
       <1>24, <1>25, <1>26, <1>27, <1>28, <1>29, <1>30, <1>31, <1>32, <1>33, <1>34,
       <1>35, <1>36, <1>37, <1>38
       DEF Next, Greet, Settle, Close, Hear, Open, Break, Turn, Finished

\* Every step keeps what a reload demands.
LEMMA NextGrantInv == TypeInv /\ LifeInv /\ GrantInv /\ [Next]_vars => GrantInv'
<1> SUFFICES ASSUME TypeInv, LifeInv, GrantInv, [Next]_vars PROVE GrantInv'
  OBVIOUS
<1> USE DEF GrantInv, Honoured, Granting, IsCancelled, LifeInv, StageInv, TypeInv, TypeOK, Goto, Become,
           Conn, InLoop, Waiting, Welcomed, HoldsClaim, Ended, Reply, world
<1>1. ASSUME NEW c \in Conns, Connect(c) PROVE GrantInv'
  BY <1>1 DEF Connect, portVars
<1>2. ASSUME NEW c \in Conns, CloseUngreeted(c) PROVE GrantInv'
  BY <1>2 DEF CloseUngreeted, portVars
<1>3. ASSUME NEW c \in Conns, Subscribe(c) PROVE GrantInv'
  BY <1>3 DEF Subscribe, portVars
<1>4. ASSUME NEW c \in Conns, LookUp(c) PROVE GrantInv'
  BY <1>4 DEF LookUp, portVars
<1>5. ASSUME NEW c \in Conns, CloseDenied(c) PROVE GrantInv'
  BY <1>5 DEF CloseDenied, portVars
<1>6. ASSUME NEW c \in Conns, Stake(c) PROVE GrantInv'
  BY <1>6 DEF Stake, portVars
<1>7. ASSUME NEW c \in Conns, CancelPrevious(c) PROVE GrantInv'
  <2>1. Superseded(c)
    BY <1>7, CancelPreviousEffect
  <2>2. QED
    BY <2>1 DEF Superseded
<1>8. ASSUME NEW c \in Conns, PreviousDone(c) PROVE GrantInv'
  BY <1>8 DEF PreviousDone, portVars
<1>9. ASSUME NEW c \in Conns, SupersedeTimeout(c) PROVE GrantInv'
  BY <1>9 DEF SupersedeTimeout, portVars
<1>10. ASSUME NEW c \in Conns, SupersedeShutdown(c) PROVE GrantInv'
  BY <1>10 DEF SupersedeShutdown, SignalDone, portVars
<1>11. ASSUME NEW c \in Conns, Welcome(c) PROVE GrantInv'
  BY <1>11 DEF Welcome, portVars
<1>12. ASSUME NEW c \in Conns, WelcomeFails(c) PROVE GrantInv'
  BY <1>12 DEF WelcomeFails, SignalDone, portVars
<1>13. ASSUME NEW c \in Conns, GiveUpKey(c) PROVE GrantInv'
  BY <1>13 DEF GiveUpKey, portVars
<1>14. ASSUME NEW c \in Conns, CloseTransport(c) PROVE GrantInv'
  BY <1>14 DEF CloseTransport, portVars
<1>15. ASSUME NEW c \in Conns, Stopped(c) PROVE GrantInv'
  BY <1>15 DEF Stopped, End, StopServices
<1>16. ASSUME NEW c \in Conns, Unresponsive(c) PROVE GrantInv'
  BY <1>16 DEF Unresponsive, End, StopServices
<1>17. ASSUME NEW c \in Conns, ControlEnds(c) PROVE GrantInv'
  BY <1>17 DEF ControlEnds, End, StopServices
<1>18. ASSUME NEW c \in Conns, SendFails(c) PROVE GrantInv'
  BY <1>18 DEF SendFails, End, StopServices
<1>19. ASSUME NEW c \in Conns, Chatter(c) PROVE GrantInv'
  BY <1>19 DEF Chatter, Answer, portVars
<1>20. ASSUME NEW c \in Conns, TakePending(c) PROVE GrantInv'
  BY <1>20 DEF TakePending, portVars
<1>21. ASSUME NEW c \in Conns, Regrant(c) PROVE GrantInv'
  <2>1. Regranted(c) /\ UNCHANGED <<policy, serverCancel>>
    BY <1>21, RegrantEffect DEF Regrant
  <2>2. \A b \in conn[c].services \ Lost(c) : b.fixed => b.port \in policy[KeyOf[c]].ports
    BY DEF Lost
  <2>3. QED
    BY <2>1, <2>2 DEF Regranted
<1>22. ASSUME NEW c \in Conns, NEW r \in Asks, Bind(c, r) PROVE GrantInv'
  <2>1. CASE \E m \in Reply : Answer(c, m)
    BY <1>22, <2>1 DEF Bind, Answer, portVars
  <2>2. CASE Become(c, [conn[c] EXCEPT !.request = r]) /\ Goto(c, "opening")
    BY <1>22, <2>2 DEF Bind, portVars
  <2>3. QED
    BY <1>22, <2>1, <2>2 DEF Bind, Reply
<1>23. ASSUME NEW c \in Conns, ClaimFixed(c) PROVE GrantInv'
  BY <1>23 DEF ClaimFixed
<1>24. ASSUME NEW c \in Conns, ClaimFromPool(c) PROVE GrantInv'
  BY <1>24 DEF ClaimFromPool
<1>25. ASSUME NEW c \in Conns, OpenFails(c) PROVE GrantInv'
  BY <1>25 DEF OpenFails, Answer
<1>26. ASSUME NEW c \in Conns, HostRefuses(c) PROVE GrantInv'
  <2>1. CASE Answer(c, "answer")
    BY <1>26, <2>1 DEF HostRefuses, Answer
  <2>2. CASE Goto(c, "opening") /\ UNCHANGED conn
    BY <1>26, <2>2 DEF HostRefuses
  <2>3. QED
    BY <1>26, <2>1, <2>2 DEF HostRefuses
<1>27. ASSUME NEW c \in Conns, HostBinds(c) PROVE GrantInv'
  BY <1>27 DEF HostBinds, NextId
<1>28. ASSUME NEW c \in Conns, NEW b \in conn[c].services, Unbind(c, b) PROVE GrantInv'
  BY <1>28 DEF Unbind, StopServices
<1>29. ASSUME NEW c \in Conns, Freed(c) PROVE GrantInv'
  BY <1>29 DEF Freed, portVars
<1>30. ASSUME NEW c \in Conns, SendReply(c) PROVE GrantInv'
  <2>1. CASE End(c)
    BY <1>30, <2>1 DEF SendReply, End, StopServices
  <2>2. CASE /\ conn[c].reply = "answer" /\ Goto(c, "serving")
             /\ UNCHANGED <<portVars, conn, sessions, overdue, world>>
    BY <1>30, <2>2 DEF SendReply, portVars
  <2>3. QED
    BY <1>30, <2>1, <2>2 DEF SendReply
<1>31. ASSUME NEW c \in Conns, ReplyOvertaken(c) PROVE GrantInv'
  BY <1>31 DEF ReplyOvertaken, portVars
<1>32. ASSUME NEW c \in Conns, Leave(c) PROVE GrantInv'
  BY <1>32 DEF Leave, SignalDone, portVars
<1>33. ASSUME NEW c \in Conns, Unwind(c) PROVE GrantInv'
  BY <1>33 DEF Unwind, StopServices
<1>34. ASSUME NEW t \in tasks, CloseSocket(t) PROVE GrantInv'
  BY <1>34 DEF CloseSocket
<1>35. ASSUME NEW t \in tasks, ReleasePort(t) PROVE GrantInv'
  BY <1>35 DEF ReleasePort, Release
<1>36. ASSUME NEW p \in Policies, Reload(p) PROVE GrantInv'
  <2>1. Reloaded(p)
    BY <1>36, ReloadEffect
  <2>2. \A c \in Conns : at[c] \in Granting => conn'[c].changed
    BY <2>1 DEF Reloaded, Notified, Subscribed
  <2>3. QED
    BY <2>1, <2>2 DEF Reloaded
<1>37. ASSUME ShutDown PROVE GrantInv'
  BY <1>37 DEF ShutDown, portVars
<1>38. ASSUME UNCHANGED vars PROVE GrantInv'
  BY <1>38 DEF vars
<1>q. QED
  BY <1>1, <1>2, <1>3, <1>4, <1>5, <1>6, <1>7, <1>8, <1>9, <1>10, <1>11, <1>12,
     <1>13, <1>14, <1>15, <1>16, <1>17, <1>18, <1>19, <1>20, <1>21, <1>22, <1>23,
     <1>24, <1>25, <1>26, <1>27, <1>28, <1>29, <1>30, <1>31, <1>32, <1>33, <1>34,
     <1>35, <1>36, <1>37, <1>38
     DEF Next, Greet, Settle, Close, Hear, Open, Break, Turn, Finished

\* Every step keeps the tasks of a session within its loop.
LEMMA NextLeftInv == TypeInv /\ LifeInv /\ LeftInv /\ [Next]_vars => LeftInv'
<1> SUFFICES ASSUME TypeInv, LifeInv, LeftInv, [Next]_vars PROVE LeftInv'
  OBVIOUS
<1> USE DEF LeftInv, TasksOf, LifeInv, StageInv, OpenIsServed, TypeInv, TypeOK, Goto, Become,
           Conn, Task, InLoop, Waiting, Welcomed, HoldsClaim, Ended
<1>1. ASSUME NEW c \in Conns, Connect(c) PROVE LeftInv'
  BY <1>1 DEF Connect, portVars
<1>2. ASSUME NEW c \in Conns, CloseUngreeted(c) PROVE LeftInv'
  BY <1>2 DEF CloseUngreeted, portVars
<1>3. ASSUME NEW c \in Conns, Subscribe(c) PROVE LeftInv'
  BY <1>3 DEF Subscribe, portVars
<1>4. ASSUME NEW c \in Conns, LookUp(c) PROVE LeftInv'
  BY <1>4 DEF LookUp, portVars
<1>5. ASSUME NEW c \in Conns, CloseDenied(c) PROVE LeftInv'
  BY <1>5 DEF CloseDenied, portVars
<1>6. ASSUME NEW c \in Conns, Stake(c) PROVE LeftInv'
  BY <1>6 DEF Stake, portVars
<1>7. ASSUME NEW c \in Conns, CancelPrevious(c) PROVE LeftInv'
  <2>1. Superseded(c)
    BY <1>7, CancelPreviousEffect
  <2>2. QED
    BY <2>1 DEF Superseded
<1>8. ASSUME NEW c \in Conns, PreviousDone(c) PROVE LeftInv'
  BY <1>8 DEF PreviousDone, portVars
<1>9. ASSUME NEW c \in Conns, SupersedeTimeout(c) PROVE LeftInv'
  BY <1>9 DEF SupersedeTimeout, portVars
<1>10. ASSUME NEW c \in Conns, SupersedeShutdown(c) PROVE LeftInv'
  BY <1>10 DEF SupersedeShutdown, SignalDone, portVars
<1>11. ASSUME NEW c \in Conns, Welcome(c) PROVE LeftInv'
  BY <1>11 DEF Welcome, portVars
<1>12. ASSUME NEW c \in Conns, WelcomeFails(c) PROVE LeftInv'
  BY <1>12 DEF WelcomeFails, SignalDone, portVars
<1>13. ASSUME NEW c \in Conns, GiveUpKey(c) PROVE LeftInv'
  BY <1>13 DEF GiveUpKey, portVars
<1>14. ASSUME NEW c \in Conns, CloseTransport(c) PROVE LeftInv'
  BY <1>14 DEF CloseTransport, portVars
<1>15. ASSUME NEW c \in Conns, Stopped(c) PROVE LeftInv'
  BY <1>15 DEF Stopped, End, StopServices
<1>16. ASSUME NEW c \in Conns, Unresponsive(c) PROVE LeftInv'
  BY <1>16 DEF Unresponsive, End, StopServices
<1>17. ASSUME NEW c \in Conns, ControlEnds(c) PROVE LeftInv'
  BY <1>17 DEF ControlEnds, End, StopServices
<1>18. ASSUME NEW c \in Conns, SendFails(c) PROVE LeftInv'
  BY <1>18 DEF SendFails, End, StopServices
<1>19. ASSUME NEW c \in Conns, Chatter(c) PROVE LeftInv'
  BY <1>19 DEF Chatter, Answer, portVars
<1>20. ASSUME NEW c \in Conns, TakePending(c) PROVE LeftInv'
  BY <1>20 DEF TakePending, portVars
<1>21. ASSUME NEW c \in Conns, Regrant(c) PROVE LeftInv'
  BY <1>21 DEF Regrant, StopServices
<1>22. ASSUME NEW c \in Conns, NEW r \in Asks, Bind(c, r) PROVE LeftInv'
  <2>1. CASE \E m \in Reply : Answer(c, m)
    BY <1>22, <2>1 DEF Bind, Answer, portVars
  <2>2. CASE Become(c, [conn[c] EXCEPT !.request = r]) /\ Goto(c, "opening")
    BY <1>22, <2>2 DEF Bind, portVars
  <2>3. QED
    BY <1>22, <2>1, <2>2 DEF Bind, Reply
<1>23. ASSUME NEW c \in Conns, ClaimFixed(c) PROVE LeftInv'
  BY <1>23 DEF ClaimFixed
<1>24. ASSUME NEW c \in Conns, ClaimFromPool(c) PROVE LeftInv'
  BY <1>24 DEF ClaimFromPool
<1>25. ASSUME NEW c \in Conns, OpenFails(c) PROVE LeftInv'
  BY <1>25 DEF OpenFails, Answer
<1>26. ASSUME NEW c \in Conns, HostRefuses(c) PROVE LeftInv'
  <2>1. CASE Answer(c, "answer")
    BY <1>26, <2>1 DEF HostRefuses, Answer
  <2>2. CASE Goto(c, "opening") /\ UNCHANGED conn
    BY <1>26, <2>2 DEF HostRefuses
  <2>3. QED
    BY <1>26, <2>1, <2>2 DEF HostRefuses
<1>27. ASSUME NEW c \in Conns, HostBinds(c) PROVE LeftInv'
  BY <1>27 DEF HostBinds, NextId
<1>28. ASSUME NEW c \in Conns, NEW b \in conn[c].services, Unbind(c, b) PROVE LeftInv'
  BY <1>28 DEF Unbind, StopServices
<1>29. ASSUME NEW c \in Conns, Freed(c) PROVE LeftInv'
  BY <1>29 DEF Freed, portVars
<1>30. ASSUME NEW c \in Conns, SendReply(c) PROVE LeftInv'
  <2>1. CASE End(c)
    BY <1>30, <2>1 DEF SendReply, End, StopServices
  <2>2. CASE /\ conn[c].reply = "answer" /\ Goto(c, "serving")
             /\ UNCHANGED <<portVars, conn, sessions, overdue, world>>
    BY <1>30, <2>2 DEF SendReply, portVars
  <2>3. QED
    BY <1>30, <2>1, <2>2 DEF SendReply
<1>31. ASSUME NEW c \in Conns, ReplyOvertaken(c) PROVE LeftInv'
  BY <1>31 DEF ReplyOvertaken, portVars
<1>32. ASSUME NEW c \in Conns, Leave(c) PROVE LeftInv'
  BY <1>32 DEF Leave, SignalDone, portVars
<1>33. ASSUME NEW c \in Conns, Unwind(c) PROVE LeftInv'
  BY <1>33 DEF Unwind, StopServices
<1>34. ASSUME NEW t \in tasks, CloseSocket(t) PROVE LeftInv'
  BY <1>34 DEF CloseSocket
<1>35. ASSUME NEW t \in tasks, ReleasePort(t) PROVE LeftInv'
  BY <1>35 DEF ReleasePort, Release
<1>36. ASSUME NEW p \in Policies, Reload(p) PROVE LeftInv'
  <2>1. Reloaded(p)
    BY <1>36, ReloadEffect
  <2>2. QED
    BY <2>1 DEF Reloaded
<1>37. ASSUME ShutDown PROVE LeftInv'
  BY <1>37 DEF ShutDown, portVars
<1>38. ASSUME UNCHANGED vars PROVE LeftInv'
  BY <1>38 DEF vars
<1>q. QED
  BY <1>1, <1>2, <1>3, <1>4, <1>5, <1>6, <1>7, <1>8, <1>9, <1>10, <1>11, <1>12,
     <1>13, <1>14, <1>15, <1>16, <1>17, <1>18, <1>19, <1>20, <1>21, <1>22, <1>23,
     <1>24, <1>25, <1>26, <1>27, <1>28, <1>29, <1>30, <1>31, <1>32, <1>33, <1>34,
     <1>35, <1>36, <1>37, <1>38
     DEF Next, Greet, Settle, Close, Hear, Open, Break, Turn, Finished

\* Every step keeps stopped tasks.
LEMMA NextFreeingInv ==
    TypeInv /\ PortInv /\ LifeInv /\ LeftInv /\ FreeingInv /\ [Next]_vars
        => FreeingInv'
<1> SUFFICES ASSUME TypeInv, PortInv, LifeInv, LeftInv, FreeingInv, [Next]_vars
             PROVE  FreeingInv'
  OBVIOUS
<1> USE DEF FreeingInv, LifeInv, TasksNamed, StageInv, TypeInv, TypeOK, Goto, Become,
           Conn, Task, InLoop, Waiting, Welcomed, HoldsClaim, Ended, world
<1>1. ASSUME NEW c \in Conns, Connect(c) PROVE FreeingInv'
  BY <1>1 DEF Connect, portVars
<1>2. ASSUME NEW c \in Conns, CloseUngreeted(c) PROVE FreeingInv'
  BY <1>2 DEF CloseUngreeted, portVars
<1>3. ASSUME NEW c \in Conns, Subscribe(c) PROVE FreeingInv'
  BY <1>3 DEF Subscribe, portVars
<1>4. ASSUME NEW c \in Conns, LookUp(c) PROVE FreeingInv'
  BY <1>4 DEF LookUp, portVars
<1>5. ASSUME NEW c \in Conns, CloseDenied(c) PROVE FreeingInv'
  BY <1>5 DEF CloseDenied, portVars
<1>6. ASSUME NEW c \in Conns, Stake(c) PROVE FreeingInv'
  BY <1>6 DEF Stake, portVars
<1>7. ASSUME NEW c \in Conns, CancelPrevious(c) PROVE FreeingInv'
  <2>1. Superseded(c)
    BY <1>7, CancelPreviousEffect
  <2>2. QED
    BY <2>1 DEF Superseded
<1>8. ASSUME NEW c \in Conns, PreviousDone(c) PROVE FreeingInv'
  BY <1>8 DEF PreviousDone, portVars
<1>9. ASSUME NEW c \in Conns, SupersedeTimeout(c) PROVE FreeingInv'
  BY <1>9 DEF SupersedeTimeout, portVars
<1>10. ASSUME NEW c \in Conns, SupersedeShutdown(c) PROVE FreeingInv'
  BY <1>10 DEF SupersedeShutdown, SignalDone, portVars
<1>11. ASSUME NEW c \in Conns, Welcome(c) PROVE FreeingInv'
  BY <1>11 DEF Welcome, portVars, LeftInv, TasksOf
<1>12. ASSUME NEW c \in Conns, WelcomeFails(c) PROVE FreeingInv'
  BY <1>12 DEF WelcomeFails, SignalDone, portVars
<1>13. ASSUME NEW c \in Conns, GiveUpKey(c) PROVE FreeingInv'
  BY <1>13 DEF GiveUpKey, portVars
<1>14. ASSUME NEW c \in Conns, CloseTransport(c) PROVE FreeingInv'
  BY <1>14 DEF CloseTransport, portVars
<1>15. ASSUME NEW c \in Conns, Stopped(c) PROVE FreeingInv'
  BY <1>15 DEF Stopped, End, StopServices
<1>16. ASSUME NEW c \in Conns, Unresponsive(c) PROVE FreeingInv'
  BY <1>16 DEF Unresponsive, End, StopServices
<1>17. ASSUME NEW c \in Conns, ControlEnds(c) PROVE FreeingInv'
  BY <1>17 DEF ControlEnds, End, StopServices
<1>18. ASSUME NEW c \in Conns, SendFails(c) PROVE FreeingInv'
  BY <1>18 DEF SendFails, End, StopServices
<1>19. ASSUME NEW c \in Conns, Chatter(c) PROVE FreeingInv'
  BY <1>19 DEF Chatter, Answer, portVars
<1>20. ASSUME NEW c \in Conns, TakePending(c) PROVE FreeingInv'
  BY <1>20 DEF TakePending, portVars
<1>21. ASSUME NEW c \in Conns, Regrant(c) PROVE FreeingInv'
  BY <1>21 DEF Regrant, StopServices
<1>22. ASSUME NEW c \in Conns, NEW r \in Asks, Bind(c, r) PROVE FreeingInv'
  <2>1. CASE \E m \in Reply : Answer(c, m)
    BY <1>22, <2>1 DEF Bind, Answer, portVars
  <2>2. CASE Become(c, [conn[c] EXCEPT !.request = r]) /\ Goto(c, "opening")
    BY <1>22, <2>2 DEF Bind, portVars
  <2>3. QED
    BY <1>22, <2>1, <2>2 DEF Bind, Reply
<1>23. ASSUME NEW c \in Conns, ClaimFixed(c) PROVE FreeingInv'
  BY <1>23 DEF ClaimFixed
<1>24. ASSUME NEW c \in Conns, ClaimFromPool(c) PROVE FreeingInv'
  BY <1>24 DEF ClaimFromPool
<1>25. ASSUME NEW c \in Conns, OpenFails(c) PROVE FreeingInv'
  BY <1>25 DEF OpenFails, Answer
<1>26. ASSUME NEW c \in Conns, HostRefuses(c) PROVE FreeingInv'
  <2>1. CASE Answer(c, "answer")
    BY <1>26, <2>1 DEF HostRefuses, Answer
  <2>2. CASE Goto(c, "opening") /\ UNCHANGED conn
    BY <1>26, <2>2 DEF HostRefuses
  <2>3. QED
    BY <1>26, <2>1, <2>2 DEF HostRefuses
<1>27. ASSUME NEW c \in Conns, HostBinds(c) PROVE FreeingInv'
  BY <1>27 DEF HostBinds, NextId
<1>28. ASSUME NEW c \in Conns, NEW b \in conn[c].services, Unbind(c, b) PROVE FreeingInv'
  <2>1. /\ StopServices(c, {b}) /\ at' = [at EXCEPT ![c] = "freeing"]
        /\ UNCHANGED <<overdue, reloads>> /\ at[c] = "serving"
    BY <1>28 DEF Unbind
  <2>2. conn'[c].request = AskedFor(b) /\ conn'[c].changed = conn[c].changed
    BY <1>28 DEF Unbind
  <2>3. \A d \in Conns : d # c => conn'[d] = conn[d]
    BY <1>28 DEF Unbind
  <2>4. b.port \in Port
    BY DEF Bound
  <2>5. Requested(AskedFor(b)) = b.port
    BY <2>4 DEF Requested, AskedFor, Port
  <2>6. ASSUME NEW t \in tasks, t.conn = c, t.id = b.id PROVE t.port = b.port
    <3> DEFINE u == [conn |-> c, id |-> b.id, port |-> b.port, socket |-> "open"]
    <3>1. u \in tasks /\ u.conn = t.conn /\ u.id = t.id /\ u.port = b.port
      BY <2>6
    <3>2. QED
      BY <3>1
  <2>7. QED
    BY <2>1, <2>2, <2>3, <2>5, <2>6 DEF StopServices
<1>29. ASSUME NEW c \in Conns, Freed(c) PROVE FreeingInv'
  <2>1. ASSUME NEW t \in tasks PROVE t.port \in inUse
    BY <2>1 DEF PortInv, InUseInv
  <2>2. QED
    BY <1>29, <2>1 DEF Freed, portVars
<1>30. ASSUME NEW c \in Conns, SendReply(c) PROVE FreeingInv'
  <2>1. CASE End(c)
    BY <1>30, <2>1 DEF SendReply, End, StopServices
  <2>2. CASE /\ conn[c].reply = "answer" /\ Goto(c, "serving")
             /\ UNCHANGED <<portVars, conn, sessions, overdue, world>>
    BY <1>30, <2>2 DEF SendReply, portVars
  <2>3. QED
    BY <1>30, <2>1, <2>2 DEF SendReply
<1>31. ASSUME NEW c \in Conns, ReplyOvertaken(c) PROVE FreeingInv'
  BY <1>31 DEF ReplyOvertaken, portVars
<1>32. ASSUME NEW c \in Conns, Leave(c) PROVE FreeingInv'
  BY <1>32 DEF Leave, SignalDone, portVars
<1>33. ASSUME NEW c \in Conns, Unwind(c) PROVE FreeingInv'
  BY <1>33 DEF Unwind, StopServices
<1>34. ASSUME NEW t \in tasks, CloseSocket(t) PROVE FreeingInv'
  BY <1>34 DEF CloseSocket
<1>35. ASSUME NEW t \in tasks, ReleasePort(t) PROVE FreeingInv'
  BY <1>35 DEF ReleasePort, Release
<1>36. ASSUME NEW p \in Policies, Reload(p) PROVE FreeingInv'
  <2>1. Reloaded(p)
    BY <1>36, ReloadEffect
  <2>2. QED
    BY <2>1 DEF Reloaded
<1>37. ASSUME ShutDown PROVE FreeingInv'
  BY <1>37 DEF ShutDown, portVars
<1>38. ASSUME UNCHANGED vars PROVE FreeingInv'
  BY <1>38 DEF vars
<1>q. QED
  BY <1>1, <1>2, <1>3, <1>4, <1>5, <1>6, <1>7, <1>8, <1>9, <1>10, <1>11, <1>12,
     <1>13, <1>14, <1>15, <1>16, <1>17, <1>18, <1>19, <1>20, <1>21, <1>22, <1>23,
     <1>24, <1>25, <1>26, <1>27, <1>28, <1>29, <1>30, <1>31, <1>32, <1>33, <1>34,
     <1>35, <1>36, <1>37, <1>38
     DEF Next, Greet, Settle, Close, Hear, Open, Break, Turn, Finished

-----------------------------------------------------------------------------
\* Nobody joins or leaves the queue, and nobody is told to wait for someone else.
QueueKept ==
    /\ UNCHANGED sessions /\ overdue \subseteq overdue' /\ (serverCancel => serverCancel')
    /\ \A c \in Conns : /\ at'[c] \in HoldsClaim <=> at[c] \in HoldsClaim
                        /\ at[c] \in Waiting => at'[c] \in Waiting
                        /\ conn'[c].previous = conn[c].previous

\* A queue that no step of a session touches stands.
LEMMA QueueStands == QueueInv /\ QueueKept => QueueInv'
<1> SUFFICES ASSUME QueueInv, QueueKept PROVE QueueInv'
  OBVIOUS
<1> USE DEF QueueKept
<1>1. PICK rank \in [Conns -> Nat] : \A c \in Conns :
          at[c] \in HoldsClaim /\ KeyOf[c] \notin overdue /\ ~serverCancel => InQueue(rank, c)
  BY DEF QueueInv
<1>2. \A c \in Conns : Peers(c)' = Peers(c)
  BY DEF Peers
<1>3. ASSUME NEW c \in Conns, InQueue(rank, c) PROVE InQueue(rank, c)'
  <2>1. Peers(c) \subseteq Conns
    BY DEF Peers
  <2>2. \A d \in Peers(c) : Queued(rank, c, d) => Queued(rank, c, d)'
    BY <1>3 DEF Queued
  <2>3. QED
    BY <1>2, <1>3, <2>1, <2>2 DEF InQueue
<1>4. QED
  BY <1>1, <1>3 DEF QueueInv

\* A session that is not waiting is the first of its queue, so that it may leave: the
\* one behind it has then nobody before it.
LEMMA FirstLeaves ==
    ASSUME TypeInv, OneSessionPerKey, QueueInv, NEW p \in Conns,
           at[p] \in HoldsClaim, at[p] \notin Waiting, at' = [at EXCEPT ![p] = "dropping"],
           UNCHANGED <<sessions, serverCancel>>, overdue \subseteq overdue',
           \A c \in Conns : conn'[c].previous = conn[c].previous
    PROVE  QueueInv'
<1>1. PICK rank \in [Conns -> Nat] : \A c \in Conns :
          at[c] \in HoldsClaim /\ KeyOf[c] \notin overdue /\ ~serverCancel => InQueue(rank, c)
  BY DEF QueueInv
<1>2. \A c \in Conns : /\ at'[c] \in HoldsClaim <=> c # p /\ at[c] \in HoldsClaim
                       /\ c # p => at'[c] = at[c]
  BY DEF TypeInv, TypeOK, HoldsClaim, Waiting, Welcomed, InLoop
<1>3. ASSUME NEW c \in Conns, at'[c] \in HoldsClaim, KeyOf[c] \notin overdue', ~serverCancel'
      PROVE  InQueue(rank, c)'
  <2>1. c # p /\ at[c] \in HoldsClaim /\ at'[c] = at[c] /\ InQueue(rank, c)
    BY <1>1, <1>2, <1>3
  <2>2. ASSUME KeyOf[p] = KeyOf[c]
        PROVE  p \in Peers(c) /\ ~(rank[c] < rank[p])
               /\ \A d \in Peers(c) : ~(rank[d] < rank[p])
    <3>1. InQueue(rank, p)
      BY <1>1, <1>3, <2>2
    <3>2. c \in Peers(p) /\ p \in Peers(c)
      BY <2>1, <2>2 DEF Peers
    <3>3. \A d \in Peers(p) : ~(rank[d] < rank[p])
      BY <3>1 DEF InQueue, Queued
    <3>4. \A d \in Peers(c) : d # p => d \in Peers(p)
      BY <2>2 DEF Peers
    <3>5. QED
      BY <3>2, <3>3, <3>4
  <2>3. Peers(c)' = Peers(c) \ {p}
    BY <1>2 DEF Peers
  <2>4. ASSUME NEW d \in Peers(c), d # p PROVE Queued(rank, c, d)'
    <3> DEFINE q == conn[c].previous
    <3>1. Queued(rank, c, d) /\ rank[d] # rank[c] /\ d \in Conns
      BY <2>1, <2>4 DEF InQueue, Peers
    <3>2. q = p /\ rank[d] < rank[c] => KeyOf[p] = KeyOf[c] /\ rank[d] <= rank[p]
      BY <3>1 DEF Queued
    <3>3. ASSUME q = p, rank[d] < rank[c] PROVE FALSE
      <4>1. InQueue(rank, p) /\ d \in Peers(p)
        BY <1>1, <1>3, <2>4, <3>2, <3>3 DEF Peers
      <4>2. rank[d] # rank[p]
        BY <4>1 DEF InQueue
      <4>3. QED
        BY <2>2, <2>4, <3>1, <3>2, <3>3, <4>2
    <3>4. QED
      BY <1>2, <2>1, <3>1, <3>3 DEF Queued
  <2>5. sessions[KeyOf[c]] # p
    <3>1. SUFFICES ASSUME sessions[KeyOf[c]] = p PROVE FALSE
      OBVIOUS
    <3>2. KeyOf[c] \in Keys /\ p # NoConn
      BY SessionAssumption
    <3>3. KeyOf[p] = KeyOf[c]
      BY <3>1, <3>2 DEF OneSessionPerKey
    <3>4. rank[c] <= rank[p] /\ rank[p] # rank[c]
      BY <2>1, <2>2, <3>1, <3>3 DEF InQueue
    <3>5. QED
      BY <2>2, <3>3, <3>4
  <2>6. QED
    BY <1>2, <2>1, <2>3, <2>4, <2>5 DEF InQueue
<1>4. QED
  BY <1>1, <1>3 DEF QueueInv

\* A session whose predecessor is done has nobody before it.
LEMMA FirstGoesOn ==
    ASSUME TypeInv, LifeInv, QueueInv, NEW c \in Conns, PreviousDone(c)
    PROVE  QueueInv'
<1>1. PICK rank \in [Conns -> Nat] : \A d \in Conns :
          at[d] \in HoldsClaim /\ KeyOf[d] \notin overdue /\ ~serverCancel => InQueue(rank, d)
  BY DEF QueueInv
<1>2. /\ at[c] = "superseding" /\ at' = [at EXCEPT ![c] = "welcoming"]
      /\ conn[conn[c].previous].done
      /\ UNCHANGED <<sessions, conn, overdue, serverCancel>>
  BY DEF PreviousDone, Goto, world
<1>3. conn[c].previous \in Conns => at[conn[c].previous] \notin HoldsClaim
  BY <1>2 DEF LifeInv, StageInv, Ended, HoldsClaim, Waiting, Welcomed, InLoop
<1>4. \A d \in Conns : /\ at'[d] \in HoldsClaim <=> at[d] \in HoldsClaim
                       /\ d # c => at'[d] = at[d]
  BY <1>2 DEF TypeInv, TypeOK, HoldsClaim, Waiting, Welcomed, InLoop
<1>5. ASSUME NEW d \in Conns, at'[d] \in HoldsClaim, KeyOf[d] \notin overdue', ~serverCancel'
      PROVE  InQueue(rank, d)'
  <2>1. InQueue(rank, d)
    BY <1>1, <1>2, <1>4, <1>5
  <2>2. Peers(d)' = Peers(d) /\ Peers(d) \subseteq Conns
    BY <1>4 DEF Peers
  <2>3. ASSUME NEW e \in Peers(d) PROVE Queued(rank, d, e)'
    <3>1. Queued(rank, d, e)
      BY <2>1, <2>3 DEF InQueue
    <3>2. CASE d = c
      BY <1>3, <3>1, <3>2 DEF Queued
    <3>3. CASE d # c
      BY <1>2, <1>4, <3>1, <3>3 DEF Queued
    <3>4. QED
      BY <3>2, <3>3
  <2>4. QED
    BY <1>2, <1>4, <2>1, <2>2, <2>3 DEF InQueue
<1>6. QED
  BY <1>1, <1>5 DEF QueueInv

\* A new session joins the queue of its key at the end.
LEMMA LastJoins ==
    ASSUME TypeInv, OneSessionPerKey, QueueInv, NEW c \in Conns, Stake(c)
    PROVE  QueueInv'
<1> DEFINE k == KeyOf[c]
<1>0. PICK s : s = sessions[k]
  OBVIOUS
<1>1. PICK rank \in [Conns -> Nat] : \A d \in Conns :
          at[d] \in HoldsClaim /\ KeyOf[d] \notin overdue /\ ~serverCancel => InQueue(rank, d)
  BY DEF QueueInv
<1>2. /\ at[c] = "staking" /\ sessions' = [sessions EXCEPT ![k] = c]
      /\ at' = [at EXCEPT ![c] = IF s = NoConn THEN "welcoming" ELSE "cancelling"]
      /\ UNCHANGED <<overdue, serverCancel>>
  BY <1>0 DEF Stake, Goto, world
<1>3. /\ conn'[c].previous = s
      /\ \A d \in Conns : d # c => conn'[d] = conn[d]
  BY <1>0 DEF Stake, Become, TypeInv, TypeOK, Conn
<1>4. /\ at[c] \notin HoldsClaim /\ at'[c] \in HoldsClaim
      /\ s # NoConn => at'[c] \in Waiting
      /\ \A d \in Conns : d # c => at'[d] = at[d]
  BY <1>2 DEF TypeInv, TypeOK, HoldsClaim, Waiting, Welcomed, InLoop
<1>5. /\ k \in Keys /\ NoConn \notin Conns /\ s \in Conns \cup {NoConn}
      /\ \A d \in Conns : sessions'[KeyOf[d]] = IF KeyOf[d] = k THEN c ELSE sessions[KeyOf[d]]
  BY <1>0, <1>2, SessionAssumption DEF TypeInv, TypeOK
<1>6. s # NoConn => KeyOf[s] = k
  BY <1>0, <1>5 DEF OneSessionPerKey
<1>7. PICK order : order = [rank EXCEPT ![c] = IF s \in Conns THEN rank[s] + 1 ELSE 0]
  OBVIOUS
<1>8. /\ order \in [Conns -> Nat] /\ \A d \in Conns : d # c => order[d] = rank[d]
      /\ s \in Conns => order[c] = rank[s] + 1
  BY <1>1, <1>7
<1>9. ASSUME NEW d \in Conns, at'[d] \in HoldsClaim, KeyOf[d] \notin overdue', ~serverCancel'
      PROVE  InQueue(order, d)'
  <2>1. CASE KeyOf[d] # k
    <3>1. d # c /\ InQueue(rank, d) /\ at'[d] = at[d]
      BY <1>1, <1>2, <1>4, <1>9, <2>1
    <3>2. Peers(d)' = Peers(d) /\ Peers(d) \subseteq Conns /\ c \notin Peers(d)
      BY <1>4, <2>1 DEF Peers
    <3>3. ASSUME NEW e \in Peers(d) PROVE Queued(order, d, e)'
      <4>1. Queued(rank, d, e) /\ e \in Conns /\ e # c
        BY <3>1, <3>2, <3>3 DEF InQueue
      <4>2. conn'[d] = conn[d] /\ order[d] = rank[d] /\ order[e] = rank[e]
        BY <1>3, <1>8, <3>1, <4>1
      <4>3. QED
        BY <1>4, <1>8, <3>1, <4>1, <4>2 DEF Queued
    <3>4. /\ sessions'[KeyOf[d]] \in Conns /\ at'[sessions'[KeyOf[d]]] \in HoldsClaim
          /\ order[d] <= order[sessions'[KeyOf[d]]]
      BY <1>4, <1>5, <1>8, <2>1, <3>1 DEF InQueue
    <3>5. \A e \in Peers(d) : order[e] # order[d]
      BY <1>8, <3>1, <3>2 DEF InQueue
    <3>6. QED
      BY <3>2, <3>3, <3>4, <3>5 DEF InQueue
  <2>2. CASE KeyOf[d] = k /\ d # c
    <3>1. InQueue(rank, d) /\ at'[d] = at[d]
      BY <1>1, <1>2, <1>4, <1>9, <2>2
    <3>2. s \in Conns /\ at[s] \in HoldsClaim /\ rank[d] <= rank[s] /\ s # c
      BY <1>0, <1>4, <2>2, <3>1 DEF InQueue
    <3>3. Peers(d)' = Peers(d) \cup {c} /\ Peers(d) \subseteq Conns /\ c \notin Peers(d)
      BY <1>4, <2>2 DEF Peers
    <3>4. order[d] < order[c]
      <4>1. rank[d] \in Nat /\ rank[s] \in Nat
        BY <1>1, <3>2
      <4>2. QED
        BY <1>8, <2>2, <3>2, <4>1
    <3>5. Queued(order, d, c)' /\ order[c] # order[d]
      BY <1>8, <2>2, <3>4 DEF Queued
    <3>6. ASSUME NEW e \in Peers(d) PROVE Queued(order, d, e)' /\ order[e] # order[d]
      <4>1. Queued(rank, d, e) /\ rank[e] # rank[d] /\ e \in Conns /\ e # c
        BY <3>1, <3>3, <3>6 DEF InQueue
      <4>2. conn'[d] = conn[d] /\ order[d] = rank[d] /\ order[e] = rank[e]
        BY <1>3, <1>8, <2>2, <4>1
      <4>3. QED
        BY <1>4, <1>8, <3>1, <4>1, <4>2 DEF Queued
    <3>7. QED
      BY <1>4, <1>5, <1>8, <2>2, <3>3, <3>4, <3>5, <3>6 DEF InQueue
  <2>3. CASE d = c
    <3>1. ASSUME NEW e \in Peers(c)'
          PROVE  Queued(order, c, e)' /\ order[e] # order[c]
      <4>1. e \in Conns /\ e # c /\ KeyOf[e] = k /\ at[e] \in HoldsClaim
        BY <1>4, <3>1 DEF Peers
      <4>2. InQueue(rank, e)
        BY <1>1, <1>2, <1>9, <2>3, <4>1
      <4>3. s \in Conns /\ at[s] \in HoldsClaim /\ rank[e] <= rank[s] /\ s # c
        BY <1>0, <1>4, <4>1, <4>2 DEF InQueue
      <4>4. order[e] < order[c] /\ order[s] < order[c] /\ order[e] <= order[s]
        <5>1. rank[e] \in Nat /\ rank[s] \in Nat
          BY <1>1, <4>1, <4>3
        <5>2. QED
          BY <1>8, <4>1, <4>3, <5>1
      <4>5. QED
        BY <1>3, <1>4, <1>5, <1>6, <1>8, <4>1, <4>3, <4>4 DEF Queued
    <3>2. QED
      BY <1>4, <1>5, <1>8, <2>3, <3>1 DEF InQueue
  <2>4. QED
    BY <2>1, <2>2, <2>3
<1>10. QED
  BY <1>8, <1>9 DEF QueueInv

\* A session that waited in vain: its key is overdue from then on.
LEMMA TimedOut ==
    ASSUME TypeInv, QueueInv, NEW c \in Conns, SupersedeTimeout(c)
    PROVE  QueueInv'
<1>1. PICK rank \in [Conns -> Nat] : \A d \in Conns :
          at[d] \in HoldsClaim /\ KeyOf[d] \notin overdue /\ ~serverCancel => InQueue(rank, d)
  BY DEF QueueInv
<1>2. /\ at[c] = "superseding" /\ at' = [at EXCEPT ![c] = "welcoming"]
      /\ UNCHANGED <<sessions, conn, serverCancel>> /\ overdue' = overdue \cup {KeyOf[c]}
  BY DEF SupersedeTimeout, Goto, world
<1>3. \A d \in Conns : /\ at'[d] \in HoldsClaim <=> at[d] \in HoldsClaim
                       /\ d # c => at'[d] = at[d]
  BY <1>2 DEF TypeInv, TypeOK, HoldsClaim, Waiting, Welcomed, InLoop
<1>4. ASSUME NEW d \in Conns, at'[d] \in HoldsClaim, KeyOf[d] \notin overdue', ~serverCancel'
      PROVE  InQueue(rank, d)'
  <2>1. InQueue(rank, d) /\ d # c
    BY <1>1, <1>2, <1>3, <1>4
  <2>2. Peers(d)' = Peers(d) /\ Peers(d) \subseteq Conns
    BY <1>3 DEF Peers
  <2>3. \A e \in Peers(d) : Queued(rank, d, e) => Queued(rank, d, e)'
    BY <1>2, <1>3, <2>1, <2>2 DEF Queued
  <2>4. QED
    BY <1>2, <1>3, <2>1, <2>2, <2>3 DEF InQueue
<1>5. QED
  BY <1>1, <1>4 DEF QueueInv

\* A session that gives its key up is no longer in the queue, and when the map names
\* it nobody is.
LEMMA KeyGivenUp ==
    ASSUME TypeInv, OneSessionPerKey, QueueInv, NEW c \in Conns, GiveUpKey(c)
    PROVE  QueueInv'
<1>1. PICK rank \in [Conns -> Nat] : \A d \in Conns :
          at[d] \in HoldsClaim /\ KeyOf[d] \notin overdue /\ ~serverCancel => InQueue(rank, d)
  BY DEF QueueInv
<1>2. /\ at[c] = "dropping" /\ at' = [at EXCEPT ![c] = "lingering"]
      /\ sessions' = [sessions EXCEPT ![KeyOf[c]] = IF @ = c THEN NoConn ELSE @]
      /\ UNCHANGED <<conn, overdue, serverCancel>>
  BY DEF GiveUpKey, Goto, world
<1>3. \A d \in Conns : /\ at'[d] \in HoldsClaim <=> at[d] \in HoldsClaim
                       /\ at[d] \in HoldsClaim => at'[d] = at[d]
  BY <1>2 DEF TypeInv, TypeOK, HoldsClaim, Waiting, Welcomed, InLoop
<1>4. ASSUME NEW d \in Conns, at'[d] \in HoldsClaim, KeyOf[d] \notin overdue', ~serverCancel'
      PROVE  InQueue(rank, d)'
  <2>1. InQueue(rank, d) /\ at[d] \in HoldsClaim
    BY <1>1, <1>2, <1>3, <1>4
  <2>2. Peers(d)' = Peers(d) /\ Peers(d) \subseteq Conns
    BY <1>3 DEF Peers
  <2>3. \A e \in Peers(d) : Queued(rank, d, e) => Queued(rank, d, e)'
    BY <1>2, <1>3, <2>1, <2>2 DEF Queued
  <2>4. at[c] \notin HoldsClaim
    BY <1>2 DEF HoldsClaim, Waiting, Welcomed, InLoop
  <2>5. sessions'[KeyOf[d]] = sessions[KeyOf[d]]
    BY <1>2, <2>1, <2>4, SessionAssumption DEF InQueue, TypeInv, TypeOK
  <2>6. QED
    BY <1>2, <1>3, <2>1, <2>2, <2>3, <2>5 DEF InQueue
<1>5. QED
  BY <1>1, <1>4 DEF QueueInv

\* Every step keeps the queues.
LEMMA NextQueueInv ==
    TypeInv /\ LifeInv /\ OneSessionPerKey /\ QueueInv /\ [Next]_vars => QueueInv'
<1> SUFFICES ASSUME TypeInv, LifeInv, OneSessionPerKey, QueueInv, [Next]_vars PROVE QueueInv'
  OBVIOUS
<1> USE DEF TypeInv, TypeOK, Goto, Become, Conn, InLoop, Welcomed, HoldsClaim, Waiting
<1>1. ASSUME NEW c \in Conns, Connect(c) PROVE QueueKept
  BY <1>1 DEF Connect, portVars, QueueKept, world
<1>2. ASSUME NEW c \in Conns, CloseUngreeted(c) PROVE QueueKept
  BY <1>2 DEF CloseUngreeted, portVars, QueueKept, world
<1>3. ASSUME NEW c \in Conns, Subscribe(c) PROVE QueueKept
  BY <1>3 DEF Subscribe, portVars, QueueKept, world
<1>4. ASSUME NEW c \in Conns, LookUp(c) PROVE QueueKept
  BY <1>4 DEF LookUp, portVars, QueueKept, world
<1>5. ASSUME NEW c \in Conns, CloseDenied(c) PROVE QueueKept
  BY <1>5 DEF CloseDenied, portVars, QueueKept, world
<1>6. ASSUME NEW c \in Conns, Stake(c) PROVE QueueInv'
  BY <1>6, LastJoins
<1>7. ASSUME NEW c \in Conns, CancelPrevious(c) PROVE QueueKept
  <2>1. Superseded(c)
    BY <1>7, CancelPreviousEffect
  <2>2. QED
    BY <2>1 DEF Superseded, QueueKept
<1>8. ASSUME NEW c \in Conns, PreviousDone(c) PROVE QueueInv'
  BY <1>8, FirstGoesOn
<1>9. ASSUME NEW c \in Conns, SupersedeTimeout(c) PROVE QueueInv'
  BY <1>9, TimedOut
<1>10. ASSUME NEW c \in Conns, SupersedeShutdown(c) PROVE QueueInv'
  BY <1>10 DEF SupersedeShutdown, world, QueueInv
<1>11. ASSUME NEW c \in Conns, Welcome(c) PROVE QueueKept
  BY <1>11 DEF Welcome, portVars, QueueKept, world
<1>12. ASSUME NEW c \in Conns, WelcomeFails(c) PROVE QueueInv'
  <2>1. /\ at[c] \in HoldsClaim \ Waiting /\ at' = [at EXCEPT ![c] = "dropping"]
        /\ UNCHANGED <<sessions, serverCancel>> /\ overdue \subseteq overdue'
    BY <1>12 DEF WelcomeFails, SignalDone, world
  <2>2. \A d \in Conns : conn'[d].previous = conn[d].previous
    BY <1>12 DEF WelcomeFails, SignalDone
  <2>3. QED
    BY <2>1, <2>2, FirstLeaves
<1>13. ASSUME NEW c \in Conns, GiveUpKey(c) PROVE QueueInv'
  BY <1>13, KeyGivenUp
<1>14. ASSUME NEW c \in Conns, CloseTransport(c) PROVE QueueKept
  BY <1>14 DEF CloseTransport, portVars, QueueKept, world
<1>15. ASSUME NEW c \in Conns, Stopped(c) PROVE QueueKept
  BY <1>15 DEF Stopped, End, StopServices, QueueKept, world
<1>16. ASSUME NEW c \in Conns, Unresponsive(c) PROVE QueueKept
  BY <1>16 DEF Unresponsive, End, StopServices, QueueKept, world
<1>17. ASSUME NEW c \in Conns, ControlEnds(c) PROVE QueueKept
  BY <1>17 DEF ControlEnds, End, StopServices, QueueKept, world
<1>18. ASSUME NEW c \in Conns, SendFails(c) PROVE QueueKept
  BY <1>18 DEF SendFails, End, StopServices, QueueKept, world
<1>19. ASSUME NEW c \in Conns, Chatter(c) PROVE QueueKept
  BY <1>19 DEF Chatter, Answer, portVars, QueueKept, world
<1>20. ASSUME NEW c \in Conns, TakePending(c) PROVE QueueKept
  BY <1>20 DEF TakePending, portVars, QueueKept, world
<1>21. ASSUME NEW c \in Conns, Regrant(c) PROVE QueueKept
  <2>1. Regranted(c) /\ UNCHANGED <<sessions, overdue, serverCancel>>
    BY <1>21, RegrantEffect DEF Regrant, world
  <2>2. QED
    BY <2>1 DEF Regranted, QueueKept
<1>22. ASSUME NEW c \in Conns, NEW r \in Asks, Bind(c, r) PROVE QueueKept
  <2>1. CASE \E m \in Reply : Answer(c, m)
    BY <1>22, <2>1 DEF Bind, Answer, portVars, QueueKept, world
  <2>2. CASE Become(c, [conn[c] EXCEPT !.request = r]) /\ Goto(c, "opening")
    BY <1>22, <2>2 DEF Bind, portVars, QueueKept, world
  <2>3. QED
    BY <1>22, <2>1, <2>2 DEF Bind, Reply
<1>23. ASSUME NEW c \in Conns, ClaimFixed(c) PROVE QueueKept
  BY <1>23 DEF ClaimFixed, QueueKept, world
<1>24. ASSUME NEW c \in Conns, ClaimFromPool(c) PROVE QueueKept
  BY <1>24 DEF ClaimFromPool, QueueKept, world
<1>25. ASSUME NEW c \in Conns, OpenFails(c) PROVE QueueKept
  BY <1>25 DEF OpenFails, Answer, QueueKept, world
<1>26. ASSUME NEW c \in Conns, HostRefuses(c) PROVE QueueKept
  <2>1. CASE Answer(c, "answer")
    BY <1>26, <2>1 DEF HostRefuses, Answer, QueueKept, world
  <2>2. CASE Goto(c, "opening") /\ UNCHANGED conn
    BY <1>26, <2>2 DEF HostRefuses, QueueKept, world
  <2>3. QED
    BY <1>26, <2>1, <2>2 DEF HostRefuses
<1>27. ASSUME NEW c \in Conns, HostBinds(c) PROVE QueueKept
  <2>1. Served(c) /\ UNCHANGED <<sessions, overdue, serverCancel>>
    BY <1>27, HostBindsEffect DEF HostBinds, world
  <2>2. QED
    BY <2>1 DEF Served, QueueKept
<1>28. ASSUME NEW c \in Conns, NEW b \in conn[c].services, Unbind(c, b) PROVE QueueKept
  BY <1>28 DEF Unbind, StopServices, QueueKept, world
<1>29. ASSUME NEW c \in Conns, Freed(c) PROVE QueueKept
  BY <1>29 DEF Freed, portVars, QueueKept, world
<1>30. ASSUME NEW c \in Conns, SendReply(c) PROVE QueueKept
  <2>1. CASE End(c)
    BY <1>30, <2>1 DEF SendReply, End, StopServices, QueueKept, world
  <2>2. CASE /\ conn[c].reply = "answer" /\ Goto(c, "serving")
             /\ UNCHANGED <<portVars, conn, sessions, overdue, world>>
    BY <1>30, <2>2 DEF SendReply, portVars, QueueKept, world
  <2>3. QED
    BY <1>30, <2>1, <2>2 DEF SendReply
<1>31. ASSUME NEW c \in Conns, ReplyOvertaken(c) PROVE QueueKept
  BY <1>31 DEF ReplyOvertaken, portVars, QueueKept, world
<1>32. ASSUME NEW c \in Conns, Leave(c) PROVE QueueInv'
  <2>1. /\ at[c] \in HoldsClaim \ Waiting /\ at' = [at EXCEPT ![c] = "dropping"]
        /\ UNCHANGED <<sessions, serverCancel>> /\ overdue \subseteq overdue'
    BY <1>32 DEF Leave, SignalDone, world
  <2>2. \A d \in Conns : conn'[d].previous = conn[d].previous
    BY <1>32 DEF Leave, SignalDone
  <2>3. QED
    BY <2>1, <2>2, FirstLeaves
<1>33. ASSUME NEW c \in Conns, Unwind(c) PROVE QueueInv'
  <2>1. /\ at[c] \in HoldsClaim \ Waiting /\ at' = [at EXCEPT ![c] = "dropping"]
        /\ UNCHANGED <<sessions, serverCancel>> /\ overdue \subseteq overdue'
    BY <1>33 DEF Unwind, world
  <2>2. \A d \in Conns : conn'[d].previous = conn[d].previous
    BY <1>33 DEF Unwind
  <2>3. QED
    BY <2>1, <2>2, FirstLeaves
<1>34. ASSUME NEW t \in tasks, CloseSocket(t) PROVE QueueKept
  BY <1>34 DEF CloseSocket, QueueKept, world
<1>35. ASSUME NEW t \in tasks, ReleasePort(t) PROVE QueueKept
  BY <1>35 DEF ReleasePort, Release, QueueKept, world
<1>36. ASSUME NEW p \in Policies, Reload(p) PROVE QueueKept
  <2>1. Reloaded(p)
    BY <1>36, ReloadEffect
  <2>2. QED
    BY <2>1 DEF Reloaded, QueueKept
<1>37. ASSUME ShutDown PROVE QueueInv'
  BY <1>37 DEF ShutDown, QueueInv
<1>38. ASSUME UNCHANGED vars PROVE QueueKept
  BY <1>38 DEF vars, QueueKept, world
<1>q. QED
  BY QueueStands, <1>1, <1>2, <1>3, <1>4, <1>5, <1>6, <1>7, <1>8, <1>9, <1>10, <1>11, <1>12,
     <1>13, <1>14, <1>15, <1>16, <1>17, <1>18, <1>19, <1>20, <1>21, <1>22, <1>23,
     <1>24, <1>25, <1>26, <1>27, <1>28, <1>29, <1>30, <1>31, <1>32, <1>33, <1>34,
     <1>35, <1>36, <1>37, <1>38
     DEF Next, Greet, Settle, Close, Hear, Open, Break, Turn, Finished

-----------------------------------------------------------------------------
(***************************************************************************)
(* The parts together are inductive; what the sessions promise follows.    *)
(***************************************************************************)
SessionInv == /\ TypeInv /\ PortInv /\ LifeInv /\ OneSessionPerKey /\ GivenInv
              /\ GrantInv /\ LeftInv /\ FreeingInv /\ QueueInv

\* The server starts without sessions, services or reloads.
LEMMA InitSessionInv == Init => SessionInv
<1> SUFFICES ASSUME Init PROVE SessionInv
  OBVIOUS
<1> USE DEF Init, NewConn
<1>1. TypeInv /\ PortInv
  BY InitTypeInv, InitPortInv
<1>2. LifeInv
  BY DEF LifeInv, OpenIsServed, IdsGiven, TasksNamed, StageInv
<1>3. OneSessionPerKey /\ GivenInv
  BY DEF OneSessionPerKey, GivenInv, HoldsClaim, Waiting, Welcomed, InLoop
<1>4. GrantInv
  BY DEF GrantInv, Granting, Waiting, InLoop
<1>5. LeftInv /\ FreeingInv
  BY DEF LeftInv, TasksOf, FreeingInv
<1>6. QueueInv
  <2>1. \A c \in Conns : at[c] \notin HoldsClaim
    BY DEF HoldsClaim, Waiting, Welcomed, InLoop
  <2>2. [c \in Conns |-> 0] \in [Conns -> Nat]
    OBVIOUS
  <2>3. QED
    BY <2>1, <2>2 DEF QueueInv
<1>7. QED
  BY <1>1, <1>2, <1>3, <1>4, <1>5, <1>6 DEF SessionInv

\* Every step keeps the parts together.
LEMMA NextSessionInv == SessionInv /\ [Next]_vars => SessionInv'
BY NextTypeInv, NextPortInv, NextLifeInv, NextOneSession, NextGivenInv, NextGrantInv,
   NextLeftInv, NextFreeingInv, NextQueueInv
   DEF SessionInv

\* The parts hold at every moment.
LEMMA SessionsAccounted == Spec => []SessionInv
BY InitSessionInv, NextSessionInv, PTL DEF Spec

\* A key has one session, however many of its connections race from `Claim::stake'
\* through the wait for the one before to the claim's drop: each other one has been
\* told to stop or is about to be, and the map names none that is gone.
THEOREM KeyHasOneSession == Spec => []OneSessionPerKey
<1>1. SessionInv => OneSessionPerKey
  BY DEF SessionInv
<1>2. QED
  BY <1>1, SessionsAccounted, PTL

\* When `done' fires, on every way out of `serve' and on a panic as well, no service
\* of the session takes visitors any more.
THEOREM DoneIsStopped == Spec => []DoneMeansStopped
<1>1. SessionInv => DoneMeansStopped
  <2> SUFFICES ASSUME SessionInv, NEW c \in Conns, conn[c].done, NEW t \in TasksOf(c)
               PROVE  t.socket # "open"
    BY DEF DoneMeansStopped
  <2>1. conn[c].services = {}
    BY DEF SessionInv, LifeInv, StageInv, Ended, InLoop
  <2>2. QED
    BY <2>1 DEF SessionInv, LifeInv, OpenIsServed, TasksOf
<1>2. QED
  BY <1>1, SessionsAccounted, PTL

\* An id that `bind' has given is not given again until the session ends, and every
\* service a session lists has its running task.
THEOREM IdsAreUnique == Spec => []IdsNameOneService
<1>1. SessionInv => IdsNameOneService
  BY DEF SessionInv, LifeInv, TasksNamed, GivenInv, IdsNameOneService
<1>2. QED
  BY <1>1, SessionsAccounted, PTL

\* A session that has seen the last reload, on any path from `borrow_and_update' or
\* `regrant', has the grant of the policy and no fixed port outside it, or is ending.
THEOREM ReloadsHonoured == Spec => []GrantHonoured
<1>1. SessionInv => GrantHonoured
  BY DEF SessionInv, GrantInv, GrantHonoured, Granting, Honoured
<1>2. QED
  BY <1>1, SessionsAccounted, PTL

\* A client that is welcomed after `Claim::stake' made it wait finds no task of its
\* last sessions, however many superseded each other, unless a wait ran out or the
\* server is going down.
THEOREM PortsFreeOnWelcome == Spec => []WelcomeFindsPortsFree
<1>1. SessionInv => WelcomeFindsPortsFree
  <2> SUFFICES ASSUME SessionInv, NEW c \in Conns, at[c] \in Welcomed, ~serverCancel,
                      KeyOf[c] \notin overdue,
                      NEW t \in tasks, KeyOf[t.conn] = KeyOf[c], t.conn # c
               PROVE  FALSE
    BY DEF WelcomeFindsPortsFree
  <2>1. PICK d : d = t.conn
    OBVIOUS
  <2>2. d \in Conns /\ KeyOf[d] = KeyOf[c] /\ d # c
    BY <2>1 DEF SessionInv, TypeInv, TypeOK, Task
  <2>3. at[d] \in Welcomed
    BY <2>1, <2>2 DEF SessionInv, LeftInv, TasksOf
  <2>4. PICK rank \in [Conns -> Nat] : \A e \in Conns :
            at[e] \in HoldsClaim /\ KeyOf[e] \notin overdue /\ ~serverCancel
                => InQueue(rank, e)
    BY DEF SessionInv, QueueInv
  <2>5. at[c] \in HoldsClaim \ Waiting /\ at[d] \in HoldsClaim \ Waiting
    BY <2>3 DEF HoldsClaim, Waiting, Welcomed, InLoop
  <2>6. InQueue(rank, c) /\ InQueue(rank, d) /\ c \in Peers(d) /\ d \in Peers(c)
    BY <2>2, <2>4, <2>5 DEF Peers
  <2>7. rank[c] # rank[d] /\ ~(rank[c] < rank[d]) /\ ~(rank[d] < rank[c])
    BY <2>5, <2>6 DEF InQueue, Queued
  <2>8. QED
    BY <2>2, <2>4, <2>7
<1>2. QED
  BY <1>1, SessionsAccounted, PTL

\* A client that unbinds and binds the same port again is not refused because of its
\* own old listener, since `freed' waits for the port before the next message is read,
\* unless that wait ran out, a reload took the service or the server is going down.
THEOREM PortFreeOnRebind == Spec => []RebindFindsPortFree
<1>1. SessionInv => RebindFindsPortFree
  BY DEF SessionInv, FreeingInv, RebindFindsPortFree, TasksOf, InLoop, TypeInv, TypeOK
<1>2. QED
  BY <1>1, SessionsAccounted, PTL
=============================================================================
