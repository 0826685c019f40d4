----------------------------- MODULE UdpProofs -----------------------------
(***************************************************************************)
(* Proofs about two parts of UDP that are joined only by whom a payload is *)
(* for.                                                                    *)
(*                                                                         *)
(* Module UdpLocal: the sessions of a UDP service on the client, their     *)
(* readers, and the bulk task that waits for its service, for any ids, any *)
(* cap, any number of packets and any clock.                               *)
(*                                                                         *)
(* Module UdpPath: the payloads of a session on their two paths, for any   *)
(* sizes, any MTU, any queues and any number of payloads.                  *)
(***************************************************************************)
EXTENDS UdpLocal, UdpPath, FiniteSetTheorems, TLAPS

-----------------------------------------------------------------------------
(***************************************************************************)
(* The inductive invariant.                                                *)
(***************************************************************************)
\* A task that has a packet in hand has the id it is for, and one that has opened a
\* session and not yet spawned its reader holds a session without one, that is no
\* other task's to spawn for.
TasksInv ==
    /\ \A d \in Tasks : at[d] \in {"locking", "connecting"} => wants[d] \in Ids
    /\ \A d \in Tasks : at[d] = "spawning" =>
           /\ holds[d] \in Handles
           /\ handle[holds[d]].id \in Ids /\ handle[holds[d]].reader = "none"
    /\ \A d, e \in Tasks : at[d] = "spawning" /\ at[e] = "spawning" /\ holds[d] = holds[e]
           => d = e

\* A session in the map is the one that was opened for the id it is found under.
MapInv == \A i \in Ids : sessions[i] # None => handle[sessions[i]].id = i

\* A session in the map has a reader that will take it out, or is about to.
ServedInv ==
    \A i \in Ids : sessions[i] # None =>
        \/ handle[sessions[i]].reader \in {"running", "checking", "forgetting"}
        \/ \E d \in Tasks : at[d] = "spawning" /\ holds[d] = sessions[i]

\* A session whose reader has not decided to go is in the map or was evicted, from
\* the moment it is opened: before its reader is spawned too.
Staying(h) == handle[h].id \in Ids /\ handle[h].reader \in {"none", "running", "checking"}
ReadersInv ==
    /\ \A h \in Handles : handle[h].reader # "none" => handle[h].id \in Ids
    /\ \A h \in Handles : Staying(h) =>
           sessions[handle[h].id] = h \/ handle[h].cancelled

\* Every session opened counts once against the cap.
CapInv == IsFiniteSet(Held) /\ Cardinality(Held) <= Cap

UdpInv == TypeOK /\ TasksInv /\ MapInv /\ ServedInv /\ ReadersInv /\ CapInv

-----------------------------------------------------------------------------
\* The steps that change one handle only, and neither its id nor its token: what its
\* reader and its clocks become.
ChangesReader(h, l) ==
    /\ handle' \in [Handles -> Session]
    /\ \A g \in Handles : g # h => handle'[g] = handle[g]
    /\ h \in Handles => /\ handle'[h].id = handle[h].id
                        /\ handle'[h].cancelled = handle[h].cancelled
                        /\ handle'[h].reader = l

LEMMA ReaderEffect ==
    ASSUME TypeOK, NEW h \in Handles, NEW l \in Reader, ReaderGoes(h, l)
    PROVE  ChangesReader(h, l)
<1>1. PICK s : s = [handle[h] EXCEPT !.reader = l]
  OBVIOUS
<1>2. s \in Session /\ s.id = handle[h].id /\ s.cancelled = handle[h].cancelled /\ s.reader = l
  BY <1>1 DEF TypeOK, Session
<1>3. handle' = [handle EXCEPT ![h] = s]
  BY <1>1 DEF TypeOK, ReaderGoes
<1> QED
  BY <1>2, <1>3 DEF TypeOK, ChangesReader

LEMMA TouchEffect ==
    ASSUME UdpAssumption, TypeOK, NEW d \in Tasks, Touch(d), holds[d] \in Handles
    PROVE  ChangesReader(holds[d], handle[holds[d]].reader)
<1>1. PICK h \in Handles : h = holds[d]
  OBVIOUS
<1>2. PICK s : s = [handle[h] EXCEPT !.used = now]
  OBVIOUS
<1>3. s \in Session /\ s.id = handle[h].id /\ s.cancelled = handle[h].cancelled
      /\ s.reader = handle[h].reader
  BY <1>2 DEF TypeOK, Session
<1>4. handle' = [handle EXCEPT ![h] = s]
  BY <1>1, <1>2 DEF TypeOK, Touch
<1> QED
  BY <1>1, <1>3, <1>4 DEF TypeOK, ChangesReader

LEMMA ReplyEffect ==
    ASSUME UdpAssumption, TypeOK, NEW h \in Handles, Reply(h)
    PROVE  ChangesReader(h, handle[h].reader)
<1>1. PICK s : s = [handle[h] EXCEPT !.used = now, !.expires = now + Idle]
  OBVIOUS
<1>2. /\ now + Idle \in 0..(MaxNow + Idle) /\ now \in 0..MaxNow
      /\ handle[h] \in Session
  BY DEF UdpAssumption, TypeOK
<1>3. s \in Session /\ s.id = handle[h].id /\ s.cancelled = handle[h].cancelled
      /\ s.reader = handle[h].reader
  BY <1>1, <1>2 DEF Session
<1>4. handle' = [handle EXCEPT ![h] = s]
  BY <1>1 DEF TypeOK, Reply
<1> QED
  BY <1>3, <1>4 DEF TypeOK, ChangesReader

LEMMA RestartEffect ==
    ASSUME UdpAssumption, TypeOK, NEW h \in Handles,
           handle' = [handle EXCEPT ![h] = [@ EXCEPT !.reader = "running",
                                                     !.expires = handle[h].used + Idle]]
    PROVE  ChangesReader(h, "running")
<1>1. PICK s : s = [handle[h] EXCEPT !.reader = "running", !.expires = handle[h].used + Idle]
  OBVIOUS
<1>2. handle[h].used + Idle \in 0..(MaxNow + Idle)
  BY DEF UdpAssumption, TypeOK, Session
<1>3. s \in Session /\ s.id = handle[h].id /\ s.cancelled = handle[h].cancelled
      /\ s.reader = "running"
  BY <1>1, <1>2 DEF TypeOK, Session, Reader
<1>4. handle' = [handle EXCEPT ![h] = s]
  BY <1>1 DEF TypeOK
<1> QED
  BY <1>3, <1>4 DEF TypeOK, ChangesReader

-----------------------------------------------------------------------------
\* What keeps the invariant, whoever does it.  A task moves on without opening or
\* serving a session, and a reader that stays stays.
LEMMA TasksMove ==
    ASSUME UdpInv, UNCHANGED <<sessions, handle>>,
           at' \in [Tasks -> Location], wants' \in [Tasks -> Ids \cup {NoId}],
           holds' \in [Tasks -> Handles \cup {None}],
           now' \in 0..MaxNow, packets' \in 0..MaxPackets,
           service' \in {"unbound", "inserted", "bound", "removed", "stopped", "gone"},
           notified' \in BOOLEAN,
           \A d \in Tasks : at'[d] \in {"locking", "connecting"} => wants'[d] \in Ids,
           \A d \in Tasks : (at'[d] = "spawning") <=> (at[d] = "spawning"),
           \A d \in Tasks : at[d] = "spawning" => holds'[d] = holds[d]
    PROVE  UdpInv'
<1>1. TypeOK' /\ MapInv' /\ ReadersInv' /\ CapInv'
  BY DEF UdpInv, TypeOK, MapInv, ReadersInv, CapInv, Held, Staying
<1>2. TasksInv'
  BY DEF UdpInv, TypeOK, TasksInv
<1>3. ServedInv'
  BY DEF UdpInv, TypeOK, ServedInv
<1> QED
  BY <1>1, <1>2, <1>3 DEF UdpInv

\* One handle changes, and the map stays: its reader goes from one stage in which it
\* serves the session to another, or is not spawned yet and stays so.
LEMMA HandleMoves ==
    ASSUME UdpInv, NEW h \in Handles, NEW l \in Reader, ChangesReader(h, l),
           l \in {"running", "checking", "forgetting"} \/ l = handle[h].reader,
           l \in {"running", "checking"} => handle[h].reader \in {"none", "running", "checking"},
           handle[h].reader = "none" /\ l # "none" => handle[h].id \in Ids,
           UNCHANGED <<now, service, notified, packets, wants, holds, sessions>>,
           at' \in [Tasks -> Location],
           \A d \in Tasks : at'[d] \in {"locking", "connecting"} => at'[d] = at[d],
           \A d \in Tasks : at'[d] = "spawning" => at[d] = "spawning",
           \A d \in Tasks : at'[d] = "spawning" /\ holds[d] = h => l = "none",
           \A d \in Tasks : at[d] = "spawning" /\ at'[d] # "spawning"
               => holds[d] = h /\ l = "running"
    PROVE  UdpInv'
<1>1. TypeOK' /\ CapInv'
  BY DEF UdpInv, TypeOK, CapInv, Held, ChangesReader
<1>2. TasksInv'
  BY DEF UdpInv, TypeOK, TasksInv, ChangesReader
<1>3. MapInv'
  BY DEF UdpInv, TypeOK, MapInv, ChangesReader
<1>4. ServedInv'
  <2> SUFFICES ASSUME NEW i \in Ids, sessions[i] # None
               PROVE  \/ handle'[sessions[i]].reader \in {"running", "checking", "forgetting"}
                      \/ \E d \in Tasks : at'[d] = "spawning" /\ holds[d] = sessions[i]
    BY DEF ServedInv
  <2> sessions[i] \in Handles
    BY DEF UdpInv, TypeOK
  <2>1. CASE \E d \in Tasks : at[d] = "spawning" /\ holds[d] = sessions[i]
    BY <2>1 DEF UdpInv, TypeOK, TasksInv, ChangesReader
  <2>2. CASE handle[sessions[i]].reader \in {"running", "checking", "forgetting"}
    BY <2>2 DEF ChangesReader
  <2> QED
    BY <2>1, <2>2 DEF UdpInv, ServedInv
<1>5. ReadersInv'
  <2> SUFFICES ASSUME NEW g \in Handles
               PROVE  /\ handle'[g].reader # "none" => handle'[g].id \in Ids
                      /\ Staying(g)' => sessions[handle'[g].id] = g \/ handle'[g].cancelled
    BY DEF ReadersInv
  <2>1. CASE g # h
    BY <2>1 DEF UdpInv, ReadersInv, Staying, ChangesReader
  <2>2. CASE g = h
    BY <2>2 DEF UdpInv, ReadersInv, Staying, ChangesReader
  <2> QED
    BY <2>1, <2>2
<1> QED
  BY <1>1, <1>2, <1>3, <1>4, <1>5 DEF UdpInv

\* A reader leaves: its session is taken out of the map, if it is still there, and no
\* other is.
LEMMA ReaderLeaves ==
    ASSUME UdpInv, NEW h \in Handles, NEW l \in {"gone", "expired"},
           handle[h].reader # "none", Forget(h), ChangesReader(h, l),
           UNCHANGED <<now, service, notified, packets, at, wants, holds>>
    PROVE  UdpInv'
<1>1. handle[h].id \in Ids
  BY DEF UdpInv, ReadersInv
<1>2. /\ sessions' \in [Ids -> Handles \cup {None}]
      /\ \A i \in Ids : sessions'[i] = IF sessions[i] = h THEN None ELSE sessions[i]
  BY <1>1 DEF UdpInv, TypeOK, MapInv, Forget, Handles, None
<1>3. TypeOK'
  BY <1>2 DEF UdpInv, TypeOK, ChangesReader
<1>4. TasksInv'
  BY DEF UdpInv, TypeOK, TasksInv, ChangesReader
<1>5. MapInv'
  BY <1>2 DEF UdpInv, TypeOK, MapInv, ChangesReader
<1>6. ServedInv'
  BY <1>2 DEF UdpInv, TypeOK, ServedInv, ChangesReader
<1>7. ReadersInv'
  <2> SUFFICES ASSUME NEW g \in Handles
               PROVE  /\ handle'[g].reader # "none" => handle'[g].id \in Ids
                      /\ Staying(g)' => sessions'[handle'[g].id] = g \/ handle'[g].cancelled
    BY DEF ReadersInv
  <2>1. CASE g # h
    BY <1>2, <2>1 DEF UdpInv, ReadersInv, Staying, ChangesReader
  <2>2. CASE g = h
    BY <1>1, <2>2 DEF Staying, ChangesReader
  <2> QED
    BY <2>1, <2>2
<1>8. CapInv'
  <2>1. Held' \subseteq Held
    BY <1>2 DEF Held
  <2>2. IsFiniteSet(Held') /\ Cardinality(Held') <= Cardinality(Held)
    BY <2>1, FS_Subset DEF UdpInv, CapInv
  <2>3. Cardinality(Held) \in Nat /\ Cardinality(Held') \in Nat
    BY <2>2, FS_CardinalityType DEF UdpInv, CapInv
  <2> QED
    BY <2>2, <2>3, UdpAssumption DEF UdpAssumption, UdpInv, CapInv
<1> QED
  BY <1>3, <1>4, <1>5, <1>6, <1>7, <1>8 DEF UdpInv

\* A session is opened, at the cap in the place of one that is evicted.
LEMMA SessionOpens ==
    ASSUME UdpInv, NEW d \in Tasks, OpenSession(d)
    PROVE  UdpInv'
<1> USE UdpAssumption
<1> DEFINE i == wants[d]
<1>1. i \in Ids /\ sessions[i] = None
  BY DEF UdpInv, TasksInv, OpenSession, Vacant
<1>2. PICK h \in Handles, gone \in IF Full(i) THEN Quietest ELSE {NoId} :
          /\ Fresh(h)
          /\ sessions' = [j \in Ids |-> CASE j = i    -> h
                                          [] j = gone -> None
                                          [] OTHER    -> sessions[j]]
          /\ handle' = [g \in Handles |->
                CASE g = h -> Opened(i)
                  [] gone # NoId /\ g = sessions[gone] -> [handle[g] EXCEPT !.cancelled = TRUE]
                  [] OTHER -> handle[g]]
          /\ holds' = [holds EXCEPT ![d] = h]
  BY DEF OpenSession
<1>3. /\ at' = [at EXCEPT ![d] = "spawning"]
      /\ UNCHANGED <<now, service, notified, packets, wants>>
  BY DEF OpenSession, Goto
<1>4. h # None /\ handle[h].id = NoId /\ NoId \notin Ids
  BY <1>2 DEF Fresh, Handles, None, UdpAssumption
<1>5. gone = NoId \/ (gone \in Ids /\ sessions[gone] # None /\ gone # i)
  BY <1>1, <1>2 DEF Quietest, Held
<1>11. \A j \in Ids : sessions[j] # h
  BY <1>4 DEF UdpInv, MapInv
<1> HIDE DEF i
<1>6. /\ sessions' \in [Ids -> Handles \cup {None}]
      /\ sessions'[i] = h
      /\ gone \in Ids => sessions'[gone] = None
      /\ \A j \in Ids : j # i /\ j # gone => sessions'[j] = sessions[j]
  BY <1>1, <1>2, <1>5 DEF UdpInv, TypeOK
<1>7. /\ Opened(i) \in Session
      /\ Opened(i).id = i /\ Opened(i).reader = "none"
  BY <1>1 DEF UdpInv, TypeOK, Opened, Session, Reader, UdpAssumption
<1>8. ASSUME NEW g \in Handles
      PROVE  LET s == [handle[g] EXCEPT !.cancelled = TRUE]
             IN  s \in Session /\ s.id = handle[g].id /\ s.reader = handle[g].reader
                 /\ s.cancelled
  BY DEF UdpInv, TypeOK, Session
<1>9. /\ handle' \in [Handles -> Session]
      /\ handle'[h].id = i /\ handle'[h].reader = "none"
      /\ \A g \in Handles : g # h => /\ handle'[g].id = handle[g].id
                                     /\ handle'[g].reader = handle[g].reader
                                     /\ handle[g].cancelled => handle'[g].cancelled
      /\ gone \in Ids /\ sessions[gone] # h => handle'[sessions[gone]].cancelled
  <2>1. \A g \in Handles : g # h =>
            handle'[g] \in {handle[g], [handle[g] EXCEPT !.cancelled = TRUE]}
    BY <1>2
  <2>2. handle'[h] = Opened(i)
    BY <1>2, <1>5, <1>11
  <2>3. gone \in Ids /\ sessions[gone] # h =>
            handle'[sessions[gone]] = [handle[sessions[gone]] EXCEPT !.cancelled = TRUE]
    <3> SUFFICES ASSUME gone \in Ids, sessions[gone] # h
                 PROVE  handle'[sessions[gone]]
                            = [handle[sessions[gone]] EXCEPT !.cancelled = TRUE]
      OBVIOUS
    <3>1. PICK g : g = sessions[gone]
      OBVIOUS
    <3>2. g \in Handles /\ g # h /\ gone # NoId
      BY <1>4, <1>5, <3>1 DEF UdpInv, TypeOK
    <3> QED
      BY <1>2, <3>1, <3>2
  <2>4. handle' \in [Handles -> Session]
    <3>1. \A g \in Handles : handle'[g] \in Session
      BY <1>7, <1>8, <2>1, <2>2 DEF UdpInv, TypeOK
    <3>2. handle' = [g \in Handles |-> handle'[g]]
      BY <1>2
    <3> QED
      BY <3>1, <3>2
  <2>5. \A g \in Handles : g # h => /\ handle'[g].id = handle[g].id
                                    /\ handle'[g].reader = handle[g].reader
                                    /\ handle[g].cancelled => handle'[g].cancelled
    BY <1>8, <2>1
  <2>6. gone \in Ids /\ sessions[gone] # h => handle'[sessions[gone]].cancelled
    <3>1. gone \in Ids => sessions[gone] \in Handles
      BY <1>4, <1>5 DEF UdpInv, TypeOK
    <3> QED
      BY <1>8, <2>3, <3>1
  <2> QED
    BY <1>7, <2>2, <2>4, <2>5, <2>6
<1>10. TypeOK'
  BY <1>2, <1>3, <1>6, <1>9 DEF UdpInv, TypeOK, Location
<1>12. \A e \in Tasks : at[e] = "spawning" => holds[e] # h
  BY <1>4 DEF UdpInv, TasksInv
<1>13. TasksInv'
  <2>1. /\ \A e \in Tasks : at'[e] = IF e = d THEN "spawning" ELSE at[e]
        /\ \A e \in Tasks : holds'[e] = IF e = d THEN h ELSE holds[e]
        /\ wants' = wants
    BY <1>2, <1>3 DEF UdpInv, TypeOK
  <2> QED
    BY <1>1, <1>9, <1>12, <2>1 DEF UdpInv, TasksInv
<1>14. MapInv'
  BY <1>4, <1>5, <1>6, <1>9, <1>11 DEF UdpInv, TypeOK, MapInv
<1>15. ServedInv'
  <2> SUFFICES ASSUME NEW j \in Ids, sessions'[j] # None
               PROVE  \/ handle'[sessions'[j]].reader \in {"running", "checking", "forgetting"}
                      \/ \E e \in Tasks : at'[e] = "spawning" /\ holds'[e] = sessions'[j]
    BY DEF ServedInv
  <2>1. CASE j = i
    BY <1>2, <1>3, <1>6, <2>1 DEF UdpInv, TypeOK
  <2>2. CASE j # i
    <3>1. sessions'[j] = sessions[j] /\ sessions[j] \in Handles /\ sessions[j] # h
      BY <1>5, <1>6, <1>11, <2>2 DEF UdpInv, TypeOK
    <3>2. CASE handle[sessions[j]].reader \in {"running", "checking", "forgetting"}
      BY <1>9, <3>1, <3>2
    <3>3. CASE \E e \in Tasks : at[e] = "spawning" /\ holds[e] = sessions[j]
      <4>1. PICK e \in Tasks : at[e] = "spawning" /\ holds[e] = sessions[j]
        BY <3>3
      <4>2. e # d
        BY <4>1 DEF OpenSession
      <4> QED
        BY <1>2, <1>3, <3>1, <4>1, <4>2 DEF UdpInv, TypeOK
    <3> QED
      BY <3>1, <3>2, <3>3 DEF UdpInv, ServedInv
  <2> QED
    BY <2>1, <2>2
<1>16. ReadersInv'
  <2> SUFFICES ASSUME NEW g \in Handles
               PROVE  /\ handle'[g].reader # "none" => handle'[g].id \in Ids
                      /\ Staying(g)' => sessions'[handle'[g].id] = g \/ handle'[g].cancelled
    BY DEF ReadersInv
  <2>1. CASE g = h
    BY <1>6, <1>9, <2>1
  <2>2. CASE g # h
    <3>1. handle'[g].id = handle[g].id /\ handle'[g].reader = handle[g].reader
      BY <1>9, <2>2
    <3>2. ASSUME Staying(g), ~handle'[g].cancelled
          PROVE  sessions'[handle[g].id] = g
      <4>1. sessions[handle[g].id] = g /\ handle[g].id \in Ids
        BY <1>9, <2>2, <3>2 DEF UdpInv, ReadersInv, Staying
      <4>2. handle[g].id # i
        BY <1>1, <4>1 DEF Handles, None
      <4>3. handle[g].id # gone
        BY <1>9, <2>2, <3>2, <4>1
      <4> QED
        BY <1>6, <4>1, <4>2, <4>3
    <3> QED
      BY <3>1, <3>2 DEF UdpInv, ReadersInv, Staying
  <2> QED
    BY <2>1, <2>2
<1>17. CapInv'
  <2>0. IsFiniteSet(Held) /\ Cardinality(Held) \in Nat /\ Cardinality(Held) <= Cap
        /\ Cap \in Nat \ {0}
    BY FS_CardinalityType DEF UdpInv, CapInv, UdpAssumption
  <2>1. CASE gone = NoId
    <3>1. Held' = Held \cup {i}
      BY <1>1, <1>4, <1>6, <2>1 DEF Held
    <3>2. i \notin Held
      BY <1>1 DEF Held
    <3>3. IsFiniteSet(Held') /\ Cardinality(Held') = Cardinality(Held) + 1
      BY <2>0, <3>1, <3>2, FS_AddElement
    <3>4. ~(Cardinality(Held) >= Cap)
      BY <1>1, <1>2, <1>4, <2>1 DEF Full, Quietest, Held
    <3> QED
      BY <2>0, <3>3, <3>4 DEF CapInv
  <2>2. CASE gone # NoId
    <3>1. gone \in Held /\ gone # i
      BY <1>5, <2>2 DEF Held
    <3>2. PICK rest : rest = Held \ {gone}
      OBVIOUS
    <3>3. IsFiniteSet(rest) /\ Cardinality(rest) = Cardinality(Held) - 1
      BY <2>0, <3>1, <3>2, FS_RemoveElement
    <3>4. Held' = rest \cup {i} /\ i \notin rest
      BY <1>1, <1>4, <1>5, <1>6, <2>2, <3>2 DEF Held
    <3>5. IsFiniteSet(Held') /\ Cardinality(Held') = Cardinality(rest) + 1
      BY <3>3, <3>4, FS_AddElement
    <3> QED
      BY <2>0, <3>3, <3>5 DEF CapInv
  <2> QED
    BY <2>1, <2>2
<1> QED
  BY <1>10, <1>13, <1>14, <1>15, <1>16, <1>17 DEF UdpInv

-----------------------------------------------------------------------------
LEMMA UdpInit ==
    ASSUME Init PROVE UdpInv
<1> USE UdpAssumption
<1>1. TypeOK
  <2>1. Unused \in Session
    BY DEF Unused, Session, Reader, UdpAssumption
  <2>2. handle \in [Handles -> Session] /\ sessions \in [Ids -> Handles \cup {None}]
    BY <2>1 DEF Init
  <2>3. /\ at \in [Tasks -> Location] /\ wants \in [Tasks -> Ids \cup {NoId}]
        /\ holds \in [Tasks -> Handles \cup {None}]
    BY DEF Init, Location, Waiting
  <2>4. now \in 0..MaxNow /\ packets \in 0..MaxPackets
    BY DEF Init, UdpAssumption
  <2> QED
    BY <2>2, <2>3, <2>4 DEF Init, TypeOK
<1>2. TasksInv /\ MapInv /\ ServedInv
  BY DEF Init, TasksInv, MapInv, ServedInv, Tasks
<1>3. ReadersInv
  BY DEF Init, ReadersInv, Staying, Unused, UdpAssumption
<1>4. CapInv
  <2>1. Held = {}
    BY DEF Init, Held
  <2> QED
    BY <2>1, FS_EmptySet DEF CapInv, UdpAssumption
<1> QED
  BY <1>1, <1>2, <1>3, <1>4 DEF UdpInv

LEMMA UdpStep ==
    ASSUME UdpInv, [Next]_vars PROVE UdpInv'
<1> USE UdpAssumption
<1>1. CASE Insert \/ NotifyWaiters \/ Unregister
  BY <1>1, TasksMove DEF UdpInv, TypeOK, TasksInv, Insert, NotifyWaiters, Unregister
<1>2. CASE Enlist \/ FindService \/ Sleep \/ NeverBound
  <2>1. PICK l \in {"looking", "idle", "missed", "asleep", "ended"} :
            at' = [at EXCEPT !["bulk"] = l]
    BY <1>2 DEF Enlist, FindService, Sleep, NeverBound, Goto
  <2>2. /\ at["bulk"] \in Waiting /\ notified' \in BOOLEAN
        /\ UNCHANGED <<now, service, packets, wants, holds, sessions, handle>>
    BY <1>2 DEF UdpInv, TypeOK, Enlist, FindService, Sleep, NeverBound, Waiting
  <2>3. /\ at' \in [Tasks -> Location]
        /\ \A d \in Tasks : at'[d] = IF d = "bulk" THEN l ELSE at[d]
    BY <2>1 DEF UdpInv, TypeOK, Location, Waiting
  <2> QED
    BY <2>2, <2>3, TasksMove DEF UdpInv, TypeOK, TasksInv, Waiting
<1>3. ASSUME NEW d \in Tasks, EndDelivery(d) \/ ConnectFails(d) \/ Send(d) PROVE UdpInv'
  BY <1>3, TasksMove
     DEF UdpInv, TypeOK, TasksInv, EndDelivery, ConnectFails, Send, Goto, Location, None
<1>4. ASSUME NEW d \in Tasks, LookUp(d) \/ FindOpened(d) PROVE UdpInv'
  BY <1>4, TasksMove
     DEF UdpInv, TypeOK, TasksInv, LookUp, FindOpened, Goto, Location, None
<1>5. ASSUME NEW d \in Tasks, NEW i \in Ids, Arrive(d, i) PROVE UdpInv'
  BY <1>5, TasksMove DEF UdpInv, TypeOK, TasksInv, Arrive, Goto, Location, UdpAssumption
<1>6. ASSUME NEW d \in Tasks, OpenSession(d) PROVE UdpInv'
  BY <1>6, SessionOpens
<1>7. ASSUME NEW d \in Tasks, SpawnReader(d) PROVE UdpInv'
  <2>1. PICK h \in Handles : h = holds[d]
    BY <1>7 DEF SpawnReader, UdpInv, TasksInv
  <2>2. ChangesReader(h, "running")
    BY <1>7, <2>1, ReaderEffect DEF SpawnReader, ReaderGoes, UdpInv, Reader
  <2> QED
    BY <1>7, <2>1, <2>2, HandleMoves
       DEF SpawnReader, Goto, UdpInv, TypeOK, TasksInv, Reader, Location
<1>8. ASSUME NEW d \in Tasks, Touch(d) PROVE UdpInv'
  <2>1. CASE holds[d] \in Handles
    <3>1. PICK h \in Handles : h = holds[d]
      BY <2>1
    <3>2. ChangesReader(h, handle[h].reader)
      BY <1>8, <3>1, TouchEffect DEF UdpInv
    <3>3. /\ UNCHANGED <<now, service, notified, packets, wants, holds, sessions>>
          /\ at[d] = "touching" /\ at' = [at EXCEPT ![d] = "sending"]
      BY <1>8 DEF Touch, Goto
    <3>4. PICK l \in Reader : l = handle[h].reader
      BY DEF UdpInv, TypeOK, Session
    <3>5. \A e \in Tasks : at'[e] = IF e = d THEN "sending" ELSE at[e]
      BY <3>3 DEF UdpInv, TypeOK
    <3>6. at' \in [Tasks -> Location]
      BY <3>3 DEF UdpInv, TypeOK, Location
    <3> QED
      BY <3>2, <3>3, <3>4, <3>5, <3>6, HandleMoves DEF UdpInv, TasksInv
  <2>2. CASE holds[d] \notin Handles
    <3>1. handle' = handle
      BY <1>8, <2>2 DEF Touch, UdpInv, TypeOK
    <3> QED
      BY <1>8, <3>1, TasksMove DEF Touch, Goto, UdpInv, TypeOK, TasksInv, Location
  <2> QED
    BY <2>1, <2>2
<1>9. ASSUME NEW h \in Handles, Reply(h) PROVE UdpInv'
  <2>1. ChangesReader(h, "running") /\ handle[h].reader = "running"
    BY <1>9, ReplyEffect DEF Reply, UdpInv
  <2> QED
    BY <1>9, <2>1, HandleMoves DEF Reply, UdpInv, TypeOK, TasksInv, Reader
<1>10. ASSUME NEW h \in Handles, ReaderBreaks(h) \/ ReaderWakes(h) PROVE UdpInv'
  <2>1. PICK l \in {"forgetting", "checking"} : ReaderGoes(h, l)
    BY <1>10 DEF ReaderBreaks, ReaderWakes
  <2>2. ChangesReader(h, l)
    BY <2>1, ReaderEffect DEF UdpInv, Reader
  <2> QED
    BY <1>10, <2>1, <2>2, HandleMoves
       DEF ReaderBreaks, ReaderWakes, UdpInv, TypeOK, TasksInv, Reader
<1>11. ASSUME NEW h \in Handles, ReaderForgets(h) PROVE UdpInv'
  <2>1. ChangesReader(h, "gone")
    BY <1>11, ReaderEffect DEF ReaderForgets, UdpInv, Reader
  <2> QED
    BY <1>11, <2>1, ReaderLeaves DEF ReaderForgets
<1>12. ASSUME NEW h \in Handles, Recheck(h) PROVE UdpInv'
  <2>1. CASE Forget(h) /\ ReaderGoes(h, "expired")
    <3>1. ChangesReader(h, "expired")
      BY <2>1, ReaderEffect DEF UdpInv, Reader
    <3> QED
      BY <1>12, <2>1, <3>1, ReaderLeaves DEF Recheck
  <2>2. CASE /\ handle' = [handle EXCEPT ![h] = [@ EXCEPT !.reader = "running",
                                                 !.expires = handle[h].used + Idle]]
             /\ UNCHANGED sessions
    <3>1. ChangesReader(h, "running")
      BY <2>2, RestartEffect DEF UdpInv
    <3> QED
      BY <1>12, <2>2, <3>1, HandleMoves DEF Recheck, UdpInv, TypeOK, TasksInv, Reader
  <2> QED
    BY <1>12, <2>1, <2>2 DEF Recheck
<1>13. CASE Tick
  BY <1>13, TasksMove DEF Tick, UdpInv, TypeOK, TasksInv, UdpAssumption
<1>14. CASE UNCHANGED vars
  BY <1>14, TasksMove DEF vars, UdpInv, TypeOK, TasksInv
<1> QED
  BY <1>1, <1>2, <1>3, <1>4, <1>5, <1>6, <1>7, <1>8, <1>9, <1>10, <1>11, <1>12, <1>13, <1>14
     DEF Next, Deliver, Read, ReaderCancelled, Finished

\* A visitor has one socket towards the local service, every session in the client's
\* map has a reader that takes it out again, and there are at most SESSION_CAP of them,
\* whatever the two deliverers and the readers of client/udp.rs do at once.
THEOREM MapKeepsItsReaders == Spec => []MapAndReaders
<1>1. UdpInv => MapAndReaders
  BY DEF UdpInv, ServedInv, ReadersInv, CapInv, MapAndReaders, Staying, Stopped
<1> QED
  BY <1>1, UdpInit, UdpStep, PTL DEF Spec

\* Once its service is bound, a bulk task that found no service has been woken: from
\* the lookup on, and not from the moment it sleeps.
WakeInv == at["bulk"] \in {"missed", "asleep"} /\ service = "bound" => notified

\* The Bound that registers a service wakes the bulk stream that waits for it
\* (Registry::wait_for in client/udp.rs), wherever it falls.
THEOREM WakeupsReach == Spec => []NoLostWakeup
<1>1. Init => WakeInv
  BY DEF Init, WakeInv
<1>2. UdpInv /\ WakeInv /\ [Next]_vars => WakeInv'
  <2> SUFFICES ASSUME UdpInv, WakeInv, [Next]_vars PROVE WakeInv'
    OBVIOUS
  <2> "bulk" \in Tasks /\ at \in [Tasks -> Location]
    BY DEF UdpInv, TypeOK, Tasks
  <2>1. CASE Insert \/ NotifyWaiters \/ Unregister
    BY <2>1 DEF WakeInv, Insert, NotifyWaiters, Unregister
  <2>2. CASE Enlist \/ FindService \/ Sleep \/ NeverBound
    BY <2>2 DEF WakeInv, Enlist, FindService, Sleep, NeverBound, Goto, Registered
  <2>3. ASSUME NEW d \in Tasks, EndDelivery(d) \/ Deliver(d) \/ \E i \in Ids : Arrive(d, i)
        PROVE  WakeInv'
    <3>1. /\ service' = service /\ notified' = notified
          /\ at[d] \notin {"missed", "asleep"}
          /\ \E l \in Location \ {"missed", "asleep"} : Goto(d, l)
      BY <2>3 DEF EndDelivery, Deliver, Arrive, LookUp, ConnectFails, FindOpened,
                  OpenSession, SpawnReader, Touch, Send, Location
    <3> QED
      BY <3>1 DEF WakeInv, Goto
  <2>4. ASSUME NEW h \in Handles, Read(h) \/ Reply(h) \/ ReaderBreaks(h) PROVE WakeInv'
    BY <2>4 DEF WakeInv, Read, Reply, ReaderBreaks, ReaderCancelled, ReaderForgets,
                ReaderWakes, Recheck
  <2>5. CASE Tick \/ UNCHANGED vars
    BY <2>5 DEF WakeInv, Tick, vars
  <2> QED
    BY <2>1, <2>2, <2>3, <2>4, <2>5 DEF Next, Finished
<1>3. WakeInv => NoLostWakeup
  BY DEF WakeInv, NoLostWakeup
<1> QED
  BY <1>1, <1>2, <1>3, UdpInit, UdpStep, PTL DEF Spec

-----------------------------------------------------------------------------
(***************************************************************************)
(* Where each payload of an end is.  A payload has one place at a time,    *)
(* and only moves on; those of the bulk stream never overtake each other,  *)
(* which is that the rank of the place falls as the number of the payload  *)
(* rises.  `place' is no variable of the model: the invariant says that    *)
(* there is one, with f the payload on the wire (or 0) and g the one drain *)
(* has in hand and has written nothing of (or 0).                          *)
(***************************************************************************)
Places == {"unsent", "gone", "hand", "quinn", "air", "received",
           "queue", "next", "flight", "delivered"}
Rank(x) == IF x = "delivered" THEN 5 ELSE IF x = "flight" THEN 4
           ELSE IF x = "next" THEN 3 ELSE IF x = "queue" THEN 2
           ELSE IF x = "hand" THEN 1 ELSE 0

Packet == [id : Nat, size : Nat, by : {"datagram", "bulk"}]
Got    == [id : Nat, by : {"datagram", "bulk", "torn"}]

PlacesAt(place, o) ==
    /\ place \in [Nat -> Places] /\ o \in Nat
    /\ \A j \in Nat : j = 0 \/ j > o => place[j] = "unsent"
    /\ \A i, j \in Nat : i < j /\ Rank(place[i]) > 0 /\ Rank(place[j]) > 0 =>
           Rank(place[i]) >= Rank(place[j])

OneAt(place, x, f) == f \in Nat /\ \A j \in Nat : place[j] = x <=> (j = f /\ f # 0)

HandAt(place, o, h) ==
    /\ \A j \in Nat : place[j] = "hand" <=> (h # <<>> /\ j = o)
    /\ h # <<>> => \E p \in Packet : h = <<p>> /\ p.id = o

QuinnAt(place, q) ==
    /\ q \in Seq(Packet)
    /\ \A i \in DOMAIN q : place[q[i].id] = "quinn"
    /\ \A i, j \in DOMAIN q : i < j => q[i].id # q[j].id

AirAt(place, a) == a \in SUBSET Nat /\ \A i \in a : place[i] = "air"

QueueAt(place, b) ==
    /\ b \in Seq(Packet)
    /\ \A j \in Nat : place[j] = "queue" <=> \E i \in DOMAIN b : b[i].id = j
    /\ \A i, j \in DOMAIN b : i < j => b[i].id < b[j].id

TakenAt(place, t) ==
    /\ t \in Seq(Got)
    /\ \A i \in DOMAIN t :
           \/ t[i].by = "datagram" /\ place[t[i].id] = "received"
           \/ t[i].by = "bulk" /\ place[t[i].id] = "delivered"
    /\ \A i, j \in DOMAIN t : i < j =>
           /\ t[i].id # t[j].id
           /\ t[i].by = "bulk" /\ t[j].by = "bulk" => t[i].id < t[j].id

\* What of the frames f and g is written and read: r is what the reader has, w what is
\* on the wire, x what the writer has still to write.
Piece(i, part) == [id |-> i, part |-> part]
Frame(i) == IF i = 0 THEN <<>> ELSE <<Piece(i, "length"), Piece(i, "body")>>
FramesAt(f, g, r, w, x, state) ==
    \/ f = 0 /\ r = <<>> /\ w = <<>> /\ x = Frame(g) /\ (g # 0 => state = "open")
    \/ /\ f # 0 /\ g = 0
       /\ \/ x = <<Piece(f, "body")>> /\ state = "open"
          \/ x = <<>> /\ state = "over"
       /\ \/ r = <<>> /\ w = <<Piece(f, "length")>>
          \/ r = <<Piece(f, "length")>> /\ w = <<>>
    \/ /\ f # 0 /\ r = <<Piece(f, "length")>> /\ w = <<Piece(f, "body")>>
       /\ x = Frame(g) /\ state \in {"open", "over"} /\ (g # 0 => state = "open")

At(n, place, f, g) ==
    /\ PlacesAt(place, offered[n])
    /\ OneAt(place, "flight", f) /\ OneAt(place, "next", g)
    /\ HandAt(place, offered[n], hand[n])
    /\ QuinnAt(place, quinn[n]) /\ AirAt(place, air[n])
    /\ QueueAt(place, queue[n]) /\ TakenAt(place, taken[n])
    /\ FramesAt(f, g, reading[Peer(n)], wire[n], writing[n], task[n])

OverEnds(v) == v = [n \in Ends |-> v[n]]
PathType ==
    /\ OverEnds(offered) /\ OverEnds(hand) /\ OverEnds(quinn) /\ OverEnds(air)
    /\ OverEnds(queue) /\ OverEnds(task) /\ OverEnds(writing) /\ OverEnds(wire)
    /\ OverEnds(reading) /\ OverEnds(taken)

Placed(n) == \E place, f, g : At(n, place, f, g)

PathInv == PathType /\ \A n \in Ends : Placed(n)

-----------------------------------------------------------------------------
\* What is in a sequence of packets, or of what was taken, has a number.
LEMMA HaveIds ==
    /\ \A s \in Seq(Packet) : \A m \in 1..Len(s) : s[m].id \in Nat
    /\ \A s \in Seq(Got) : \A m \in 1..Len(s) : s[m].id \in Nat
<1>1. ASSUME NEW E, NEW s \in Seq(E), NEW m \in 1..Len(s) PROVE s[m] \in E
  OBVIOUS
<1>2. ASSUME NEW s \in Seq(Packet), NEW m \in 1..Len(s) PROVE s[m].id \in Nat
  <2>1. s[m] \in Packet
    BY <1>1
  <2>2. QED
    BY <2>1 DEF Packet
<1>3. ASSUME NEW s \in Seq(Got), NEW m \in 1..Len(s) PROVE s[m].id \in Nat
  <2>1. s[m] \in Got
    BY <1>1
  <2>2. QED
    BY <2>1 DEF Got
<1>4. QED
  BY <1>2, <1>3

\* A payload moves from one place to another: what is said of other places stays.
Moved(place, P, id, to) ==
    P \in [Nat -> Places] /\ P[id] = to /\ \A j \in Nat : j # id => P[j] = place[j]

\* A payload may move anywhere; what it does not leave or reach stays as it is.
LEMMA CanMove ==
    ASSUME NEW place \in [Nat -> Places], NEW id \in Nat, NEW to \in Places
    PROVE  \E P : Moved(place, P, id, to)
<1>1. Moved(place, [place EXCEPT ![id] = to], id, to)
  BY DEF Moved
<1>2. QED
  BY <1>1

\* The one payload of a place, ...
LEMMA MovesOne ==
    ASSUME NEW place \in [Nat -> Places], NEW id \in Nat, NEW to,
           NEW P, Moved(place, P, id, to), NEW x, NEW f, OneAt(place, x, f), x # place[id], x # to
    PROVE  OneAt(P, x, f)
BY DEF OneAt, Moved

\* ... the one in hand, ...
LEMMA MovesHand ==
    ASSUME NEW place \in [Nat -> Places], NEW id \in Nat, NEW to,
           NEW P, Moved(place, P, id, to), NEW o, NEW h, HandAt(place, o, h),
           place[id] # "hand", to # "hand"
    PROVE  HandAt(P, o, h)
BY DEF HandAt, Moved

\* ... those in quinn, ...
LEMMA MovesQuinn ==
    ASSUME NEW place \in [Nat -> Places], NEW id \in Nat, NEW to,
           NEW P, Moved(place, P, id, to), NEW q, QuinnAt(place, q), place[id] # "quinn"
    PROVE  QuinnAt(P, q)
<1>1. \A i \in DOMAIN q : q[i].id \in Nat
  BY HaveIds DEF QuinnAt
<1>2. QED
  BY <1>1 DEF QuinnAt, Moved

\* ... in the air, ...
LEMMA MovesAir ==
    ASSUME NEW place \in [Nat -> Places], NEW id \in Nat, NEW to,
           NEW P, Moved(place, P, id, to), NEW a, AirAt(place, a), place[id] # "air"
    PROVE  AirAt(P, a)
BY DEF AirAt, Moved

\* ... in the queue ...
LEMMA MovesQueue ==
    ASSUME NEW place \in [Nat -> Places], NEW id \in Nat, NEW to,
           NEW P, Moved(place, P, id, to), NEW b, QueueAt(place, b),
           place[id] # "queue", to # "queue"
    PROVE  QueueAt(P, b)
BY DEF QueueAt, Moved

\* ... and with the receiver.
LEMMA MovesTaken ==
    ASSUME NEW place \in [Nat -> Places], NEW id \in Nat, NEW to,
           NEW P, Moved(place, P, id, to), NEW t, TakenAt(place, t),
           place[id] \notin {"received", "delivered"}
    PROVE  TakenAt(P, t)
<1>1. \A i \in DOMAIN t : t[i].id \in Nat
  BY HaveIds DEF TakenAt
<1>2. QED
  BY <1>1 DEF TakenAt, Moved

\* A payload that leaves the bulk stream's order leaves the order of the others.
LEMMA Leaves ==
    ASSUME NEW place, NEW o, PlacesAt(place, o), NEW id \in 1..o, NEW to \in Places,
           Rank(to) = 0, NEW P, Moved(place, P, id, to)
    PROVE  PlacesAt(P, o)
BY DEF PlacesAt, Moved

\* One that goes on in it may, when none before it would be overtaken.
LEMMA GoesOn ==
    ASSUME NEW place, NEW o, PlacesAt(place, o), NEW id \in 1..o, NEW to \in Places,
           Rank(to) = Rank(place[id]) + 1,
           \A j \in Nat : j < id => Rank(place[j]) # Rank(place[id]),
           Rank(place[id]) > 0, NEW P, Moved(place, P, id, to)
    PROVE  PlacesAt(P, o)
<1>1. place \in [Nat -> Places] /\ o \in Nat
  BY DEF PlacesAt
<1>2. id \in Nat
  BY <1>1
<1>3. P \in [Nat -> Places] /\ P[id] = to /\ \A j \in Nat : j # id => P[j] = place[j]
  BY DEF Moved
<1>4. \A x : Rank(x) \in Nat
  BY DEF Rank
<1>5. ASSUME NEW i \in Nat, NEW j \in Nat, i < j, Rank(P[i]) > 0, Rank(P[j]) > 0
      PROVE  Rank(P[i]) >= Rank(P[j])
  <2>1. CASE i = id
    BY <1>3, <1>4, <1>5, <2>1 DEF PlacesAt
  <2>2. CASE j = id
    BY <1>3, <1>4, <1>5, <2>2 DEF PlacesAt
  <2>3. CASE i # id /\ j # id
    BY <1>3, <1>5, <2>3 DEF PlacesAt
  <2>4. QED
    BY <2>1, <2>2, <2>3
<1>6. \A j \in Nat : j = 0 \/ j > o => P[j] = "unsent"
  BY <1>1, <1>3 DEF PlacesAt
<1>7. QED
  BY <1>1, <1>2, <1>3, <1>5, <1>6 DEF PlacesAt

\* A payload that is somewhere was sent.
LEMMA Somewhere ==
    ASSUME NEW place, NEW o, PlacesAt(place, o), NEW id \in Nat, place[id] # "unsent"
    PROVE  id \in 1..o
BY DEF PlacesAt

-----------------------------------------------------------------------------
(***************************************************************************)
(* The queues: what is taken from the front, put at the end, or dropped.   *)
(***************************************************************************)
LEMMA QuinnEvicts ==
    ASSUME NEW place, NEW q, QuinnAt(place, q), NEW k \in 0..Len(q)
    PROVE  QuinnAt(place, Left(q, k))
<1> DEFINE s == Left(q, k)
<1>1. q \in Seq(Packet) /\ Len(q) \in Nat
  BY DEF QuinnAt
<1>2. s \in Seq(Packet) /\ Len(s) = Len(q) - k /\ \A i \in 1..Len(s) : s[i] = q[i + k]
  BY <1>1 DEF Left
<1> HIDE DEF s
<1>3. DOMAIN s = 1..Len(s) /\ DOMAIN q = 1..Len(q)
  BY <1>1, <1>2
<1>4. \A i \in 1..Len(s) : i + k \in 1..Len(q)
  BY <1>1, <1>2
<1>5. ASSUME NEW i \in DOMAIN s PROVE place[s[i].id] = "quinn"
  <2>1. i + k \in DOMAIN q /\ s[i] = q[i + k]
    BY <1>2, <1>3, <1>4
  <2>2. QED
    BY <2>1 DEF QuinnAt
<1>6. \A i, j \in DOMAIN s : i < j => s[i].id # s[j].id
  <2> SUFFICES ASSUME NEW i \in DOMAIN s, NEW j \in DOMAIN s, i < j PROVE s[i].id # s[j].id
    OBVIOUS
  <2>1. i + k \in DOMAIN q /\ j + k \in DOMAIN q /\ i + k < j + k
    BY <1>2, <1>3, <1>4
  <2>2. QED
    BY <1>2, <1>3, <2>1 DEF QuinnAt
<1>7. QED
  BY <1>2, <1>5, <1>6 DEF QuinnAt, s

\* Quinn takes a datagram, ...
LEMMA QuinnAppends ==
    ASSUME NEW place, NEW q, QuinnAt(place, q), NEW p \in Packet,
           place \in [Nat -> Places], place[p.id] # "quinn",
           NEW P, Moved(place, P, p.id, "quinn")
    PROVE  QuinnAt(P, Append(q, p))
<1> DEFINE s == Append(q, p)
<1>1. q \in Seq(Packet) /\ Len(q) \in Nat /\ DOMAIN q = 1..Len(q)
  BY DEF QuinnAt
<1>2. /\ s \in Seq(Packet) /\ Len(s) = Len(q) + 1 /\ DOMAIN s = 1..(Len(q) + 1)
      /\ s[Len(q) + 1] = p /\ \A i \in 1..Len(q) : s[i] = q[i]
  BY <1>1
<1>3. p.id \in Nat /\ "quinn" \in Places
  BY DEF Packet, Places
<1>4. \A i \in 1..Len(q) : q[i].id \in Nat
  BY <1>1, HaveIds
<1>5. QuinnAt(P, q)
  <2>1. "quinn" # place[p.id]
    OBVIOUS
  <2>2. QED
    BY <1>3, <2>1, MovesQuinn
<1> HIDE DEF s
<1>6. P[p.id] = "quinn"
  BY DEF Moved
<1>7. \A i \in 1..Len(q) : q[i].id # p.id
  BY <1>1 DEF QuinnAt
<1>8. QED
  BY <1>1, <1>2, <1>5, <1>6, <1>7 DEF QuinnAt

\* ... and sends or drops its first.
LEMMA QuinnTakes ==
    ASSUME NEW place, NEW q, QuinnAt(place, q), q # <<>>, place \in [Nat -> Places]
    PROVE  /\ Head(q).id \in Nat /\ place[Head(q).id] = "quinn"
           /\ \A P, to : Moved(place, P, Head(q).id, to) => QuinnAt(P, Tail(q))
<1> DEFINE s == Tail(q)
<1>1. q \in Seq(Packet) /\ Len(q) \in Nat /\ Len(q) >= 1 /\ Head(q) = q[1]
  BY DEF QuinnAt
<1>2. s \in Seq(Packet) /\ Len(s) = Len(q) - 1 /\ \A i \in 1..Len(s) : s[i] = q[i + 1]
  BY <1>1
<1>3. \A i \in 1..Len(q) : q[i].id \in Nat
  BY <1>1, HaveIds
<1>4. \A i \in 1..Len(s) : s[i].id # q[1].id /\ s[i].id \in Nat /\ place[s[i].id] = "quinn"
  BY <1>1, <1>2, <1>3 DEF QuinnAt
<1>6. DOMAIN s = 1..Len(s)
  BY <1>2
<1>7. \A i, j \in 1..Len(s) : i < j => s[i].id # s[j].id
  BY <1>1, <1>2 DEF QuinnAt
<1> HIDE DEF s
<1>8. ASSUME NEW P, NEW to, Moved(place, P, Head(q).id, to) PROVE QuinnAt(P, s)
  <2>1. \A i \in 1..Len(s) : P[s[i].id] = "quinn"
    BY <1>1, <1>4, <1>8 DEF Moved
  <2>2. QED
    BY <1>2, <1>6, <1>7, <2>1 DEF QuinnAt
<1>9. QED
  BY <1>1, <1>3, <1>8 DEF QuinnAt, s

\* The queue takes a payload, the latest there is, ...
LEMMA QueueAppends ==
    ASSUME NEW place, NEW o, PlacesAt(place, o), NEW b, QueueAt(place, b),
           NEW p \in Packet, p.id = o, place[o] # "queue",
           NEW P, Moved(place, P, o, "queue")
    PROVE  QueueAt(P, Append(b, p))
<1> DEFINE s == Append(b, p)
<1>1. b \in Seq(Packet) /\ Len(b) \in Nat /\ DOMAIN b = 1..Len(b)
  BY DEF QueueAt
<1>2. /\ s \in Seq(Packet) /\ Len(s) = Len(b) + 1 /\ DOMAIN s = 1..(Len(b) + 1)
      /\ s[Len(b) + 1] = p /\ \A i \in 1..Len(b) : s[i] = b[i]
  BY <1>1
<1>3. o \in Nat /\ place \in [Nat -> Places] /\ "queue" \in Places
  BY DEF PlacesAt, Places
<1>4. \A i \in 1..Len(b) : b[i].id \in Nat
  BY <1>1, HaveIds
<1>5. \A i \in 1..Len(b) : place[b[i].id] = "queue"
  BY <1>1, <1>4 DEF QueueAt
<1>6. \A i \in 1..Len(b) : b[i].id < o
  BY <1>3, <1>4, <1>5 DEF PlacesAt
<1>7. ASSUME NEW j \in Nat
      PROVE  P[j] = "queue" <=> \E i \in DOMAIN s : s[i].id = j
  <2>1. CASE j = o
    BY <1>1, <1>2, <1>3, <2>1 DEF Moved
  <2>2. CASE j # o
    <3>1. P[j] = place[j]
      BY <2>2 DEF Moved
    <3>2. (\E i \in DOMAIN s : s[i].id = j) <=> (\E i \in DOMAIN b : b[i].id = j)
      BY <1>1, <1>2, <2>2
    <3>3. QED
      BY <3>1, <3>2 DEF QueueAt
  <2>3. QED
    BY <2>1, <2>2
<1>8. \A i, j \in DOMAIN s : i < j => s[i].id < s[j].id
  BY <1>1, <1>2, <1>6 DEF QueueAt
<1> HIDE DEF s
<1>9. QED
  BY <1>2, <1>7, <1>8 DEF QueueAt, s

\* ... and gives its first, before which there is none.
LEMMA QueueTakes ==
    ASSUME NEW place, NEW b, QueueAt(place, b), b # <<>>, place \in [Nat -> Places]
    PROVE  /\ \A P, to : to # "queue" /\ Moved(place, P, Head(b).id, to) => QueueAt(P, Tail(b))
           /\ Head(b).id \in Nat /\ place[Head(b).id] = "queue"
           /\ \A j \in Nat : j < Head(b).id => place[j] # "queue"
<1> DEFINE s == Tail(b)
<1>1. b \in Seq(Packet) /\ Len(b) \in Nat /\ Len(b) >= 1 /\ Head(b) = b[1]
  BY DEF QueueAt
<1>2. s \in Seq(Packet) /\ Len(s) = Len(b) - 1 /\ \A i \in 1..Len(s) : s[i] = b[i + 1]
  BY <1>1
<1>3. DOMAIN s = 1..Len(s) /\ DOMAIN b = 1..Len(b)
  BY <1>1, <1>2
<1>4. \A i \in 1..Len(b) : b[i].id \in Nat
  BY <1>1, HaveIds
<1>5. \A i, j \in 1..Len(b) : i < j => b[i].id < b[j].id
  BY <1>3 DEF QueueAt
<1>6. \A j \in Nat : place[j] = "queue" <=> \E i \in 1..Len(b) : b[i].id = j
  BY <1>3 DEF QueueAt
<1> HIDE DEF s
<1>7. PICK h \in Nat : h = b[1].id
  BY <1>1, <1>4
<1>8. \A i \in 1..Len(b) : b[i].id = h => i = 1
  BY <1>1, <1>4, <1>5, <1>7
<1>9. ASSUME NEW P, NEW to, to # "queue", Moved(place, P, h, to), NEW j \in Nat
      PROVE  P[j] = "queue" <=> \E i \in DOMAIN s : s[i].id = j
  <2>1. CASE j = h
    <3>1. P[j] # "queue"
      BY <1>7, <1>9, <2>1 DEF Moved
    <3>2. \A i \in 1..Len(s) : s[i].id # j
      BY <1>1, <1>2, <1>8, <2>1
    <3>3. QED
      BY <1>3, <3>1, <3>2
  <2>2. CASE j # h
    <3>1. P[j] = place[j]
      BY <1>7, <1>9, <2>2 DEF Moved
    <3>2. ASSUME NEW i \in 1..Len(b), b[i].id = j PROVE i - 1 \in 1..Len(s) /\ s[i - 1].id = j
      <4>1. i # 1
        BY <1>7, <2>2, <3>2
      <4>2. i - 1 \in 1..Len(s) /\ (i - 1) + 1 = i
        BY <1>1, <1>2, <4>1
      <4>3. QED
        BY <1>2, <3>2, <4>2
    <3>3. ASSUME NEW i \in 1..Len(s), s[i].id = j PROVE i + 1 \in 1..Len(b) /\ b[i + 1].id = j
      BY <1>1, <1>2, <3>3
    <3>4. QED
      BY <1>3, <1>6, <3>1, <3>2, <3>3
  <2>3. QED
    BY <2>1, <2>2
<1>10. \A i, j \in 1..Len(s) : i < j => s[i].id < s[j].id
  BY <1>1, <1>2, <1>5
<1>11. ASSUME NEW P, NEW to, to # "queue", Moved(place, P, h, to) PROVE QueueAt(P, s)
  BY <1>2, <1>3, <1>9, <1>10, <1>11 DEF QueueAt
<1>12. \A j \in Nat : j < h => place[j] # "queue"
  <2> SUFFICES ASSUME NEW j \in Nat, j < h, NEW i \in 1..Len(b), b[i].id = j PROVE FALSE
    BY <1>6
  <2>1. CASE i = 1
    BY <1>7, <2>1
  <2>2. CASE i > 1
    BY <1>1, <1>4, <1>5, <1>7, <2>2
  <2>3. QED
    BY <2>1, <2>2
<1>13. place[h] = "queue"
  BY <1>1, <1>6, <1>7
<1>14. QED
  BY <1>1, <1>7, <1>11, <1>12, <1>13 DEF s

\* The receiver gets a payload, after all that came by the bulk stream.
LEMMA TakenAppends ==
    ASSUME NEW place, NEW t, TakenAt(place, t), NEW id \in Nat, NEW by \in {"datagram", "bulk"},
           place \in [Nat -> Places], place[id] \notin {"received", "delivered"},
           by = "bulk" => \A j \in Nat : place[j] = "delivered" => j < id,
           NEW P, Moved(place, P, id, IF by = "bulk" THEN "delivered" ELSE "received")
    PROVE  TakenAt(P, Append(t, [id |-> id, by |-> by]))
<1> DEFINE e == [id |-> id, by |-> by]
           s == Append(t, e)
<1>1. t \in Seq(Got) /\ Len(t) \in Nat /\ DOMAIN t = 1..Len(t) /\ e \in Got
  BY DEF TakenAt, Got
<1>2. /\ s \in Seq(Got) /\ Len(s) = Len(t) + 1 /\ DOMAIN s = 1..(Len(t) + 1)
      /\ s[Len(t) + 1] = e /\ \A i \in 1..Len(t) : s[i] = t[i]
  BY <1>1
<1>3. \A i \in 1..Len(t) : t[i].id \in Nat
  BY <1>1, HaveIds
<1>4. TakenAt(P, t) /\ P[id] = IF by = "bulk" THEN "delivered" ELSE "received"
  <2> DEFINE to == IF by = "bulk" THEN "delivered" ELSE "received"
  <2>1. to \in Places
    BY DEF Places
  <2> HIDE DEF to
  <2>2. Moved(place, P, id, to)
    BY DEF to
  <2>3. TakenAt(P, t) /\ P[id] = to
    BY <2>1, <2>2, MovesTaken DEF Moved
  <2>4. QED
    BY <2>3 DEF to
<1>5. \A i \in 1..Len(t) : t[i].id # id /\ (t[i].by = "bulk" /\ by = "bulk" => t[i].id < id)
  BY <1>1, <1>3 DEF TakenAt
<1>6. e.id = id /\ e.by = by
  OBVIOUS
<1> HIDE DEF e, s
<1>7. \A i \in DOMAIN s : \/ s[i].by = "datagram" /\ P[s[i].id] = "received"
                          \/ s[i].by = "bulk" /\ P[s[i].id] = "delivered"
  BY <1>1, <1>2, <1>4, <1>6 DEF TakenAt
<1>8. \A i, j \in DOMAIN s : i < j =>
          /\ s[i].id # s[j].id
          /\ s[i].by = "bulk" /\ s[j].by = "bulk" => s[i].id < s[j].id
  BY <1>1, <1>2, <1>4, <1>5, <1>6 DEF TakenAt
<1>9. QED
  BY <1>2, <1>7, <1>8 DEF TakenAt, s, e

-----------------------------------------------------------------------------
(***************************************************************************)
(* The steps.                                                              *)
(***************************************************************************)
\* An assignment at one end.
LEMMA OfEffect ==
    ASSUME NEW v, OverEnds(v), NEW n \in Ends, NEW x
    PROVE  /\ OverEnds(Of(v, n, x)) /\ Of(v, n, x)[n] = x
           /\ \A m \in Ends : m # n => Of(v, n, x)[m] = v[m]
BY DEF OverEnds, Of

\* Nothing of what the end n has sent moves.
Same(n) ==
    /\ offered'[n] = offered[n] /\ hand'[n] = hand[n] /\ quinn'[n] = quinn[n]
    /\ air'[n] = air[n] /\ queue'[n] = queue[n] /\ task'[n] = task[n]
    /\ writing'[n] = writing[n] /\ wire'[n] = wire[n] /\ taken'[n] = taken[n]
    /\ reading'[Peer(n)] = reading[Peer(n)]

\* An end that nothing happens to.
LEMMA SamePlaces ==
    ASSUME NEW n \in Ends, Placed(n), Same(n)
    PROVE  Placed(n)'
BY DEF Placed, At, Same

\* There are two ends.
LEMMA OtherEnd == \A n \in Ends : /\ Peer(n) \in Ends /\ Peer(n) # n /\ Peer(Peer(n)) = n
                                  /\ \A m \in Ends : m # n => m = Peer(n)
BY DEF Ends, Peer

\* A packet is taken up to be sent, or is too large to be.
LEMMA DispatchPlaces ==
    ASSUME PathInv, NEW n \in Ends, NEW size \in Sizes, Dispatch(n, size)
    PROVE  PathType' /\ Placed(n)' /\ Same(Peer(n))
<1>1. PICK p : p = [id |-> offered[n] + 1, size |-> size,
                    by |-> IF size <= mtu THEN "datagram" ELSE "bulk"]
  OBVIOUS
<1>2. /\ hand[n] = <<>> /\ offered' = Of(offered, n, p.id)
      /\ hand' = Of(hand, n, IF size > MaxFrame THEN <<>> ELSE <<p>>)
      /\ UNCHANGED <<quinn, air, queue, task, writing, wire, reading, taken>>
  BY <1>1 DEF Dispatch
<1>3. /\ PathType' /\ Same(Peer(n)) /\ offered'[n] = offered[n] + 1
      /\ hand'[n] = IF size > MaxFrame THEN <<>> ELSE <<p>>
  BY <1>1, <1>2, OfEffect, OtherEnd DEF PathInv, PathType, Same
<1>4. PICK place, f, g : At(n, place, f, g)
  BY DEF PathInv, Placed
<1>5. PICK o : o = offered[n] + 1
  OBVIOUS
<1>6. PICK to : to = IF size > MaxFrame THEN "gone" ELSE "hand"
  OBVIOUS
<1>7. /\ place \in [Nat -> Places] /\ offered[n] \in Nat /\ o \in Nat /\ place[o] = "unsent"
      /\ to \in {"gone", "hand"} /\ to \in Places
  BY <1>4, <1>5, <1>6 DEF At, PlacesAt, Places
<1>8. PICK P : Moved(place, P, o, to)
  BY <1>7, CanMove
<1>9. /\ OneAt(P, "flight", f) /\ OneAt(P, "next", g) /\ QuinnAt(P, quinn[n])
      /\ AirAt(P, air[n]) /\ QueueAt(P, queue[n]) /\ TakenAt(P, taken[n])
  <2>1. OneAt(P, "flight", f) /\ OneAt(P, "next", g)
    BY <1>4, <1>7, <1>8, MovesOne DEF At
  <2>2. QuinnAt(P, quinn[n]) /\ AirAt(P, air[n])
    BY <1>4, <1>7, <1>8, MovesQuinn, MovesAir DEF At
  <2>3. QueueAt(P, queue[n]) /\ TakenAt(P, taken[n])
    BY <1>4, <1>7, <1>8, MovesQueue, MovesTaken DEF At
  <2>4. QED
    BY <2>1, <2>2, <2>3
<1>10. PlacesAt(P, o)
  <2>1. P \in [Nat -> Places] /\ P[o] = to /\ \A j \in Nat : j # o => P[j] = place[j]
    BY <1>8 DEF Moved
  <2>2. \A j \in Nat : j = 0 \/ j > o => P[j] = "unsent"
    BY <1>4, <1>5, <1>7, <2>1 DEF At, PlacesAt
  <2>3. \A x : Rank(x) \in Nat /\ Rank(to) <= 1
    BY <1>7 DEF Rank
  <2>4. \A j \in Nat : Rank(P[j]) > 0 => j <= o
    BY <1>7, <2>2 DEF Rank
  <2>5. ASSUME NEW i \in Nat, NEW j \in Nat, i < j, Rank(P[i]) > 0, Rank(P[j]) > 0
        PROVE  Rank(P[i]) >= Rank(P[j])
    <3>1. CASE j = o
      BY <2>1, <2>3, <2>5, <3>1
    <3>2. CASE j # o
      <4>1. j < o /\ i < o
        BY <1>7, <2>4, <2>5, <3>2
      <4>2. P[i] = place[i] /\ P[j] = place[j]
        BY <1>7, <2>1, <4>1
      <4>3. QED
        BY <1>4, <2>5, <4>2 DEF At, PlacesAt
    <3>3. QED
      BY <3>1, <3>2
  <2>6. QED
    BY <1>7, <2>1, <2>2, <2>5 DEF PlacesAt
<1>11. HandAt(P, o, hand'[n])
  <2>1. \A j \in Nat : place[j] # "hand"
    BY <1>2, <1>4 DEF At, HandAt
  <2>2. p \in Packet /\ p.id = o
    BY <1>1, <1>5, <1>7, UdpPathAssumption DEF Packet
  <2>3. <<p>> # <<>>
    OBVIOUS
  <2>4. QED
    BY <1>3, <1>6, <1>7, <1>8, <2>1, <2>2, <2>3 DEF HandAt, Moved
<1>12. At(n, P, f, g)'
  BY <1>2, <1>3, <1>4, <1>5, <1>9, <1>10, <1>11 DEF At
<1>13. QED
  BY <1>3, <1>12 DEF Placed

\* What a packet that leaves the hand finds.
LEMMA InHand ==
    ASSUME NEW n \in Ends, NEW place, NEW f, NEW g, At(n, place, f, g), hand[n] # <<>>
    PROVE  /\ hand[n][1] \in Packet /\ hand[n] = <<hand[n][1]>> /\ hand[n][1].id = offered[n]
           /\ place \in [Nat -> Places] /\ offered[n] \in 1..offered[n] /\ offered[n] \in Nat
           /\ place[offered[n]] = "hand"
<1>1. offered[n] \in Nat /\ place \in [Nat -> Places] /\ PlacesAt(place, offered[n])
  BY DEF At, PlacesAt
<1>2. PICK p \in Packet : hand[n] = <<p>> /\ p.id = offered[n]
  BY DEF At, HandAt
<1>3. place[offered[n]] = "hand"
  BY <1>1 DEF At, HandAt
<1>4. offered[n] \in 1..offered[n]
  BY <1>1, <1>3, Somewhere
<1>5. QED
  BY <1>1, <1>2, <1>3, <1>4

\* A packet in hand goes to `to': the bulk stream keeps its order.
LEMMA HandLeaves ==
    ASSUME NEW n \in Ends, NEW place, NEW f, NEW g, At(n, place, f, g), hand[n] # <<>>,
           NEW to \in {"gone", "quinn", "queue"},
           NEW P, Moved(place, P, offered[n], to)
    PROVE  /\ PlacesAt(P, offered[n]) /\ HandAt(P, offered[n], <<>>)
           /\ OneAt(P, "flight", f) /\ OneAt(P, "next", g)
           /\ QuinnAt(P, quinn[n]) /\ AirAt(P, air[n]) /\ TakenAt(P, taken[n])
           /\ to # "queue" => QueueAt(P, queue[n])
<1>1. /\ place \in [Nat -> Places] /\ offered[n] \in 1..offered[n] /\ offered[n] \in Nat
      /\ place[offered[n]] = "hand"
  BY InHand
<1>2. /\ PlacesAt(place, offered[n]) /\ HandAt(place, offered[n], hand[n])
      /\ OneAt(place, "flight", f) /\ OneAt(place, "next", g)
      /\ QuinnAt(place, quinn[n]) /\ AirAt(place, air[n])
      /\ QueueAt(place, queue[n]) /\ TakenAt(place, taken[n])
  BY DEF At
<1>3. to \in Places
  BY DEF Places
<1>4. PlacesAt(P, offered[n])
  <2>1. CASE to = "queue"
    <3>1. \A j \in Nat : j < offered[n] => place[j] # "hand"
      BY <1>1, <1>2 DEF HandAt
    <3>2. \A j \in Nat : j < offered[n] => Rank(place[j]) # 1
      BY <3>1 DEF Rank
    <3>3. Rank(to) = Rank(place[offered[n]]) + 1 /\ Rank(place[offered[n]]) > 0
      BY <1>1, <2>1 DEF Rank
    <3>4. \A j \in Nat : j < offered[n] => Rank(place[j]) # Rank(place[offered[n]])
      BY <1>1, <3>2 DEF Rank
    <3>5. QED
      BY <1>1, <1>2, <1>3, <3>3, <3>4, GoesOn
  <2>2. CASE to # "queue"
    <3>1. Rank(to) = 0
      BY <2>2 DEF Rank
    <3>2. QED
      BY <1>1, <1>2, <1>3, <3>1, Leaves
  <2>3. QED
    BY <2>1, <2>2
<1>5. HandAt(P, offered[n], <<>>)
  BY <1>1, <1>2 DEF HandAt, Moved
<1>6. OneAt(P, "flight", f) /\ OneAt(P, "next", g)
  <2>1. "flight" # place[offered[n]] /\ "flight" # to /\ "next" # place[offered[n]] /\ "next" # to
    BY <1>1
  <2>2. OneAt(P, "flight", f)
    BY <1>1, <1>2, <2>1, MovesOne
  <2>3. OneAt(P, "next", g)
    BY <1>1, <1>2, <2>1, MovesOne
  <2>4. QED
    BY <2>2, <2>3
<1>7. QuinnAt(P, quinn[n]) /\ AirAt(P, air[n])
  <2>1. place[offered[n]] # "quinn" /\ place[offered[n]] # "air"
    BY <1>1
  <2>2. QuinnAt(P, quinn[n])
    BY <1>1, <1>2, <2>1, MovesQuinn
  <2>3. AirAt(P, air[n])
    BY <1>1, <1>2, <2>1, MovesAir
  <2>4. QED
    BY <2>2, <2>3
<1>8. TakenAt(P, taken[n])
  BY <1>1, <1>2, MovesTaken
<1>9. to # "queue" => QueueAt(P, queue[n])
  BY <1>1, <1>2, MovesQueue
<1>10. QED
  BY <1>4, <1>5, <1>6, <1>7, <1>8, <1>9

\* send_datagram: quinn takes it, it goes to the bulk queue instead, or it is dropped.
LEMMA SendPlaces ==
    ASSUME PathInv, NEW n \in Ends, SendDatagram(n)
    PROVE  PathType' /\ Placed(n)' /\ Same(Peer(n))
<1>1. PICK place, f, g : At(n, place, f, g)
  BY DEF PathInv, Placed
<1>2. PICK p : p = hand[n][1]
  OBVIOUS
<1>3. hand[n] # <<>> /\ UNCHANGED <<offered, air, queue, task, writing, wire, reading, taken>>
  BY DEF SendDatagram
<1>4. /\ p \in Packet /\ hand[n] = <<p>> /\ p.id = offered[n]
      /\ place \in [Nat -> Places] /\ offered[n] \in Nat /\ place[offered[n]] = "hand"
  BY <1>1, <1>2, <1>3, InHand
<1>5. CASE ~up
  <2>1. hand' = Of(hand, n, <<>>) /\ UNCHANGED quinn
    BY <1>2, <1>5 DEF SendDatagram
  <2>2. PathType' /\ Same(Peer(n)) /\ hand'[n] = <<>>
    BY <1>3, <2>1, OfEffect, OtherEnd DEF PathInv, PathType, Same
  <2>3. PICK P : Moved(place, P, offered[n], "gone")
    BY <1>4, CanMove DEF Places
  <2>4. /\ PlacesAt(P, offered[n]) /\ HandAt(P, offered[n], <<>>)
        /\ OneAt(P, "flight", f) /\ OneAt(P, "next", g)
        /\ QuinnAt(P, quinn[n]) /\ AirAt(P, air[n]) /\ TakenAt(P, taken[n])
        /\ QueueAt(P, queue[n])
    BY <1>1, <1>3, <2>3, HandLeaves
  <2>5. At(n, P, f, g)'
    BY <1>1, <1>3, <2>1, <2>2, <2>4 DEF At
  <2>6. QED
    BY <2>2, <2>5 DEF Placed
<1>6. CASE up /\ p.size > mtu
  <2>1. ToBulk(n) /\ UNCHANGED quinn
    BY <1>2, <1>6 DEF SendDatagram
  <2>2. PICK r : r = [p EXCEPT !.by = "bulk"]
    OBVIOUS
  <2>3. r \in Packet /\ r.id = offered[n]
    BY <1>4, <2>2 DEF Packet
  <2>4. hand' = Of(hand, n, <<r>>)
    BY <1>2, <2>1, <2>2 DEF ToBulk
  <2>5. PathType' /\ Same(Peer(n)) /\ hand'[n] = <<r>>
    BY <1>3, <2>1, <2>4, OfEffect, OtherEnd DEF PathInv, PathType, Same
  <2>6. HandAt(place, offered[n], <<r>>)
    <3>1. <<r>> # <<>>
      OBVIOUS
    <3>2. QED
      BY <1>1, <1>3, <2>3, <3>1 DEF At, HandAt
  <2>7. At(n, place, f, g)'
    BY <1>1, <1>3, <2>1, <2>5, <2>6 DEF At
  <2>8. QED
    BY <2>5, <2>7 DEF Placed
<1>7. CASE up /\ ~(p.size > mtu)
  <2>1. PICK k \in 0..Len(quinn[n]) :
            /\ quinn' = Of(quinn, n, Append(Left(quinn[n], k), p))
            /\ hand' = Of(hand, n, <<>>)
    BY <1>2, <1>7 DEF SendDatagram
  <2>2. /\ PathType' /\ Same(Peer(n)) /\ hand'[n] = <<>>
        /\ quinn'[n] = Append(Left(quinn[n], k), p)
    <3>1. PICK x : x = Append(Left(quinn[n], k), p)
      OBVIOUS
    <3>2. quinn' = Of(quinn, n, x)
      BY <2>1, <3>1
    <3>3. PathType' /\ Same(Peer(n)) /\ hand'[n] = <<>> /\ quinn'[n] = x
      BY <1>3, <2>1, <3>2, OfEffect, OtherEnd DEF PathInv, PathType, Same
    <3>4. QED
      BY <3>1, <3>3
  <2>3. PICK P : Moved(place, P, offered[n], "quinn")
    BY <1>4, CanMove DEF Places
  <2>4. /\ PlacesAt(P, offered[n]) /\ HandAt(P, offered[n], <<>>)
        /\ OneAt(P, "flight", f) /\ OneAt(P, "next", g)
        /\ AirAt(P, air[n]) /\ TakenAt(P, taken[n]) /\ QueueAt(P, queue[n])
    BY <1>1, <1>3, <2>3, HandLeaves
  <2>5. QuinnAt(P, quinn'[n])
    <3>1. QuinnAt(place, Left(quinn[n], k))
      BY <1>1, QuinnEvicts DEF At
    <3>2. QED
      BY <1>4, <2>2, <2>3, <3>1, QuinnAppends
  <2>6. At(n, P, f, g)'
    BY <1>1, <1>3, <2>2, <2>4, <2>5 DEF At
  <2>7. QED
    BY <2>2, <2>6 DEF Placed
<1>8. QED
  BY <1>5, <1>6, <1>7

\* try_send on the bulk queue.
LEMMA QueuePlaces ==
    ASSUME PathInv, NEW n \in Ends, QueueBulk(n)
    PROVE  PathType' /\ Placed(n)' /\ Same(Peer(n))
<1>1. PICK place, f, g : At(n, place, f, g)
  BY DEF PathInv, Placed
<1>2. /\ hand[n] # <<>> /\ hand' = Of(hand, n, <<>>)
      /\ UNCHANGED <<offered, quinn, air, task, writing, wire, reading, taken>>
  BY DEF QueueBulk
<1>3. PICK p : p = hand[n][1]
  OBVIOUS
<1>4. /\ p \in Packet /\ p.id = offered[n] /\ place \in [Nat -> Places]
      /\ offered[n] \in Nat /\ place[offered[n]] = "hand"
  BY <1>1, <1>2, <1>3, InHand
<1>5. CASE queue' = Of(queue, n, Append(queue[n], p))
  <2>1. /\ PathType' /\ Same(Peer(n)) /\ hand'[n] = <<>>
        /\ queue'[n] = Append(queue[n], p)
    <3>1. PICK x : x = Append(queue[n], p)
      OBVIOUS
    <3>2. queue' = Of(queue, n, x)
      BY <1>5, <3>1
    <3>3. PathType' /\ Same(Peer(n)) /\ hand'[n] = <<>> /\ queue'[n] = x
      BY <1>2, <3>2, OfEffect, OtherEnd DEF PathInv, PathType, Same
    <3>4. QED
      BY <3>1, <3>3
  <2>2. PICK P : Moved(place, P, offered[n], "queue")
    BY <1>4, CanMove DEF Places
  <2>3. /\ PlacesAt(P, offered[n]) /\ HandAt(P, offered[n], <<>>)
        /\ OneAt(P, "flight", f) /\ OneAt(P, "next", g)
        /\ QuinnAt(P, quinn[n]) /\ AirAt(P, air[n]) /\ TakenAt(P, taken[n])
    BY <1>1, <1>2, <2>2, HandLeaves
  <2>4. QueueAt(P, queue'[n])
    <3>1. PlacesAt(place, offered[n]) /\ QueueAt(place, queue[n]) /\ place[offered[n]] # "queue"
      BY <1>1, <1>4 DEF At
    <3>2. QueueAt(P, Append(queue[n], p))
      BY <1>4, <2>2, <3>1, QueueAppends
    <3>3. QED
      BY <2>1, <3>2
  <2>5. At(n, P, f, g)'
    BY <1>1, <1>2, <2>1, <2>3, <2>4 DEF At
  <2>6. QED
    BY <2>1, <2>5 DEF Placed
<1>6. CASE UNCHANGED queue
  <2>1. PathType' /\ Same(Peer(n)) /\ hand'[n] = <<>>
    BY <1>2, <1>6, OfEffect, OtherEnd DEF PathInv, PathType, Same
  <2>2. PICK P : Moved(place, P, offered[n], "gone")
    BY <1>4, CanMove DEF Places
  <2>3. /\ PlacesAt(P, offered[n]) /\ HandAt(P, offered[n], <<>>)
        /\ OneAt(P, "flight", f) /\ OneAt(P, "next", g)
        /\ QuinnAt(P, quinn[n]) /\ AirAt(P, air[n]) /\ TakenAt(P, taken[n])
        /\ QueueAt(P, queue[n])
    BY <1>1, <1>2, <2>2, HandLeaves
  <2>4. At(n, P, f, g)'
    BY <1>1, <1>2, <1>6, <2>1, <2>3 DEF At
  <2>5. QED
    BY <2>1, <2>4 DEF Placed
<1>7. QED
  BY <1>3, <1>5, <1>6 DEF QueueBulk

\* A datagram goes out.
LEMMA TransmitPlaces ==
    ASSUME PathInv, NEW n \in Ends, Transmit(n)
    PROVE  PathType' /\ Placed(n)' /\ Same(Peer(n))
<1>1. PICK place, f, g : At(n, place, f, g)
  BY DEF PathInv, Placed
<1>2. PICK q, a, id : q = Tail(quinn[n]) /\ a = air[n] \cup {Head(quinn[n]).id}
                      /\ id = Head(quinn[n]).id
  OBVIOUS
<1>3. /\ quinn[n] # <<>> /\ quinn' = Of(quinn, n, q) /\ air' = Of(air, n, a)
      /\ UNCHANGED <<offered, hand, queue, task, writing, wire, reading, taken>>
  BY <1>2 DEF Transmit
<1>4. PathType' /\ Same(Peer(n)) /\ quinn'[n] = q /\ air'[n] = a
  BY <1>3, OfEffect, OtherEnd DEF PathInv, PathType, Same
<1>5. /\ PlacesAt(place, offered[n]) /\ HandAt(place, offered[n], hand[n])
      /\ OneAt(place, "flight", f) /\ OneAt(place, "next", g)
      /\ QuinnAt(place, quinn[n]) /\ AirAt(place, air[n])
      /\ QueueAt(place, queue[n]) /\ TakenAt(place, taken[n])
      /\ place \in [Nat -> Places]
  BY <1>1 DEF At, PlacesAt
<1>6. id \in Nat /\ place[id] = "quinn"
  BY <1>2, <1>3, <1>5, QuinnTakes
<1>7. PICK P : Moved(place, P, id, "air")
  BY <1>5, <1>6, CanMove DEF Places
<1>8. PlacesAt(P, offered[n])
  <2>1. id \in 1..offered[n]
    BY <1>5, <1>6, Somewhere
  <2>2. Rank("air") = 0 /\ "air" \in Places
    BY DEF Rank, Places
  <2>3. QED
    BY <1>5, <1>7, <2>1, <2>2, Leaves
<1>9. OneAt(P, "flight", f) /\ OneAt(P, "next", g)
  <2>1. "flight" # place[id] /\ "next" # place[id]
    BY <1>6
  <2>2. QED
    BY <1>5, <1>6, <1>7, <2>1, MovesOne
<1>10. HandAt(P, offered[n], hand[n])
  <2>1. place[id] # "hand"
    BY <1>6
  <2>2. QED
    BY <1>5, <1>6, <1>7, <2>1, MovesHand
<1>11. AirAt(P, a)
  BY <1>2, <1>5, <1>6, <1>7 DEF AirAt, Moved
<1>12. QueueAt(P, queue[n])
  BY <1>5, <1>6, <1>7, MovesQueue
<1>13. TakenAt(P, taken[n])
  BY <1>5, <1>6, <1>7, MovesTaken
<1>14. QuinnAt(P, q)
  BY <1>2, <1>3, <1>5, <1>7, QuinnTakes
<1>15. At(n, P, f, g)'
  BY <1>1, <1>3, <1>4, <1>8, <1>9, <1>10, <1>11, <1>12, <1>13, <1>14 DEF At
<1>16. QED
  BY <1>4, <1>15 DEF Placed

\* One arrives, and is delivered or not.
LEMMA DemuxPlaces ==
    ASSUME PathInv, NEW n \in Ends, Demux(n)
    PROVE  PathType' /\ Placed(n)' /\ Same(Peer(n))
<1>1. PICK place, f, g : At(n, place, f, g)
  BY DEF PathInv, Placed
<1>2. PICK id \in air[n] : /\ air' = Of(air, n, air[n] \ {id})
                           /\ Delivered(n, id, "datagram") \/ UNCHANGED taken
  BY DEF Demux
<1>3. UNCHANGED <<offered, hand, quinn, queue, task, writing, wire, reading>>
  BY DEF Demux
<1>4. /\ PlacesAt(place, offered[n]) /\ HandAt(place, offered[n], hand[n])
      /\ OneAt(place, "flight", f) /\ OneAt(place, "next", g)
      /\ QuinnAt(place, quinn[n]) /\ AirAt(place, air[n])
      /\ QueueAt(place, queue[n]) /\ TakenAt(place, taken[n])
      /\ place \in [Nat -> Places]
  BY <1>1 DEF At, PlacesAt
<1>5. id \in Nat /\ place[id] = "air"
  BY <1>2, <1>4 DEF AirAt
<1>6. PICK a : a = air[n] \ {id}
  OBVIOUS
<1>7. ASSUME NEW P, Moved(place, P, id, "received")
      PROVE  /\ PlacesAt(P, offered[n]) /\ OneAt(P, "flight", f) /\ OneAt(P, "next", g)
             /\ HandAt(P, offered[n], hand[n]) /\ QuinnAt(P, quinn[n]) /\ AirAt(P, a)
             /\ QueueAt(P, queue[n]) /\ TakenAt(P, taken[n])
  <2>1. id \in 1..offered[n]
    BY <1>4, <1>5, Somewhere
  <2>2. Rank("received") = 0 /\ "received" \in Places
    BY DEF Rank, Places
  <2>3. PlacesAt(P, offered[n])
    BY <1>4, <1>7, <2>1, <2>2, Leaves
  <2>4. "flight" # place[id] /\ "next" # place[id]
    BY <1>5
  <2>5. OneAt(P, "flight", f) /\ OneAt(P, "next", g)
    BY <1>4, <1>5, <1>7, <2>4, MovesOne
  <2>6. HandAt(P, offered[n], hand[n])
    <3>1. place[id] # "hand" /\ "received" # "hand"
      BY <1>5
    <3>2. QED
      BY <1>4, <1>5, <1>7, <3>1, MovesHand
  <2>7. AirAt(P, a)
    BY <1>4, <1>5, <1>6, <1>7 DEF AirAt, Moved
  <2>8. QuinnAt(P, quinn[n])
    BY <1>4, <1>5, <1>7, MovesQuinn
  <2>9. QueueAt(P, queue[n])
    BY <1>4, <1>5, <1>7, MovesQueue
  <2>10. TakenAt(P, taken[n])
    BY <1>4, <1>5, <1>7, MovesTaken
  <2>11. QED
    BY <2>3, <2>5, <2>6, <2>7, <2>8, <2>9, <2>10
<1>8. PICK P : Moved(place, P, id, "received")
  BY <1>4, <1>5, CanMove DEF Places
<1>9. CASE UNCHANGED taken
  <2>1. PathType' /\ Same(Peer(n)) /\ air'[n] = a
    BY <1>2, <1>3, <1>6, <1>9, OfEffect, OtherEnd DEF PathInv, PathType, Same
  <2>2. At(n, P, f, g)'
    BY <1>1, <1>3, <1>7, <1>8, <1>9, <2>1 DEF At
  <2>3. QED
    BY <2>1, <2>2 DEF Placed
<1>10. CASE Delivered(n, id, "datagram")
  <2>1. PICK t : t = Append(taken[n], [id |-> id, by |-> "datagram"])
    OBVIOUS
  <2>2. taken' = Of(taken, n, t)
    BY <1>10, <2>1 DEF Delivered
  <2>3. PathType' /\ Same(Peer(n)) /\ air'[n] = a /\ taken'[n] = t
    BY <1>2, <1>3, <1>6, <2>2, OfEffect, OtherEnd DEF PathInv, PathType, Same
  <2>4. TakenAt(P, t)
    BY <1>4, <1>5, <1>8, <2>1, TakenAppends
  <2>5. At(n, P, f, g)'
    BY <1>1, <1>3, <1>7, <1>8, <2>3, <2>4 DEF At
  <2>6. QED
    BY <2>3, <2>5 DEF Placed
<1>11. QED
  BY <1>2, <1>9, <1>10

\* drain takes the next packet of the queue.
LEMMA DrainPlaces ==
    ASSUME PathInv, NEW n \in Ends, Drain(n)
    PROVE  PathType' /\ Placed(n)' /\ Same(Peer(n))
<1>1. PICK place, f, g : At(n, place, f, g)
  BY DEF PathInv, Placed
<1>2. PICK b, id, x : b = Tail(queue[n]) /\ id = Head(queue[n]).id
                      /\ x = <<Piece(id, "length"), Piece(id, "body")>>
  OBVIOUS
<1>3. /\ task[n] = "open" /\ writing[n] = <<>> /\ queue[n] # <<>>
      /\ writing' = Of(writing, n, x) /\ queue' = Of(queue, n, b)
      /\ UNCHANGED <<offered, hand, quinn, air, task, wire, taken, reading>>
  BY <1>2 DEF Drain, Reads, Piece
<1>4. PathType' /\ Same(Peer(n)) /\ queue'[n] = b /\ writing'[n] = x
  BY <1>3, OfEffect, OtherEnd DEF PathInv, PathType, Same
<1>5. /\ PlacesAt(place, offered[n]) /\ HandAt(place, offered[n], hand[n])
      /\ OneAt(place, "flight", f) /\ OneAt(place, "next", g)
      /\ QuinnAt(place, quinn[n]) /\ AirAt(place, air[n])
      /\ QueueAt(place, queue[n]) /\ TakenAt(place, taken[n])
      /\ place \in [Nat -> Places]
      /\ FramesAt(f, g, reading[Peer(n)], wire[n], <<>>, "open")
  BY <1>1, <1>3 DEF At, PlacesAt
<1>6. /\ id \in Nat /\ place[id] = "queue"
      /\ \A j \in Nat : j < id => place[j] # "queue"
      /\ \A P, to : to # "queue" /\ Moved(place, P, id, to) => QueueAt(P, b)
  BY <1>2, <1>3, <1>5, QueueTakes
<1>7. PICK P : Moved(place, P, id, "next")
  BY <1>5, <1>6, CanMove DEF Places
<1>8. id \in 1..offered[n] /\ id # 0
  BY <1>5, <1>6, Somewhere
<1>9. g = 0
  <2>1. <<Piece(g, "length"), Piece(g, "body")>> # <<>> /\ <<Piece(f, "body")>> # <<>>
    OBVIOUS
  <2>2. QED
    BY <1>5, <2>1 DEF FramesAt, Frame
<1>10. FramesAt(f, id, reading[Peer(n)], wire[n], x, "open")
  <2>1. <<Piece(f, "body")>> # <<>>
    OBVIOUS
  <2>2. QED
    BY <1>2, <1>5, <1>8, <1>9, <2>1 DEF FramesAt, Frame
<1>11. PlacesAt(P, offered[n])
  <2>1. Rank("next") = Rank(place[id]) + 1 /\ Rank(place[id]) > 0 /\ "next" \in Places
    BY <1>6 DEF Rank, Places
  <2>2. \A j \in Nat : j < id => Rank(place[j]) # Rank(place[id])
    BY <1>6 DEF Rank
  <2>3. QED
    BY <1>5, <1>7, <1>8, <2>1, <2>2, GoesOn
<1>12. OneAt(P, "flight", f)
  <2>1. "flight" # place[id]
    BY <1>6
  <2>2. QED
    BY <1>5, <1>6, <1>7, <2>1, MovesOne
<1>13. OneAt(P, "next", id)
  BY <1>5, <1>6, <1>7, <1>8, <1>9 DEF OneAt, Moved
<1>14. HandAt(P, offered[n], hand[n])
  <2>1. place[id] # "hand"
    BY <1>6
  <2>2. QED
    BY <1>5, <1>6, <1>7, <2>1, MovesHand
<1>15. AirAt(P, air[n]) /\ QuinnAt(P, quinn[n])
  BY <1>5, <1>6, <1>7, MovesAir, MovesQuinn
<1>16. TakenAt(P, taken[n])
  BY <1>5, <1>6, <1>7, MovesTaken
<1>17. QueueAt(P, b)
  BY <1>6, <1>7
<1>18. At(n, P, f, id)'
  BY <1>3, <1>4, <1>17, <1>10, <1>11, <1>12, <1>13, <1>14, <1>15, <1>16 DEF At
<1>19. QED
  BY <1>4, <1>18 DEF Placed

\* write_body puts a piece on the wire: the first of a frame, or the body.
LEMMA WritePlaces ==
    ASSUME PathInv, NEW n \in Ends, WriteBody(n)
    PROVE  PathType' /\ Placed(n)' /\ Same(Peer(n))
<1>1. PICK place, f, g : At(n, place, f, g)
  BY DEF PathInv, Placed
<1>2. PICK w, x : w = <<Head(writing[n])>> /\ x = Tail(writing[n])
  OBVIOUS
<1>3. /\ task[n] = "open" /\ writing[n] # <<>> /\ wire[n] = <<>>
      /\ wire' = Of(wire, n, w) /\ writing' = Of(writing, n, x)
      /\ UNCHANGED <<offered, hand, quinn, air, queue, task, reading, taken>>
  BY <1>2 DEF WriteBody
<1>4. PathType' /\ Same(Peer(n)) /\ wire'[n] = w /\ writing'[n] = x
  BY <1>3, OfEffect, OtherEnd DEF PathInv, PathType, Same
<1>5. /\ PlacesAt(place, offered[n]) /\ HandAt(place, offered[n], hand[n])
      /\ OneAt(place, "flight", f) /\ OneAt(place, "next", g)
      /\ QuinnAt(place, quinn[n]) /\ AirAt(place, air[n])
      /\ QueueAt(place, queue[n]) /\ TakenAt(place, taken[n])
      /\ place \in [Nat -> Places]
      /\ FramesAt(f, g, reading[Peer(n)], <<>>, writing[n], "open")
  BY <1>1, <1>3 DEF At, PlacesAt
<1>6. \A i : <<Piece(i, "body")>> # <<>> /\ <<Piece(i, "length")>> # <<>>
  OBVIOUS
<1>7. CASE f # 0
  <2>1. g = 0 /\ writing[n] = <<Piece(f, "body")>> /\ reading[Peer(n)] = <<Piece(f, "length")>>
    BY <1>3, <1>5, <1>6, <1>7 DEF FramesAt
  <2>2. w = <<Piece(f, "body")>> /\ x = <<>>
    BY <1>2, <2>1
  <2>3. FramesAt(f, g, reading[Peer(n)], w, x, "open")
    BY <1>7, <2>1, <2>2 DEF FramesAt, Frame
  <2>4. At(n, place, f, g)'
    BY <1>1, <1>3, <1>4, <2>3 DEF At
  <2>5. QED
    BY <1>4, <2>4 DEF Placed
<1>8. CASE f = 0
  <2>1. /\ reading[Peer(n)] = <<>> /\ g # 0
        /\ writing[n] = <<Piece(g, "length"), Piece(g, "body")>>
    BY <1>3, <1>5, <1>6, <1>8 DEF FramesAt, Frame
  <2>2. w = <<Piece(g, "length")>> /\ x = <<Piece(g, "body")>>
    BY <1>2, <2>1
  <2>3. FramesAt(g, 0, reading[Peer(n)], w, x, "open")
    BY <2>1, <2>2 DEF FramesAt
  <2>4. g \in Nat /\ place[g] = "next" /\ \A j \in Nat : place[j] = "next" => j = g
    BY <1>5, <2>1 DEF OneAt
  <2>5. g \in 1..offered[n]
    BY <1>5, <2>4, Somewhere
  <2>6. PICK P : Moved(place, P, g, "flight")
    BY <1>5, <2>4, CanMove DEF Places
  <2>7. PlacesAt(P, offered[n])
    <3>1. Rank("flight") = Rank(place[g]) + 1 /\ Rank(place[g]) > 0 /\ "flight" \in Places
      BY <2>4 DEF Rank, Places
    <3>2. \A j \in Nat : j < g => place[j] # "next"
      BY <2>4
    <3>3. \A j \in Nat : j < g => Rank(place[j]) # Rank(place[g])
      BY <2>4, <3>2 DEF Rank
    <3>4. QED
      BY <1>5, <2>5, <2>6, <3>1, <3>3, GoesOn
  <2>8. OneAt(P, "flight", g) /\ OneAt(P, "next", 0)
    BY <1>5, <1>8, <2>1, <2>4, <2>6 DEF OneAt, Moved
  <2>9. HandAt(P, offered[n], hand[n])
    <3>1. place[g] # "hand"
      BY <2>4
    <3>2. QED
      BY <1>5, <2>4, <2>6, <3>1, MovesHand
  <2>10. AirAt(P, air[n]) /\ QuinnAt(P, quinn[n])
    BY <1>5, <2>4, <2>6, MovesAir, MovesQuinn
  <2>11. QueueAt(P, queue[n])
    BY <1>5, <2>4, <2>6, MovesQueue
  <2>12. TakenAt(P, taken[n])
    BY <1>5, <2>4, <2>6, MovesTaken
  <2>13. At(n, P, g, 0)'
    BY <1>3, <1>4, <2>3, <2>7, <2>8, <2>9, <2>10, <2>11, <2>12 DEF At
  <2>14. QED
    BY <1>4, <2>13 DEF Placed
<1>9. QED
  BY <1>7, <1>8

\* read_body at the other end takes a piece: the length, and then the body of the same
\* frame.
LEMMA ReadPlaces ==
    ASSUME PathInv, NEW m \in Ends, ReadBody(m)
    PROVE  PathType' /\ Placed(Peer(m))' /\ Same(m)
<1>0. PICK n \in Ends : n = Peer(m)
  BY OtherEnd
<1> SUFFICES PathType' /\ Placed(n)' /\ Same(m)
  BY <1>0
<1>1. PICK place, f, g : At(n, place, f, g)
  BY DEF PathInv, Placed
<1>2. m = Peer(n) /\ m # n
  BY <1>0, OtherEnd
<1>3. PICK w, piece : w = Tail(wire[n]) /\ piece = Head(wire[n])
  OBVIOUS
<1>4. /\ wire[n] # <<>> /\ wire' = Of(wire, n, w)
      /\ UNCHANGED <<offered, hand, quinn, air, queue, task, writing>>
  BY <1>0, <1>3 DEF ReadBody
<1>5. /\ PlacesAt(place, offered[n]) /\ HandAt(place, offered[n], hand[n])
      /\ OneAt(place, "flight", f) /\ OneAt(place, "next", g)
      /\ QuinnAt(place, quinn[n]) /\ AirAt(place, air[n])
      /\ QueueAt(place, queue[n]) /\ TakenAt(place, taken[n])
      /\ place \in [Nat -> Places]
      /\ FramesAt(f, g, reading[m], wire[n], writing[n], task[n])
  BY <1>1, <1>2 DEF At, PlacesAt
<1>6. \A i : <<Piece(i, "body")>> # <<>> /\ <<Piece(i, "length")>> # <<>>
  OBVIOUS
<1>7. CASE reading[m] = <<>>
  <2>1. reading' = Of(reading, m, <<piece>>) /\ UNCHANGED taken
    BY <1>0, <1>3, <1>7 DEF ReadBody
  <2>2. PathType' /\ Same(m) /\ reading'[m] = <<piece>> /\ wire'[n] = w
    <3>1. OverEnds(wire) /\ OverEnds(reading)
      BY DEF PathInv, PathType
    <3>2. /\ OverEnds(wire') /\ wire'[n] = w /\ wire'[m] = wire[m]
          /\ OverEnds(reading') /\ reading'[m] = <<piece>> /\ reading'[n] = reading[n]
      <4>1. OverEnds(wire') /\ wire'[n] = w /\ wire'[m] = wire[m]
        BY <1>2, <1>4, <3>1, OfEffect
      <4>2. PICK x : x = <<piece>>
        OBVIOUS
      <4>3. OverEnds(reading') /\ reading'[m] = x /\ reading'[n] = reading[n]
        BY <1>2, <2>1, <3>1, <4>2, OfEffect
      <4>4. QED
        BY <4>1, <4>2, <4>3
    <3>3. PathType'
      BY <1>4, <2>1, <3>2 DEF PathInv, PathType
    <3>4. Same(m)
      BY <1>0, <1>4, <2>1, <3>2 DEF Same
    <3>5. QED
      BY <3>2, <3>3, <3>4
  <2>3. f # 0 /\ g = 0 /\ wire[n] = <<Piece(f, "length")>>
    BY <1>4, <1>5, <1>6, <1>7 DEF FramesAt
  <2>4. w = <<>> /\ piece = Piece(f, "length")
    BY <1>3, <2>3
  <2>5. FramesAt(f, g, reading'[m], wire'[n], writing[n], task[n])
    BY <1>4, <1>5, <1>6, <1>7, <2>2, <2>3, <2>4 DEF FramesAt
  <2>6. At(n, place, f, g)'
    BY <1>2, <1>4, <1>5, <2>1, <2>5 DEF At
  <2>7. QED
    BY <2>2, <2>6 DEF Placed
<1>8. CASE reading[m] # <<>>
  <2>1. /\ f # 0 /\ reading[m] = <<Piece(f, "length")>> /\ wire[n] = <<Piece(f, "body")>>
        /\ writing[n] = Frame(g) /\ (g # 0 => task[n] = "open")
    BY <1>4, <1>5, <1>6, <1>8 DEF FramesAt
  <2>2. w = <<>> /\ piece = Piece(f, "body")
    BY <1>3, <2>1
  <2>3. /\ piece.id = f /\ piece.part = "body"
        /\ reading[m][1] = [piece EXCEPT !.part = "length"]
    BY <2>1, <2>2 DEF Piece
  <2>4. reading' = Of(reading, m, <<>>) /\ Delivered(n, f, "bulk")
    BY <1>0, <1>3, <1>8, <2>3 DEF ReadBody
  <2>5. PICK t : t = Append(taken[n], [id |-> f, by |-> "bulk"])
    OBVIOUS
  <2>6. taken' = Of(taken, n, t)
    BY <2>4, <2>5 DEF Delivered
  <2>7. PathType' /\ Same(m) /\ reading'[m] = <<>> /\ wire'[n] = w /\ taken'[n] = t
    <3>1. OverEnds(wire) /\ OverEnds(reading) /\ OverEnds(taken)
      BY DEF PathInv, PathType
    <3>2. /\ OverEnds(wire') /\ wire'[n] = w /\ wire'[m] = wire[m]
          /\ OverEnds(reading') /\ reading'[m] = <<>> /\ reading'[n] = reading[n]
          /\ OverEnds(taken') /\ taken'[n] = t /\ taken'[m] = taken[m]
      <4>1. OverEnds(wire') /\ wire'[n] = w /\ wire'[m] = wire[m]
        BY <1>2, <1>4, <3>1, OfEffect
      <4>2. OverEnds(reading') /\ reading'[m] = <<>> /\ reading'[n] = reading[n]
        BY <1>2, <2>4, <3>1, OfEffect
      <4>3. OverEnds(taken') /\ taken'[n] = t /\ taken'[m] = taken[m]
        BY <1>2, <2>6, <3>1, OfEffect
      <4>4. QED
        BY <4>1, <4>2, <4>3
    <3>3. PathType'
      BY <1>4, <3>2 DEF PathInv, PathType
    <3>4. Same(m)
      BY <1>0, <1>4, <3>2 DEF Same
    <3>5. QED
      BY <3>2, <3>3, <3>4
  <2>8. FramesAt(0, g, reading'[m], wire'[n], writing[n], task[n])
    BY <2>1, <2>2, <2>7 DEF FramesAt
  <2>9. f \in Nat /\ place[f] = "flight" /\ \A j \in Nat : place[j] = "flight" => j = f
    BY <1>5, <2>1 DEF OneAt
  <2>10. f \in 1..offered[n]
    BY <1>5, <2>9, Somewhere
  <2>11. PICK P : Moved(place, P, f, "delivered")
    BY <1>5, <2>9, CanMove DEF Places
  <2>12. PlacesAt(P, offered[n])
    <3>1. /\ Rank("delivered") = Rank(place[f]) + 1 /\ Rank(place[f]) > 0
          /\ "delivered" \in Places
      BY <2>9 DEF Rank, Places
    <3>2. \A j \in Nat : j < f => place[j] # "flight"
      BY <2>9
    <3>3. \A j \in Nat : j < f => Rank(place[j]) # Rank(place[f])
      BY <2>9, <3>2 DEF Rank
    <3>4. QED
      BY <1>5, <2>10, <2>11, <3>1, <3>3, GoesOn
  <2>13. OneAt(P, "flight", 0) /\ OneAt(P, "next", g)
    BY <1>5, <2>9, <2>11 DEF OneAt, Moved
  <2>14. HandAt(P, offered[n], hand[n])
    <3>1. place[f] # "hand"
      BY <2>9
    <3>2. QED
      BY <1>5, <2>9, <2>11, <3>1, MovesHand
  <2>15. AirAt(P, air[n]) /\ QuinnAt(P, quinn[n])
    BY <1>5, <2>9, <2>11, MovesAir, MovesQuinn
  <2>16. QueueAt(P, queue[n])
    BY <1>5, <2>9, <2>11, MovesQueue
  <2>17. TakenAt(P, t)
    <3>1. ASSUME NEW j \in Nat, place[j] = "delivered" PROVE j < f
      <4>1. Rank(place[j]) = 5 /\ Rank(place[f]) = 4
        BY <2>9, <3>1 DEF Rank
      <4>2. ~(f < j)
        BY <1>5, <2>9, <4>1 DEF PlacesAt
      <4>3. j # f
        BY <2>9, <3>1
      <4>4. QED
        BY <2>9, <4>2, <4>3
    <3>2. Moved(place, P, f, IF "bulk" = "bulk" THEN "delivered" ELSE "received")
      BY <2>11
    <3>3. TakenAt(P, Append(taken[n], [id |-> f, by |-> "bulk"]))
      BY <1>5, <2>9, <3>1, <3>2, TakenAppends
    <3>4. QED
      BY <2>5, <3>3
  <2>18. At(n, P, 0, g)'
    BY <1>2, <1>4, <2>7, <2>8, <2>12, <2>13, <2>14, <2>15, <2>16, <2>17 DEF At
  <2>19. QED
    BY <2>7, <2>18 DEF Placed
<1>9. QED
  BY <1>7, <1>8

\* The bulk task ends: its queue goes with it, and the frame it has not begun to write.
LEMMA EndPlaces ==
    ASSUME PathInv, NEW n \in Ends, EndBulk(n)
    PROVE  PathType' /\ Placed(n)' /\ Same(Peer(n))
<1>1. PICK place, f, g : At(n, place, f, g)
  BY DEF PathInv, Placed
<1>2. PICK k : k = IF task[n] = "open" THEN "over" ELSE "gone"
  OBVIOUS
<1>3. /\ task[n] \in {"open", "none"} /\ task' = Of(task, n, k)
      /\ queue' = Of(queue, n, <<>>) /\ writing' = Of(writing, n, <<>>)
      /\ UNCHANGED <<offered, hand, quinn, air, wire, reading, taken>>
  BY <1>2 DEF EndBulk
<1>4. PathType' /\ Same(Peer(n)) /\ task'[n] = k /\ queue'[n] = <<>> /\ writing'[n] = <<>>
  BY <1>3, OfEffect, OtherEnd DEF PathInv, PathType, Same
<1>5. /\ PlacesAt(place, offered[n]) /\ HandAt(place, offered[n], hand[n])
      /\ OneAt(place, "flight", f) /\ OneAt(place, "next", g)
      /\ QuinnAt(place, quinn[n]) /\ AirAt(place, air[n])
      /\ QueueAt(place, queue[n]) /\ TakenAt(place, taken[n])
      /\ place \in [Nat -> Places]
      /\ FramesAt(f, g, reading[Peer(n)], wire[n], writing[n], task[n])
  BY <1>1 DEF At, PlacesAt
<1>6. PICK P : P = [j \in Nat |-> IF place[j] \in {"queue", "next"} THEN "gone" ELSE place[j]]
  OBVIOUS
<1>7. /\ P \in [Nat -> Places]
      /\ \A j \in Nat : P[j] \notin {"queue", "next"}
      /\ \A j \in Nat : P[j] = place[j] \/ (P[j] = "gone" /\ place[j] \in {"queue", "next"})
  BY <1>5, <1>6 DEF Places
<1>8. FramesAt(f, 0, reading[Peer(n)], wire[n], <<>>, k)
  BY <1>2, <1>3, <1>5 DEF FramesAt, Frame
<1>9. PlacesAt(P, offered[n])
  <2>1. \A j \in Nat : Rank(P[j]) > 0 => P[j] = place[j]
    BY <1>7 DEF Rank
  <2>2. \A j \in Nat : place[j] = "unsent" => P[j] = "unsent"
    BY <1>7
  <2>3. QED
    BY <1>5, <1>7, <2>1, <2>2 DEF PlacesAt
<1>10. OneAt(P, "flight", f) /\ OneAt(P, "next", 0)
  BY <1>5, <1>7 DEF OneAt
<1>11. HandAt(P, offered[n], hand[n])
  <2>1. \A j \in Nat : P[j] = "hand" <=> place[j] = "hand"
    BY <1>7
  <2>2. QED
    BY <1>5, <2>1 DEF HandAt
<1>12. AirAt(P, air[n])
  BY <1>5, <1>7 DEF AirAt
<1>13. QuinnAt(P, quinn[n])
  <2>1. \A i \in DOMAIN quinn[n] : quinn[n][i].id \in Nat
    BY <1>5, HaveIds DEF QuinnAt
  <2>2. QED
    BY <1>5, <1>7, <2>1 DEF QuinnAt
<1>14. TakenAt(P, taken[n])
  <2>1. \A i \in DOMAIN taken[n] : taken[n][i].id \in Nat
    BY <1>5, HaveIds DEF TakenAt
  <2>2. QED
    BY <1>5, <1>7, <2>1 DEF TakenAt
<1>15. QueueAt(P, <<>>)
  <2>1. <<>> \in Seq(Packet) /\ DOMAIN <<>> = {}
    OBVIOUS
  <2>2. QED
    BY <1>7, <2>1 DEF QueueAt
<1>16. At(n, P, f, 0)'
  BY <1>3, <1>4, <1>8, <1>9, <1>10, <1>11, <1>12, <1>13, <1>14, <1>15 DEF At
<1>17. QED
  BY <1>4, <1>16 DEF Placed

\* The stream is opened at an end, which has written nothing yet.
LEMMA OpenPlaces ==
    ASSUME PathInv, NEW n \in Ends, task[n] = "none", NEW to, task' = Of(task, n, to),
           UNCHANGED <<offered, hand, quinn, air, queue, writing, wire, reading, taken>>
    PROVE  PathType' /\ Placed(n)' /\ Same(Peer(n))
<1>1. PICK place, f, g : At(n, place, f, g)
  BY DEF PathInv, Placed
<1>2. PathType' /\ Same(Peer(n)) /\ task'[n] = to
  BY OfEffect, OtherEnd DEF PathInv, PathType, Same
<1>3. FramesAt(f, g, reading[Peer(n)], wire[n], writing[n], to)
  BY <1>1 DEF At, FramesAt
<1>4. At(n, place, f, g)'
  BY <1>1, <1>2, <1>3 DEF At
<1>5. QED
  BY <1>2, <1>4 DEF Placed

-----------------------------------------------------------------------------
\* At first everything is unsent.
LEMMA PathInitInv == PathInit => PathInv
<1> SUFFICES ASSUME PathInit PROVE PathInv
  OBVIOUS
<1>1. PathType
  BY DEF PathInit, PathType, OverEnds
<1>2. ASSUME NEW n \in Ends PROVE Placed(n)
  <2>1. PICK place : place = [j \in Nat |-> "unsent"]
    OBVIOUS
  <2>2. place \in [Nat -> Places] /\ \A j \in Nat : place[j] = "unsent"
    BY <2>1 DEF Places
  <2>3. /\ offered[n] = 0 /\ hand[n] = <<>> /\ quinn[n] = <<>> /\ air[n] = {}
        /\ queue[n] = <<>> /\ task[n] = "none" /\ writing[n] = <<>> /\ wire[n] = <<>>
        /\ reading[Peer(n)] = <<>> /\ taken[n] = <<>>
    BY OtherEnd DEF PathInit
  <2>4. PlacesAt(place, 0)
    BY <2>2 DEF PlacesAt, Rank
  <2>5. OneAt(place, "flight", 0) /\ OneAt(place, "next", 0) /\ HandAt(place, 0, <<>>)
    BY <2>2 DEF OneAt, HandAt
  <2>6. QuinnAt(place, <<>>) /\ AirAt(place, {}) /\ QueueAt(place, <<>>) /\ TakenAt(place, <<>>)
    <3>1. <<>> \in Seq(Packet) /\ <<>> \in Seq(Got) /\ DOMAIN <<>> = {}
      OBVIOUS
    <3>2. QED
      BY <2>2, <3>1 DEF QuinnAt, AirAt, QueueAt, TakenAt
  <2>7. FramesAt(0, 0, <<>>, <<>>, <<>>, "none")
    BY DEF FramesAt, Frame
  <2>8. At(n, place, 0, 0)
    BY <2>3, <2>4, <2>5, <2>6, <2>7 DEF At
  <2>9. QED
    BY <2>8 DEF Placed
<1>3. QED
  BY <1>1, <1>2 DEF PathInv

\* Every step moves what it moves, and no more.
LEMMA PathStepInv == PathInv /\ [PathNext]_pathVars => PathInv'
<1> SUFFICES ASSUME PathInv, [PathNext]_pathVars PROVE PathInv'
  OBVIOUS
<1>1. ASSUME NEW n \in Ends, PathType', Placed(n)', Same(Peer(n)) PROVE PathInv'
  <2>1. Placed(Peer(n))'
    BY <1>1, OtherEnd, SamePlaces DEF PathInv
  <2>2. QED
    BY <1>1, <2>1, OtherEnd DEF PathInv
<1>2. ASSUME NEW n \in Ends, NEW size \in Sizes, Dispatch(n, size) PROVE PathInv'
  BY <1>1, <1>2, DispatchPlaces
<1>3. ASSUME NEW n \in Ends, SendDatagram(n) PROVE PathInv'
  BY <1>1, <1>3, SendPlaces
<1>4. ASSUME NEW n \in Ends, QueueBulk(n) PROVE PathInv'
  BY <1>1, <1>4, QueuePlaces
<1>5. ASSUME NEW n \in Ends, Transmit(n) PROVE PathInv'
  BY <1>1, <1>5, TransmitPlaces
<1>6. ASSUME NEW n \in Ends, Demux(n) PROVE PathInv'
  BY <1>1, <1>6, DemuxPlaces
<1>7. ASSUME NEW n \in Ends, Drain(n) PROVE PathInv'
  BY <1>1, <1>7, DrainPlaces
<1>8. ASSUME NEW n \in Ends, WriteBody(n) PROVE PathInv'
  BY <1>1, <1>8, WritePlaces
<1>9. ASSUME NEW n \in Ends, ReadBody(n) PROVE PathInv'
  <2>1. Peer(n) \in Ends /\ Peer(Peer(n)) = n
    BY OtherEnd
  <2>2. PathType' /\ Placed(Peer(n))' /\ Same(n)
    BY <1>9, <2>1, ReadPlaces
  <2>3. QED
    BY <1>1, <2>1, <2>2
<1>10. ASSUME NEW n \in Ends, EndBulk(n) PROVE PathInv'
  BY <1>1, <1>10, EndPlaces
<1>11. ASSUME OpenBulk PROVE PathInv'
  <2>1. "server" \in Ends
    BY DEF Ends
  <2>2. PathType' /\ Placed("server")' /\ Same(Peer("server"))
    BY <1>11, <2>1, OpenPlaces DEF OpenBulk
  <2>3. QED
    BY <1>1, <2>1, <2>2
<1>12. ASSUME ServeBulk PROVE PathInv'
  <2>1. "client" \in Ends
    BY DEF Ends
  <2>2. PICK to : task' = Of(task, "client", to)
    BY <1>12 DEF ServeBulk
  <2>3. PathType' /\ Placed("client")' /\ Same(Peer("client"))
    BY <1>12, <2>1, <2>2, OpenPlaces DEF ServeBulk
  <2>4. QED
    BY <1>1, <2>1, <2>3
<1>13. ASSUME UNCHANGED <<offered, hand, quinn, air, queue, task, writing, wire, reading, taken>>
       PROVE  PathInv'
  <2>1. PathType' /\ \A n \in Ends : Same(n)
    BY <1>13 DEF PathInv, PathType, Same
  <2>2. QED
    BY <2>1, SamePlaces DEF PathInv
<1>14. ASSUME MtuMoves \/ LoseConnection \/ UNCHANGED pathVars PROVE PathInv'
  BY <1>13, <1>14 DEF MtuMoves, LoseConnection, pathVars
<1>15. QED
  BY <1>2, <1>3, <1>4, <1>5, <1>6, <1>7, <1>8, <1>9, <1>10, <1>11, <1>12, <1>14 DEF PathNext

\* Of what an end sends, the other gets no payload twice and none put together from two
\* frames, and what comes by the bulk stream in order: whatever the sizes, the MTU, the
\* queues and the number of payloads, through evictions in quinn, the retry of a
\* datagram on the bulk stream (udp.rs), and the end of a task in the middle of a frame.
THEOREM PacketsStayIntact == PathSpec => []PacketsIntact
<1>1. PathInv => PacketsIntact
  <2> SUFFICES ASSUME PathInv, NEW n \in Ends, NEW i \in DOMAIN taken[n],
                      NEW j \in DOMAIN taken[n]
               PROVE  /\ taken[n][i].by # "torn"
                      /\ i < j => taken[n][i].id # taken[n][j].id
                      /\ i < j /\ taken[n][i].by = "bulk" /\ taken[n][j].by = "bulk" =>
                             taken[n][i].id < taken[n][j].id
    BY DEF PacketsIntact
  <2>1. PICK place, f, g : At(n, place, f, g)
    BY DEF PathInv, Placed
  <2>2. TakenAt(place, taken[n])
    BY <2>1 DEF At
  <2>3. QED
    BY <2>2 DEF TakenAt
<1>2. QED
  BY <1>1, PathInitInv, PathStepInv, PTL DEF PathSpec
=============================================================================
