---------------------------- MODULE TunnelProofs ----------------------------
(***************************************************************************)
(* Theorems about the visitor streams of a session, for any number of      *)
(* visitors, streams and bytes: what reads as the end of a transfer is all *)
(* of it, and the stream budget neither loses a permit nor gains one.      *)
(***************************************************************************)
EXTENDS Tunnel, FiniteSetTheorems, TLAPS

\* `permits' is only known to be a number here: BudgetExact is what bounds it.
Typed == /\ kind \in {"quic", "tcp"} /\ conn \in BOOLEAN
         /\ permits \in Nat /\ bulk \in BulkStage
         /\ stage \in [Visitors -> [Nodes -> ServerStage \cup ClientStage]]
         /\ left \in [Visitors -> SUBSET Nodes]
         /\ aborted \in [Visitors -> SUBSET Nodes]
         /\ flow \in [Visitors -> [Flows -> Flow]]

(***************************************************************************)
(* One direction of a visitor's stream: no place of the pipe is ahead of   *)
(* the one before it, a finish and a half-close come after the last byte.  *)
(***************************************************************************)
InOrder(f) ==
    /\ f.got <= f.put /\ f.put <= f.taken /\ f.taken <= f.out
    /\ f.out <= f.read /\ f.read <= f.sent
Whole(f) ==
    /\ f.mark = "finish" => f.fin /\ f.out = f.sent
    /\ f.shut => f.fin /\ f.put = f.sent
    /\ f.saw = "end" => f.fin /\ f.got = f.sent
Sound(f) == f \in Flow /\ InOrder(f) /\ Whole(f)

\* A pump that is over and did not reset its socket has half-closed it.
EndInv ==
    \A v \in Visitors, d \in Flows :
        stage[v][Far(d)] = "over" /\ Far(d) \notin aborted[v] => flow[v][d].shut

FlowInv == Typed /\ (\A v \in Visitors, d \in Flows : Sound(flow[v][d])) /\ EndInv

BudgetInv == IsFiniteSet(Holders) /\ BudgetExact

-----------------------------------------------------------------------------
\* The steps of a flow.
Advanced(v, d) == \E f : Set(v, d, f) /\ Sound(f) /\ (flow[v][d].shut => f.shut)

\* The nodes and flows of a visitor are each other's.
LEMMA Ends ==
    /\ \A n \in Nodes : Out(n) \in Flows /\ In(n) \in Flows
    /\ \A n \in Nodes : Far(In(n)) = n /\ Near(Out(n)) = n
    /\ \A d \in Flows : Far(d) \in Nodes /\ Near(d) \in Nodes
    /\ \A d \in Flows, n \in Nodes : Far(d) = n => In(n) = d
BY DEF Nodes, Flows, Out, In, Near, Far

\* Whatever an application, a pump or a refusal does to a flow leaves it in order.
LEMMA AppsAdvance ==
    ASSUME FlowInv, NEW v \in Visitors, NEW d \in Flows,
           AppWrites(v, d) \/ AppFinishes(v, d) \/ AppReads(v, d)
    PROVE  Advanced(v, d)
<1> DEFINE f == flow[v][d]
<1>1. Sound(f)
  BY DEF FlowInv
<1>2. stage[v][Far(d)] = "over" /\ Far(d) \notin aborted[v] => f.shut
  BY DEF FlowInv, EndInv
<1>3. ASSUME AppWrites(v, d) PROVE Advanced(v, d)
  <2> DEFINE g == [f EXCEPT !.sent = f.sent + 1]
  <2>1. Set(v, d, g) /\ ~f.fin
    BY <1>3 DEF AppWrites
  <2> HIDE DEF f
  <2>2. Sound(g) /\ (f.shut => g.shut)
    BY <1>1, <2>1 DEF Sound, InOrder, Whole, Flow
  <2>3. QED
    BY <2>1, <2>2 DEF Advanced, f
<1>4. ASSUME AppFinishes(v, d) PROVE Advanced(v, d)
  <2> DEFINE g == [f EXCEPT !.fin = TRUE]
  <2>1. Set(v, d, g)
    BY <1>4 DEF AppFinishes
  <2> HIDE DEF f
  <2>2. Sound(g) /\ (f.shut => g.shut)
    BY <1>1 DEF Sound, InOrder, Whole, Flow
  <2>3. QED
    BY <2>1, <2>2 DEF Advanced, f
<1>5. ASSUME AppReads(v, d) PROVE Advanced(v, d)
  <2>1. PICK g : /\ Set(v, d, g)
                 /\ \/ f.got < f.put /\ g = [f EXCEPT !.got = f.got + 1]
                    \/ f.got = f.put /\ Closed(v, d) /\ g = [f EXCEPT !.saw = "end"]
                    \/ g = [f EXCEPT !.saw = "reset"]
    BY <1>5 DEF AppReads
  <2>2. Closed(v, d) => f.shut
    BY <1>2 DEF Closed
  <2>3. f.saw = "nothing"
    BY <1>5 DEF AppReads
  <2> HIDE DEF f
  <2>4. Sound(g) /\ (f.shut => g.shut)
    BY <1>1, <2>1, <2>2, <2>3 DEF Sound, InOrder, Whole, Flow
  <2>5. QED
    BY <2>1, <2>4 DEF Advanced, f
<1>6. QED
  BY <1>3, <1>4, <1>5

\* The arms of a pump.
LEMMA PumpAdvances ==
    ASSUME FlowInv, NEW v \in Visitors, NEW n \in Nodes
    PROVE  /\ ReadSocket(v, n) \/ WriteStream(v, n) \/ FinishLeaves(v, n)
                  => Advanced(v, Out(n))
           /\ ReadStream(v, n) \/ WriteSocket(v, n) => Advanced(v, In(n))
<1> DEFINE f == flow[v][Out(n)]
           h == flow[v][In(n)]
<1>1. Sound(f) /\ Sound(h)
  BY Ends DEF FlowInv
<1>2. ASSUME ReadSocket(v, n) PROVE Advanced(v, Out(n))
  <2>1. PICK g : /\ Set(v, Out(n), g)
                 /\ \/ f.read < f.sent /\ g = [f EXCEPT !.read = f.read + 1]
                    \/ /\ f.read = f.sent /\ f.fin
                       /\ g = [f EXCEPT !.mark = "finish",
                                        !.gone = IF kind = "quic" THEN "yes" ELSE "no"]
    BY <1>2 DEF ReadSocket
  <2>2. f.mark = "none" /\ f.read = f.out
    BY <1>2 DEF ReadSocket, Reading
  <2> HIDE DEF f
  <2>3. Sound(g) /\ (f.shut => g.shut)
    <3>1. CASE f.read < f.sent /\ g = [f EXCEPT !.read = f.read + 1]
      BY <1>1, <2>2, <3>1 DEF Sound, InOrder, Whole, Flow
    <3>2. ASSUME NEW x \in {"yes", "no"}, f.read = f.sent, f.fin,
                 g = [f EXCEPT !.mark = "finish", !.gone = x]
          PROVE  Sound(g) /\ (f.shut => g.shut)
      BY <1>1, <2>2, <3>2 DEF Sound, InOrder, Whole, Flow
    <3>3. QED
      BY <2>1, <3>1, <3>2
  <2>4. QED
    BY <2>1, <2>3 DEF Advanced, f
<1>3. ASSUME WriteStream(v, n) PROVE Advanced(v, Out(n))
  <2> DEFINE g == [f EXCEPT !.out = f.out + 1]
  <2>1. Set(v, Out(n), g) /\ f.mark = "none" /\ f.read > f.out
    BY <1>3 DEF WriteStream, Writing
  <2> HIDE DEF f
  <2>2. Sound(g) /\ (f.shut => g.shut)
    BY <1>1, <2>1 DEF Sound, InOrder, Whole, Flow
  <2>3. QED
    BY <2>1, <2>2 DEF Advanced, f
<1>4. ASSUME FinishLeaves(v, n) PROVE Advanced(v, Out(n))
  <2>1. PICK g : /\ Set(v, Out(n), g)
                 /\ g = [f EXCEPT !.gone = "yes"] \/ g = [f EXCEPT !.gone = "failed"]
    BY <1>4 DEF FinishLeaves
  <2> HIDE DEF f
  <2>2. Sound(g) /\ (f.shut => g.shut)
    BY <1>1, <2>1 DEF Sound, InOrder, Whole, Flow
  <2>3. QED
    BY <2>1, <2>2 DEF Advanced, f
<1>5. ASSUME ReadStream(v, n) PROVE Advanced(v, In(n))
  <2>1. PICK g : /\ Set(v, In(n), g)
                 /\ \/ h.taken < h.out /\ g = [h EXCEPT !.taken = h.taken + 1]
                    \/ /\ h.taken = h.out /\ h.mark = "finish"
                       /\ g = [h EXCEPT !.shut = TRUE]
    BY <1>5 DEF ReadStream
  <2>2. h.taken = h.put
    BY <1>5 DEF ReadStream
  <2> HIDE DEF h
  <2>3. Sound(g) /\ (h.shut => g.shut)
    <3>1. CASE h.taken < h.out /\ g = [h EXCEPT !.taken = h.taken + 1]
      BY <1>1, <3>1 DEF Sound, InOrder, Whole, Flow
    <3>2. CASE h.taken = h.out /\ h.mark = "finish" /\ g = [h EXCEPT !.shut = TRUE]
      BY <1>1, <2>2, <3>2 DEF Sound, InOrder, Whole, Flow
    <3>3. QED
      BY <2>1, <3>1, <3>2
  <2>4. QED
    BY <2>1, <2>3 DEF Advanced, h
<1>6. ASSUME WriteSocket(v, n) PROVE Advanced(v, In(n))
  <2> DEFINE g == [h EXCEPT !.put = h.put + 1]
  <2>1. Set(v, In(n), g) /\ h.taken > h.put
    BY <1>6 DEF WriteSocket
  <2> HIDE DEF h
  <2>2. Sound(g) /\ (h.shut => g.shut)
    BY <1>1, <2>1 DEF Sound, InOrder, Whole, Flow
  <2>3. QED
    BY <2>1, <2>2 DEF Advanced, h
<1>7. QED
  BY <1>2, <1>3, <1>4, <1>5, <1>6

\* A pump that is dropped resets its stream, unless that was finished; so does a client
\* that refuses one.
LEMMA DropAdvances ==
    ASSUME FlowInv, NEW v \in Visitors
    PROVE  /\ \A n \in Nodes : DropPump(v, n) => Advanced(v, Out(n))
           /\ Refuse(v) => Advanced(v, "down")
<1>1. ASSUME NEW n \in Nodes, DropPump(v, n) PROVE Advanced(v, Out(n))
  <2> DEFINE f == flow[v][Out(n)]
  <2>1. Sound(f)
    BY Ends DEF FlowInv
  <2>2. PICK g \in Reset(f) : Set(v, Out(n), g)
    BY <1>1 DEF DropPump
  <2> HIDE DEF f
  <2>3. Sound(g) /\ (f.shut => g.shut)
    <3>1. CASE f.mark # "none"
      BY <2>1, <2>2, <3>1 DEF Reset
    <3>2. CASE f.mark = "none"
      <4> DEFINE r == [f EXCEPT !.mark = "reset"]
      <4>1. g \in {r, [r EXCEPT !.gone = "yes"], [r EXCEPT !.out = f.read],
                   [r EXCEPT !.out = f.read, !.gone = "yes"]}
        BY <2>2, <3>2 DEF Reset
      <4>2. Sound(r) /\ r.shut = f.shut /\ r.read = f.read /\ r.mark = "reset"
        BY <2>1 DEF Sound, InOrder, Whole, Flow
      <4> HIDE DEF r
      <4>3. CASE g = r
        BY <4>2, <4>3
      <4>4. CASE g = [r EXCEPT !.gone = "yes"]
        BY <4>2, <4>4 DEF Sound, InOrder, Whole, Flow
      <4>5. PICK q : q = [r EXCEPT !.out = f.read]
        OBVIOUS
      <4>6. Sound(q) /\ q.shut = f.shut
        BY <4>2, <4>5 DEF Sound, InOrder, Whole, Flow
      <4>7. CASE g = [q EXCEPT !.gone = "yes"]
        BY <4>6, <4>7 DEF Sound, InOrder, Whole, Flow
      <4>8. QED
        BY <4>1, <4>3, <4>4, <4>5, <4>6, <4>7
    <3>3. QED
      BY <3>1, <3>2
  <2>4. QED
    BY <2>2, <2>3 DEF Advanced, f
<1>2. ASSUME Refuse(v) PROVE Advanced(v, "down")
  <2> DEFINE f == flow[v]["down"]
  <2>1. Sound(f)
    BY DEF FlowInv, Flows
  <2>2. PICK x \in {"yes", "failed"} :
            Set(v, "down", [f EXCEPT !.mark = "reset", !.gone = x])
    BY <1>2 DEF Refuse
  <2> DEFINE g == [f EXCEPT !.mark = "reset", !.gone = x]
  <2> HIDE DEF f
  <2>3. Sound(g) /\ (f.shut => g.shut)
    BY <2>1 DEF Sound, InOrder, Whole, Flow
  <2>4. QED
    BY <2>2, <2>3 DEF Advanced, f
<1>3. QED
  BY <1>1, <1>2

-----------------------------------------------------------------------------
\* A step that advances one flow, and takes a task no further than to an end that was
\* half-closed or is a reset, keeps the flows sound.
LEMMA FlowsKept ==
    ASSUME FlowInv, Typed', NEW v \in Visitors,
           (\E d \in Flows : Advanced(v, d)) \/ UNCHANGED flow,
           \A w \in Visitors : aborted[w] \subseteq aborted'[w],
           \A w \in Visitors, n \in Nodes :
               stage'[w][n] = "over" =>
                   stage[w][n] = "over" \/ n \in aborted'[w] \/ flow[w][In(n)].shut
    PROVE  FlowInv'
<1>1. \A w \in Visitors, d \in Flows :
          Sound(flow'[w][d]) /\ (flow[w][d].shut => flow'[w][d].shut)
  <2>1. CASE UNCHANGED flow
    BY <2>1 DEF FlowInv
  <2>2. ASSUME NEW e \in Flows, Advanced(v, e)
        PROVE  \A w \in Visitors, d \in Flows :
                   Sound(flow'[w][d]) /\ (flow[w][d].shut => flow'[w][d].shut)
    <3>1. PICK f : Set(v, e, f) /\ Sound(f) /\ (flow[v][e].shut => f.shut)
      BY <2>2 DEF Advanced
    <3>2. \A w \in Visitors, d \in Flows :
              flow'[w][d] = IF w = v /\ d = e THEN f ELSE flow[w][d]
      BY <2>2, <3>1 DEF Set, FlowInv, Typed
    <3>3. QED
      BY <3>1, <3>2 DEF FlowInv
  <2>3. QED
    BY <2>1, <2>2
<1>2. EndInv'
  <2> SUFFICES ASSUME NEW w \in Visitors, NEW d \in Flows,
                      stage'[w][Far(d)] = "over", Far(d) \notin aborted'[w]
               PROVE  flow'[w][d].shut
    BY DEF EndInv
  <2>1. Far(d) \in Nodes /\ In(Far(d)) = d
    BY Ends
  <2>2. flow[w][d].shut
    BY <2>1 DEF FlowInv, EndInv
  <2>3. QED
    BY <1>1, <2>2
<1>3. QED
  BY <1>1, <1>2 DEF FlowInv

-----------------------------------------------------------------------------
\* Every step keeps the state well typed.
LEMMA NextTyped == FlowInv /\ [Next]_vars => Typed'
<1> SUFFICES ASSUME FlowInv, [Next]_vars PROVE Typed'
  OBVIOUS
<1>1. Typed
  BY DEF FlowInv
<1> USE DEF Typed, BulkStage, ServerStage, ClientStage, Nodes, Goto, Abort
<1>2. ASSUME NEW v \in Visitors, NEW d \in Flows, Advanced(v, d)
      PROVE  flow' \in [Visitors -> [Flows -> Flow]]
  BY <1>1, <1>2 DEF Advanced, Set, Sound
<1>3. ASSUME Release \/ UNCHANGED <<permits, bulk>>
      PROVE  permits' \in Nat /\ bulk' \in BulkStage
  BY <1>1, <1>3 DEF Release
<1>4. ASSUME NEW v \in Visitors, Accept(v) PROVE Typed'
  <2>1. CASE Bar(v)
    BY <1>1, <2>1 DEF Bar
  <2>2. CASE Admit(v)
    BY <1>1, <2>2 DEF Admit, TryAcquire
  <2>3. CASE TurnAway(v)
    BY <1>1, <2>3 DEF TurnAway
  <2>4. QED
    BY <1>4, <2>1, <2>2, <2>3 DEF Accept
<1>5. ASSUME NEW v \in Visitors, Open(v) PROVE Typed'
  <2>1. CASE OpenStream(v)
    <3>1. PICK l \in {"heading", "pumping"} : Goto(v, "server", l)
      BY <2>1 DEF OpenStream
    <3>2. QED
      BY <1>1, <2>1, <3>1 DEF OpenStream
  <2>2. CASE OpenFails(v)
    BY <1>1, <1>3, <2>2 DEF OpenFails
  <2>3. QED
    BY <1>5, <2>1, <2>2 DEF Open
<1>6. ASSUME NEW v \in Visitors, Serve(v) PROVE Typed'
  <2>1. CASE Refuse(v)
    BY <1>1, <1>2, <2>1, DropAdvances DEF Refuse, Flows
  <2>2. CASE TakeStream(v)
    BY <1>1, <2>2 DEF TakeStream
  <2>3. CASE GiveUp(v)
    BY <1>1, <2>3 DEF GiveUp
  <2>4. CASE Dial(v)
    BY <1>1, <2>4 DEF Dial
  <2>5. QED
    BY <1>6, <2>1, <2>2, <2>3, <2>4 DEF Serve
<1>7. ASSUME NEW v \in Visitors, Depart(v) PROVE Typed'
  <2>1. Still \in Flow
    BY DEF Still, Flow
  <2>2. QED
    BY <1>1, <1>7, <2>1 DEF Depart
<1>8. ASSUME NEW v \in Visitors, NEW n \in Nodes, Pump(v, n) PROVE Typed'
  <2>1. CASE ReadSocket(v, n) \/ WriteStream(v, n) \/ FinishLeaves(v, n)
    <3>1. flow' \in [Visitors -> [Flows -> Flow]]
      BY <1>2, <2>1, PumpAdvances, Ends
    <3>2. QED
      BY <1>1, <2>1, <3>1 DEF ReadSocket, WriteStream, FinishLeaves
  <2>2. CASE ReadStream(v, n) \/ WriteSocket(v, n)
    <3>1. flow' \in [Visitors -> [Flows -> Flow]]
      BY <1>2, <2>2, PumpAdvances, Ends
    <3>2. QED
      BY <1>1, <2>2, <3>1 DEF ReadStream, WriteSocket
  <2>3. CASE DropPump(v, n)
    <3>1. flow' \in [Visitors -> [Flows -> Flow]]
      BY <1>2, <2>3, DropAdvances, Ends
    <3>2. QED
      BY <1>1, <1>3, <2>3, <3>1 DEF DropPump, AbortOnDrop, EndTask
  <2>4. CASE PumpEnds(v, n)
    BY <1>1, <1>3, <2>4 DEF PumpEnds, EndTask
  <2>5. QED
    BY <1>8, <2>1, <2>2, <2>3, <2>4 DEF Pump, PumpFails
<1>9. ASSUME NEW v \in Visitors, NEW n \in Nodes, ExitDrops(v, n) PROVE Typed'
  <2>1. DropPump(v, n)
    BY <1>9 DEF ExitDrops
  <2>2. flow' \in [Visitors -> [Flows -> Flow]]
    BY <1>2, <2>1, DropAdvances, Ends
  <2>3. QED
    BY <1>1, <1>3, <2>1, <2>2 DEF DropPump, AbortOnDrop, EndTask
<1>10. ASSUME NEW v \in Visitors, NEW n \in Nodes, AppResets(v, n) PROVE Typed'
  BY <1>1, <1>10 DEF AppResets
<1>11. ASSUME NEW v \in Visitors, NEW d \in Flows,
              AppWrites(v, d) \/ AppFinishes(v, d) \/ AppReads(v, d)
       PROVE  Typed'
  <2>1. flow' \in [Visitors -> [Flows -> Flow]]
    BY <1>2, <1>11, AppsAdvance
  <2>2. QED
    BY <1>1, <1>11, <2>1 DEF AppWrites, AppFinishes, AppReads
<1>12. ASSUME Bulk PROVE Typed'
  BY <1>1, <1>12
     DEF Bulk, BulkAcquires, BulkOpens, BulkGivesUp, BulkEnds, BulkFinishes, TryAcquire
<1>13. ASSUME Disconnect \/ UNCHANGED vars PROVE Typed'
  BY <1>1, <1>13 DEF Disconnect, vars
<1>14. QED
  BY <1>4, <1>5, <1>6, <1>7, <1>8, <1>9, <1>10, <1>11, <1>12, <1>13 DEF Next

\* A task that goes on, or that ends with its socket reset.
Ending(v, n) ==
    /\ \A w \in Visitors : aborted[w] \subseteq aborted'[w]
    /\ \A w \in Visitors, m \in Nodes : stage'[w][m] = "over" =>
           \/ stage[w][m] = "over" \/ m \in aborted'[w]
           \/ w = v /\ m = n /\ flow[w][In(m)].shut

\* Every step keeps the flows sound.
LEMMA NextFlowInv == FlowInv /\ [Next]_vars => FlowInv'
<1> SUFFICES ASSUME FlowInv, [Next]_vars PROVE FlowInv'
  OBVIOUS
<1>1. Typed /\ Typed'
  BY NextTyped DEF FlowInv
<1>2. /\ stage \in [Visitors -> [Nodes -> ServerStage \cup ClientStage]]
      /\ aborted \in [Visitors -> SUBSET Nodes]
  BY <1>1 DEF Typed
<1> USE DEF Nodes, Goto, Abort
<1>3. ASSUME NEW v \in Visitors, NEW n \in Nodes, Ending(v, n),
             (\E d \in Flows : Advanced(v, d)) \/ UNCHANGED flow
      PROVE  FlowInv'
  BY <1>1, <1>3, FlowsKept DEF Ending
<1>4. ASSUME NEW v \in Visitors, Accept(v) PROVE FlowInv'
  <2>1. Ending(v, "server") /\ UNCHANGED flow
    BY <1>2, <1>4 DEF Accept, Bar, Admit, TurnAway, Ending
  <2>2. QED
    BY <1>3, <2>1
<1>5. ASSUME NEW v \in Visitors, Open(v) PROVE FlowInv'
  <2>1. Ending(v, "server") /\ UNCHANGED flow
    BY <1>2, <1>5 DEF Open, OpenStream, OpenFails, Ending
  <2>2. QED
    BY <1>3, <2>1
<1>6. ASSUME NEW v \in Visitors, Serve(v) PROVE FlowInv'
  <2>1. Ending(v, "client")
    <3>1. PICK l \in {"dialing", "refusing", "pumping", "refused"} : Goto(v, "client", l)
      BY <1>6 DEF Serve, TakeStream, GiveUp, Dial, Refuse
    <3>2. UNCHANGED aborted
      BY <1>6 DEF Serve, TakeStream, GiveUp, Dial, Refuse
    <3>3. QED
      BY <1>2, <3>1, <3>2 DEF Ending
  <2>2. UNCHANGED flow \/ Advanced(v, "down")
    BY <1>6, DropAdvances DEF Serve, TakeStream, GiveUp, Dial
  <2>3. QED
    BY <1>3, <2>1, <2>2 DEF Flows
<1>7. ASSUME NEW v \in Visitors, Depart(v) PROVE FlowInv'
  <2>1. Sound(Still)
    BY DEF Sound, InOrder, Whole, Still, Flow
  <2>2. \A w \in Visitors, d \in Flows : Sound(flow'[w][d])
    BY <1>7, <2>1 DEF Depart, FlowInv, Typed
  <2>3. EndInv'
    BY <1>2, <1>7, Ends DEF Depart, FlowInv, Typed, EndInv
  <2>4. QED
    BY <1>1, <2>2, <2>3 DEF FlowInv
<1>8. ASSUME NEW v \in Visitors, NEW n \in Nodes, DropPump(v, n) PROVE FlowInv'
  <2>1. Ending(v, n)
    BY <1>2, <1>8 DEF DropPump, AbortOnDrop, EndTask, Ending
  <2>2. QED
    BY <1>3, <1>8, <2>1, DropAdvances, Ends
<1>9. ASSUME NEW v \in Visitors, NEW n \in Nodes, Pump(v, n) PROVE FlowInv'
  <2>1. CASE ReadSocket(v, n) \/ WriteStream(v, n) \/ FinishLeaves(v, n)
    <3>1. Ending(v, n)
      BY <2>1 DEF ReadSocket, WriteStream, FinishLeaves, Ending
    <3>2. QED
      BY <1>3, <2>1, <3>1, PumpAdvances, Ends
  <2>2. CASE ReadStream(v, n) \/ WriteSocket(v, n)
    <3>1. Ending(v, n)
      BY <2>2 DEF ReadStream, WriteSocket, Ending
    <3>2. QED
      BY <1>3, <2>2, <3>1, PumpAdvances, Ends
  <2>3. CASE PumpEnds(v, n)
    <3>1. Ending(v, n) /\ UNCHANGED flow
      BY <1>2, <2>3 DEF PumpEnds, EndTask, Ending
    <3>2. QED
      BY <1>3, <3>1
  <2>4. QED
    BY <1>8, <1>9, <2>1, <2>2, <2>3 DEF Pump, PumpFails
<1>10. ASSUME NEW v \in Visitors, NEW n \in Nodes, AppResets(v, n) PROVE FlowInv'
  <2>1. Ending(v, n) /\ UNCHANGED flow
    BY <1>10 DEF AppResets, Ending
  <2>2. QED
    BY <1>3, <2>1
<1>11. ASSUME NEW v \in Visitors, NEW d \in Flows,
              AppWrites(v, d) \/ AppFinishes(v, d) \/ AppReads(v, d)
       PROVE  FlowInv'
  <2>1. Ending(v, "server")
    BY <1>11 DEF AppWrites, AppFinishes, AppReads, Ending
  <2>2. QED
    BY <1>3, <1>11, <2>1, AppsAdvance
<1>12. ASSUME Bulk \/ Disconnect \/ UNCHANGED vars PROVE FlowInv'
  <2>1. UNCHANGED <<stage, aborted, flow>>
    BY <1>12 DEF Bulk, BulkAcquires, BulkOpens, BulkGivesUp, BulkEnds, BulkFinishes,
                 Disconnect, vars
  <2>2. QED
    BY <1>1, <2>1 DEF FlowInv, EndInv
<1>13. QED
  BY <1>4, <1>5, <1>6, <1>7, <1>8, <1>9, <1>10, <1>11, <1>12 DEF Next, ExitDrops

\* No visitor has come yet.
LEMMA InitFlowInv == Init => FlowInv
<1> SUFFICES ASSUME Init PROVE FlowInv
  OBVIOUS
<1>1. Sound(Still)
  BY DEF Sound, InOrder, Whole, Still, Flow
<1>2. Typed
  BY <1>1, TunnelAssumption DEF Init, Typed, BulkStage, ServerStage, ClientStage, Sound
<1>3. \A v \in Visitors, d \in Flows : Sound(flow[v][d])
  BY <1>1 DEF Init
<1>4. EndInv
  BY Ends DEF Init, EndInv
<1>5. QED
  BY <1>2, <1>3, <1>4 DEF FlowInv

\* The flows are sound at every moment.
LEMMA FlowsSound == Spec => []FlowInv
BY InitFlowInv, NextFlowInv, PTL DEF Spec

\* An application that reads the end of its stream has every byte the other one sent,
\* and the other one ended it: no failure of a socket, of an arm of either pump
\* (pump.rs), of the stream or of the connection passes for the end of a transfer.
THEOREM EndsAreClean == Spec => []CleanEndIsWhole
<1>1. FlowInv => CleanEndIsWhole
  BY DEF FlowInv, Sound, Whole, CleanEndIsWhole
<1>2. QED
  BY <1>1, FlowsSound, PTL

-----------------------------------------------------------------------------
\* The holders of permits are as before, and so is what is free or the bulk task's.
LEMMA BudgetKept ==
    ASSUME BudgetInv, Holders' = Holders, UNCHANGED <<permits, bulk>>
    PROVE  BudgetInv'
BY DEF BudgetInv, BudgetExact

\* A task that ends gives its permit to the bulk task, if that waits, or back.
LEMMA HolderLeaves ==
    ASSUME Typed, BudgetInv, NEW v \in Holders, Holders' = Holders \ {v}, Release
    PROVE  BudgetInv'
<1>1. /\ Cardinality(Holders') = Cardinality(Holders) - 1
      /\ IsFiniteSet(Holders') /\ Cardinality(Holders) \in Nat
  BY FS_RemoveElement, FS_CardinalityType DEF BudgetInv
<1>2. QED
  BY <1>1, TunnelAssumption DEF BudgetInv, BudgetExact, Release, Typed

\* Every step keeps the budget.
LEMMA NextBudgetInv == Typed /\ BudgetInv /\ [Next]_vars => BudgetInv'
<1> SUFFICES ASSUME Typed, BudgetInv, [Next]_vars PROVE BudgetInv'
  OBVIOUS
<1>1. stage \in [Visitors -> [Nodes -> ServerStage \cup ClientStage]] /\ permits \in Nat
  BY DEF Typed
<1>2. IsFiniteSet(Holders) /\ Cardinality(Holders) \in Nat
  BY FS_CardinalityType DEF BudgetInv
<1> USE DEF Nodes, Goto, Holders
<1>3. ASSUME NEW v \in Visitors, Accept(v) PROVE BudgetInv'
  <2>1. CASE Bar(v) \/ TurnAway(v)
    <3>1. Holders' = Holders /\ UNCHANGED <<permits, bulk>>
      BY <1>1, <2>1 DEF Bar, TurnAway
    <3>2. QED
      BY <3>1, BudgetKept
  <2>2. CASE Admit(v)
    <3>1. /\ Holders' = Holders \cup {v} /\ v \notin Holders
          /\ permits > 0 /\ permits' = permits - 1 /\ UNCHANGED bulk
      BY <1>1, <2>2 DEF Admit, TryAcquire
    <3> HIDE DEF Holders
    <3>2. Cardinality(Holders') = Cardinality(Holders) + 1 /\ IsFiniteSet(Holders')
      BY <1>2, <3>1, FS_AddElement
    <3>3. QED
      BY <1>1, <1>2, <3>1, <3>2, TunnelAssumption DEF BudgetInv, BudgetExact
  <2>3. QED
    BY <1>3, <2>1, <2>2 DEF Accept
<1>4. ASSUME NEW v \in Visitors, Open(v) PROVE BudgetInv'
  <2>1. CASE OpenStream(v)
    <3>1. Holders' = Holders /\ UNCHANGED <<permits, bulk>>
      BY <1>1, <2>1 DEF OpenStream
    <3>2. QED
      BY <3>1, BudgetKept
  <2>2. CASE OpenFails(v)
    <3>1. v \in Holders /\ Holders' = Holders \ {v} /\ Release
      BY <1>1, <2>2 DEF OpenFails
    <3>2. QED
      BY <3>1, HolderLeaves
  <2>3. QED
    BY <1>4, <2>1, <2>2 DEF Open
<1>5. ASSUME NEW v \in Visitors, Serve(v) PROVE BudgetInv'
  <2>1. PICK l \in {"dialing", "refusing", "pumping", "refused"} : Goto(v, "client", l)
    BY <1>5 DEF Serve, TakeStream, GiveUp, Dial, Refuse
  <2>2. UNCHANGED <<permits, bulk>>
    BY <1>5 DEF Serve, TakeStream, GiveUp, Dial, Refuse
  <2>3. Holders' = Holders
    BY <1>1, <2>1
  <2>4. QED
    BY <2>2, <2>3, BudgetKept
<1>6. ASSUME NEW v \in Visitors, Depart(v) PROVE BudgetInv'
  <2>1. Holders' = Holders /\ UNCHANGED <<permits, bulk>>
    BY <1>1, <1>6 DEF Depart, Settled
  <2>2. QED
    BY <2>1, BudgetKept
<1>7. ASSUME NEW v \in Visitors, NEW n \in Nodes, Pumping(v, n), EndTask(v, n)
      PROVE  BudgetInv'
  <2>1. CASE n = "server"
    <3>1. v \in Holders /\ Holders' = Holders \ {v} /\ Release
      BY <1>1, <1>7, <2>1 DEF Pumping, EndTask
    <3>2. QED
      BY <3>1, HolderLeaves
  <2>2. CASE n = "client"
    <3>1. Holders' = Holders /\ UNCHANGED <<permits, bulk>>
      BY <1>1, <1>7, <2>2 DEF EndTask
    <3>2. QED
      BY <3>1, BudgetKept
  <2>3. QED
    BY <2>1, <2>2
<1>8. ASSUME NEW v \in Visitors, NEW n \in Nodes,
             Pump(v, n) \/ ExitDrops(v, n) \/ AppResets(v, n)
      PROVE  BudgetInv'
  <2>1. CASE UNCHANGED <<stage, permits, bulk>>
    BY <2>1, BudgetKept
  <2>2. CASE Pumping(v, n) /\ EndTask(v, n)
    BY <1>7, <2>2
  <2>3. QED
    BY <1>8, <2>1, <2>2
       DEF Pump, ReadSocket, WriteStream, FinishLeaves, ReadStream, WriteSocket, PumpFails,
           PumpEnds, ExitDrops, DropPump, AppResets
<1>9. ASSUME NEW v \in Visitors, NEW d \in Flows,
             AppWrites(v, d) \/ AppFinishes(v, d) \/ AppReads(v, d)
      PROVE  BudgetInv'
  <2>1. UNCHANGED <<stage, permits, bulk>>
    BY <1>9 DEF AppWrites, AppFinishes, AppReads
  <2>2. QED
    BY <2>1, BudgetKept
<1>10. ASSUME Bulk PROVE BudgetInv'
  <2>1. Holders' = Holders
    BY <1>10 DEF Bulk, BulkAcquires, BulkOpens, BulkGivesUp, BulkEnds, BulkFinishes
  <2> HIDE DEF Holders
  <2>2. QED
    BY <1>1, <1>2, <1>10, <2>1, TunnelAssumption
       DEF BudgetInv, BudgetExact, Bulk, BulkAcquires, BulkOpens, BulkGivesUp, BulkEnds,
           BulkFinishes, TryAcquire
<1>11. ASSUME Disconnect \/ UNCHANGED vars PROVE BudgetInv'
  <2>1. UNCHANGED <<stage, permits, bulk>>
    BY <1>11 DEF Disconnect, vars
  <2>2. QED
    BY <2>1, BudgetKept
<1>12. QED
  BY <1>3, <1>4, <1>5, <1>6, <1>8, <1>9, <1>10, <1>11 DEF Next

\* All permits are free at the start.
LEMMA InitBudgetInv == Init => BudgetInv
<1> SUFFICES ASSUME Init PROVE BudgetInv
  OBVIOUS
<1>1. Holders = {}
  BY DEF Init, Holders, Nodes
<1>2. QED
  BY <1>1, FS_EmptySet, TunnelAssumption DEF Init, BudgetInv, BudgetExact

\* The permits that are out are those of tasks that still run, however a visitor, its
\* pump (server/listener.rs) or the bulk task (server/udp/mod.rs) ends: each permit
\* comes back, and comes back once.
THEOREM BudgetIsExact == Spec => []BudgetExact
<1>1. FlowInv => Typed
  BY DEF FlowInv
<1>2. BudgetInv => BudgetExact
  BY DEF BudgetInv
<1>3. QED
  BY <1>1, <1>2, FlowsSound, InitBudgetInv, NextBudgetInv, PTL DEF Spec

\* The state of the streams is well typed at every moment; in particular the listener
\* and the bulk task never have more permits to give than the session's budget.
THEOREM TunnelTypeCorrect == Spec => []TypeOK
<1>1. FlowInv /\ BudgetInv => TypeOK
  <2> SUFFICES ASSUME FlowInv, BudgetInv PROVE TypeOK
    OBVIOUS
  <2>1. Typed /\ Cardinality(Holders) \in Nat
    BY FS_CardinalityType DEF FlowInv, BudgetInv
  <2>2. permits \in 0..Streams
    BY <2>1, TunnelAssumption DEF BudgetInv, BudgetExact, Typed
  <2>3. QED
    BY <2>1, <2>2 DEF Typed, TypeOK
<1>2. FlowInv => Typed
  BY DEF FlowInv
<1>3. QED
  BY <1>1, <1>2, FlowsSound, InitBudgetInv, NextBudgetInv, PTL DEF Spec
=============================================================================
