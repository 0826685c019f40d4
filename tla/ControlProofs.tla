--------------------------- MODULE ControlProofs ---------------------------
(***************************************************************************)
(* Theorems about the control stream of a session, for any number of       *)
(* services, ids, reloads and sessions: when the stream is quiet its ends  *)
(* agree, and the client's targets are those of the services it holds.     *)
(*                                                                         *)
(* What makes them true is what is on its way.  The client's messages, the *)
(* sent and the unsent, are one queue; a step of the session takes its     *)
(* head, adds to its end, or leaves it alone.  Of each service it is said  *)
(* what the last message in either queue tells (Lasts of QueueLemmas), how *)
(* many binds and answers are outstanding (HowMany), and that a bind in    *)
(* the queue will find its service free.                                   *)
(***************************************************************************)
EXTENDS ControlProtocol, QueueLemmas

\* The client's messages that are on their way or yet to be sent, in order.
Out == toServer \o pending

Asks(s)     == {m \in Asking : m.service = s}
Binds(s)    == {m \in Asking : m.op = "bind" /\ m.service = s}
Tells(s)    == {m \in Answering : m.service = s}
Replies(s)  == {m \in Answering : m.service = s /\ (m.op = "failed" => m.asked)}
\* The last the client asked for a service, and the last it is to hear of it.
Wish(s)     == IF exposed[s] = Absent THEN {Unbind(s)} ELSE {Bind(s, exposed[s])}
Truth(s)    == IF bound[s] = NoId THEN {m \in Tells(s) : m.op = "failed"}
               ELSE {m \in Tells(s) : m.op = "bound" /\ m.id = bound[s]}
Good(s)     == {m \in Replies(s) : m.op = "bound" => given[m.id] = exposed[s]}

\* The count is of the binds to be answered and the answers to be heard, but for the
\* answers that a BindFailed sent unasked was taken for.
CountInv(s) ==
    /\ unanswered[s] <= HowMany(Out, Binds(s)) + HowMany(toClient, Replies(s))
    /\ s \in miscounted \/ unanswered[s] = HowMany(Out, Binds(s)) + HowMany(toClient, Replies(s))

\* The last request for a service is for what it is to be, or there is none and it is so.
AskInv(s) ==
    \/ Lasts(Out, Asks(s), Wish(s))
    \/ /\ Lacks(Out, Asks(s))
       /\ bound[s] # NoId => exposed[s] # Absent /\ given[bound[s]] = exposed[s]

\* A bind finds its service free: an unbind goes before it, with no bind between.
FreeBefore(q, s, b, j) ==
    \/ b = NoId /\ \A i \in DOMAIN q : i < j => q[i] \notin Binds(s)
    \/ \E k \in DOMAIN q : /\ k < j /\ q[k] = Unbind(s)
                           /\ \A i \in DOMAIN q : k < i /\ i < j => q[i] \notin Binds(s)
Free(q, s, b) == \A j \in DOMAIN q : q[j] \in Binds(s) => FreeBefore(q, s, b, j)
Ends(q, s, b) == Lasts(q, Binds(s), {Unbind(s)}) \/ (b = NoId /\ Lacks(q, Binds(s)))

\* With no bind to be answered, the last the client is to hear of a service is how it
\* stands, or it knows; and the last answer to a bind is for the settings it now has.
WordInv(s) ==
    Lacks(Out, Binds(s)) /\ exposed[s] # Absent =>
        \/ s \in lost
        \/ Lasts(toClient, Tells(s), Truth(s))
        \/ /\ Lacks(toClient, Tells(s)) /\ ids[s] = bound[s]
           /\ bound[s] = NoId => s \in failed
GoodInv(s) ==
    Lacks(Out, Binds(s)) /\ exposed[s] # Absent =>
        Lacks(toClient, Replies(s)) \/ Lasts(toClient, Replies(s), Good(s))

HeldInv(s) ==
    /\ exposed[s] = Absent => ids[s] = NoId
    /\ s \in miscounted \/ ids[s] = NoId \/ given[ids[s]] = exposed[s]
    /\ s \in lost => bound[s] = NoId
    /\ bound[s] <= lastId /\ ids[s] <= lastId

\* An id is one service's.
OwnInv ==
    /\ \A s, t \in Services : ids[s] = ids[t] /\ ids[s] # NoId => s = t
    /\ \A i \in DOMAIN toClient : toClient[i].op = "bound" =>
          /\ toClient[i].id <= lastId
          /\ \A s \in Services : ids[s] = toClient[i].id => s = toClient[i].service
          /\ \A j \in DOMAIN toClient :
                toClient[j].op = "bound" /\ toClient[i].id = toClient[j].id =>
                    toClient[i].service = toClient[j].service

TargetInv == \A i \in 1..MaxId : targets[i] # Absent <=> \E s \in Services : ids[s] = i

ServiceInv(s) == /\ CountInv(s) /\ AskInv(s) /\ Free(Out, s, bound[s])
                 /\ WordInv(s) /\ GoodInv(s) /\ HeldInv(s)
UpInv == link = "up" => OwnInv /\ TargetInv /\ \A s \in Services : ServiceInv(s)

\* A session starts from nothing.
FreshInv ==
    /\ link # "up" => /\ toServer = <<>> /\ toClient = <<>> /\ bound = NoIds
                      /\ lastId = 0 /\ lost = {}
    /\ link = "greeting" => /\ pending = <<>> /\ ids = NoIds /\ failed = {} /\ miscounted = {}
                            /\ unanswered = [s \in Services |-> IF exposed[s] # Absent THEN 1 ELSE 0]

ControlInv == TypeOK /\ FreshInv /\ UpInv /\ (link # "down" /\ ~unread => exposed = wanted)

-----------------------------------------------------------------------------
\* A finite set in order: each of its elements, once.
LEMMA InOrderIs ==
    ASSUME NEW S, IsFiniteSet(S)
    PROVE  /\ InOrder(S) \in Seq(S)
           /\ \A i, j \in DOMAIN InOrder(S) : InOrder(S)[i] = InOrder(S)[j] => i = j
           /\ \A s \in S : \E i \in DOMAIN InOrder(S) : InOrder(S)[i] = s
<1>1. PICK n : n = Cardinality(S)
  OBVIOUS
<1>2. n \in Nat /\ ExistsBijection(1..n, S)
  BY <1>1, FS_CardinalityType
<1>3. PICK g : g \in Bijection(1..n, S)
  BY <1>2 DEF ExistsBijection
<1>4. g \in [1..n -> S] /\ IsInjective(g)
  BY <1>3 DEF Bijection, Injection, IsInjective
<1>5. PICK f : f = InOrder(S)
  OBVIOUS
<1>6. f = CHOOSE h \in [1..n -> S] : IsInjective(h)
  BY <1>1, <1>5 DEF InOrder, SetToSeq
<1>7. f \in [1..n -> S] /\ IsInjective(f)
  BY <1>4, <1>6
<1>8. f \in Injection(1..n, S)
  BY <1>7 DEF Injection
<1>9. Cardinality(1..n) = Cardinality(S)
  BY <1>1, <1>2, FS_Interval
<1>10. f \in Surjection(1..n, S)
  BY <1>8, <1>9, FS_Injection
<1>11. \A s \in S : \E i \in 1..n : f[i] = s
  BY <1>10 DEF Surjection
<1>12. f \in Seq(S) /\ DOMAIN f = 1..n
  BY <1>2, <1>7
<1> QED
  BY <1>5, <1>7, <1>11, <1>12 DEF IsInjective

\* A bind for each service of a set, and an unbind for each.
BindAll(S, e) == [i \in 1..Len(InOrder(S)) |-> Bind(InOrder(S)[i], e[InOrder(S)[i]])]
UnbindAll(S) == [i \in 1..Len(InOrder(S)) |-> Unbind(InOrder(S)[i])]

\* What is in a bind and in an unbind.
LEMMA MessagesIs ==
    ASSUME NEW s \in Services, NEW e \in Settings
    PROVE  /\ Bind(s, e) \in Asking /\ Unbind(s) \in Asking
           /\ Bind(s, e).service = s /\ Unbind(s).service = s
           /\ Bind(s, e).op = "bind" /\ Unbind(s).op = "unbind" /\ Bind(s, e).settings = e
BY DEF Bind, Unbind, Asking

\* One bind for each service of a set, and no other message.
LEMMA BindAllIs ==
    ASSUME NEW S \in SUBSET Services, IsFiniteSet(S), NEW e, \A s \in S : e[s] \in Settings
    PROVE  /\ BindAll(S, e) \in Seq(Asking)
           /\ \A s \in Services \ S : Lacks(BindAll(S, e), Asks(s))
           /\ \A s \in S : \E i \in DOMAIN BindAll(S, e) :
                 /\ BindAll(S, e)[i] = Bind(s, e[s])
                 /\ \A j \in DOMAIN BindAll(S, e) : j # i => BindAll(S, e)[j] \notin Asks(s)
<1>1. PICK o : o = InOrder(S)
  OBVIOUS
<1>2. /\ o \in Seq(S)
      /\ \A i, j \in DOMAIN o : o[i] = o[j] => i = j
      /\ \A s \in S : \E i \in DOMAIN o : o[i] = s
  BY <1>1, InOrderIs
<1>3. PICK n : n = Len(o)
  OBVIOUS
<1>4. n \in Nat /\ DOMAIN o = 1..n /\ \A i \in 1..n : o[i] \in S
  BY <1>2, <1>3
<1>5. PICK b : b = BindAll(S, e)
  OBVIOUS
<1>6. b = [i \in 1..n |-> Bind(o[i], e[o[i]])]
  BY <1>1, <1>3, <1>5 DEF BindAll
<1>7. DOMAIN b = 1..n /\ \A i \in 1..n : b[i] = Bind(o[i], e[o[i]]) /\ b[i] \in Asking
                                          /\ b[i].service = o[i]
  BY <1>4, <1>6, MessagesIs
<1>8. b \in Seq(Asking)
  BY <1>4, <1>6, <1>7
<1>9. ASSUME NEW s \in Services \ S PROVE Lacks(b, Asks(s))
  BY <1>4, <1>7 DEF Lacks, Asks
<1>10. ASSUME NEW s \in S
       PROVE  \E i \in DOMAIN b : /\ b[i] = Bind(s, e[s])
                                  /\ \A j \in DOMAIN b : j # i => b[j] \notin Asks(s)
  <2>1. PICK i \in DOMAIN o : o[i] = s
    BY <1>2
  <2>2. ASSUME NEW j \in DOMAIN b, j # i PROVE b[j] \notin Asks(s)
    BY <1>2, <1>4, <1>7, <2>1, <2>2 DEF Asks
  <2> QED
    BY <1>4, <1>7, <2>1, <2>2
<1> QED
  BY <1>5, <1>8, <1>9, <1>10

\* One unbind for each service of a set, and no other message.
LEMMA UnbindAllIs ==
    ASSUME NEW S \in SUBSET Services, IsFiniteSet(S)
    PROVE  /\ UnbindAll(S) \in Seq(Asking)
           /\ \A s \in Services \ S : Lacks(UnbindAll(S), Asks(s))
           /\ \A s \in Services : Lacks(UnbindAll(S), Binds(s))
           /\ \A s \in S : \E i \in DOMAIN UnbindAll(S) :
                 /\ UnbindAll(S)[i] = Unbind(s)
                 /\ \A j \in DOMAIN UnbindAll(S) : j # i => UnbindAll(S)[j] \notin Asks(s)
<1>1. PICK o : o = InOrder(S)
  OBVIOUS
<1>2. /\ o \in Seq(S)
      /\ \A i, j \in DOMAIN o : o[i] = o[j] => i = j
      /\ \A s \in S : \E i \in DOMAIN o : o[i] = s
  BY <1>1, InOrderIs
<1>3. PICK n : n = Len(o)
  OBVIOUS
<1>4. n \in Nat /\ DOMAIN o = 1..n /\ \A i \in 1..n : o[i] \in S
  BY <1>2, <1>3
<1>5. PICK b : b = UnbindAll(S)
  OBVIOUS
<1>6. b = [i \in 1..n |-> Unbind(o[i])]
  BY <1>1, <1>3, <1>5 DEF UnbindAll
<1>7. DOMAIN b = 1..n /\ \A i \in 1..n : b[i] = Unbind(o[i]) /\ b[i] \in Asking
                                          /\ b[i].service = o[i] /\ b[i].op = "unbind"
  BY <1>4, <1>6 DEF Unbind, Asking
<1>8. b \in Seq(Asking)
  BY <1>4, <1>6, <1>7
<1>9. ASSUME NEW s \in Services \ S PROVE Lacks(b, Asks(s))
  BY <1>4, <1>7 DEF Lacks, Asks
<1>10. ASSUME NEW s \in Services PROVE Lacks(b, Binds(s))
  BY <1>4, <1>7 DEF Lacks, Binds
<1>11. ASSUME NEW s \in S
       PROVE  \E i \in DOMAIN b : /\ b[i] = Unbind(s)
                                  /\ \A j \in DOMAIN b : j # i => b[j] \notin Asks(s)
  <2>1. PICK i \in DOMAIN o : o[i] = s
    BY <1>2
  <2>2. ASSUME NEW j \in DOMAIN b, j # i PROVE b[j] \notin Asks(s)
    BY <1>2, <1>4, <1>7, <2>1, <2>2 DEF Asks
  <2> QED
    BY <1>4, <1>7, <2>1, <2>2
<1> QED
  BY <1>5, <1>8, <1>9, <1>10, <1>11

-----------------------------------------------------------------------------
\* The head is taken, and c is what the service is bound under then.
LEMMA FreeTail ==
    ASSUME NEW s \in Services, NEW q \in Seq(Asking), q # <<>>, NEW b, NEW c, Free(q, s, b),
           Head(q) = Unbind(s) => c = NoId,
           Head(q) \notin Asks(s) => (b = NoId => c = NoId)
    PROVE  Free(Tail(q), s, c)
<1>1. PICK t : t = Tail(q)
  OBVIOUS
<1>2. PICK n : n = Len(q)
  OBVIOUS
<1>3. /\ Head(q) = q[1] /\ n \in Nat /\ n >= 1 /\ q[1] \in Asking
      /\ DOMAIN q = 1..n /\ DOMAIN t = 1..(n - 1)
      /\ \A i \in 1..(n - 1) : t[i] = q[i + 1]
  BY <1>1, <1>2, TailIs
<1>4. q[1] \in Binds(s) \/ q[1] = Unbind(s) \/ q[1] \notin Asks(s)
  BY <1>3 DEF Binds, Asks, Unbind, Asking
<1>5. Unbind(s) \notin Binds(s)
  BY DEF Unbind, Binds
<1> SUFFICES ASSUME NEW j \in 1..(n - 1), t[j] \in Binds(s) PROVE FreeBefore(t, s, c, j)
  BY <1>1, <1>3 DEF Free
<1>6. j + 1 \in DOMAIN q /\ q[j + 1] \in Binds(s)
  BY <1>3
<1>7. FreeBefore(q, s, b, j + 1)
  BY <1>6 DEF Free
<1>8. CASE \E k \in DOMAIN q : /\ k < j + 1 /\ q[k] = Unbind(s) /\ k # 1
                               /\ \A i \in DOMAIN q : k < i /\ i < j + 1 => q[i] \notin Binds(s)
  <2>1. PICK k \in DOMAIN q : /\ k < j + 1 /\ q[k] = Unbind(s) /\ k # 1
                              /\ \A i \in DOMAIN q : k < i /\ i < j + 1 => q[i] \notin Binds(s)
    BY <1>8
  <2>2. PICK l : l = k - 1
    OBVIOUS
  <2>3. l \in DOMAIN t /\ l < j /\ l \in 1..(n - 1) /\ l + 1 = k
    BY <1>3, <2>1, <2>2
  <2>4. t[l] = Unbind(s)
    BY <1>3, <2>1, <2>3
  <2>5. ASSUME NEW i \in DOMAIN t, l < i, i < j PROVE t[i] \notin Binds(s)
    <3>1. i + 1 \in DOMAIN q /\ k < i + 1 /\ i + 1 < j + 1 /\ t[i] = q[i + 1]
      BY <1>3, <2>3, <2>5
    <3> QED
      BY <2>1, <3>1
  <2> QED
    BY <2>3, <2>4, <2>5 DEF FreeBefore
<1>9. CASE q[1] \notin Binds(s) /\ c = NoId /\
           \A i \in DOMAIN q : 1 < i /\ i < j + 1 => q[i] \notin Binds(s)
  <2>1. ASSUME NEW i \in DOMAIN t, i < j PROVE t[i] \notin Binds(s)
    <3>1. i + 1 \in DOMAIN q /\ 1 < i + 1 /\ i + 1 < j + 1 /\ t[i] = q[i + 1]
      BY <1>3, <2>1
    <3> QED
      BY <1>9, <3>1
  <2> QED
    BY <1>9, <2>1 DEF FreeBefore
<1>10. CASE b = NoId /\ \A i \in DOMAIN q : i < j + 1 => q[i] \notin Binds(s)
  <2>1. 1 \in DOMAIN q /\ 1 < j + 1
    BY <1>3
  <2>2. q[1] \notin Binds(s)
    BY <1>10, <2>1
  <2>3. c = NoId
    BY <1>3, <1>4, <1>10, <2>2
  <2> QED
    BY <1>9, <1>10, <2>2, <2>3
<1>11. CASE q[1] = Unbind(s) /\ \A i \in DOMAIN q : 1 < i /\ i < j + 1 => q[i] \notin Binds(s)
  BY <1>3, <1>5, <1>9, <1>11
<1> QED
  BY <1>7, <1>8, <1>10, <1>11 DEF FreeBefore

\* A bind that the server reads finds its service free.
LEMMA FreeHead ==
    ASSUME NEW s \in Services, NEW q \in Seq(Asking), q # <<>>, NEW b, Free(q, s, b),
           Head(q) \in Binds(s)
    PROVE  b = NoId
<1>1. PICK n : n = Len(q)
  OBVIOUS
<1>2. Head(q) = q[1] /\ n \in Nat /\ DOMAIN q = 1..n /\ 1 \in DOMAIN q
  BY <1>1, TailIs
<1>3. FreeBefore(q, s, b, 1)
  BY <1>2 DEF Free
<1>4. \A k \in DOMAIN q : ~(k < 1)
  BY <1>2
<1> QED
  BY <1>3, <1>4 DEF FreeBefore

\* A service that is free suits every bind that a bound one suits.
LEMMA FreeStays ==
    ASSUME NEW s, NEW q, NEW b, Free(q, s, b)
    PROVE  Free(q, s, NoId)
BY DEF Free, FreeBefore

\* Binds are added, one for a service at most, and only for one that is free in the end.
LEMMA FreeMore ==
    ASSUME NEW s \in Services, NEW q \in Seq(Asking), NEW r \in Seq(Asking), NEW b, Free(q, s, b),
           \A i \in DOMAIN r : r[i] \in Binds(s) =>
               Ends(q, s, b) /\ \A j \in DOMAIN r : j # i => r[j] \notin Binds(s)
    PROVE  Free(q \o r, s, b)
<1>1. PICK c : c = q \o r
  OBVIOUS
<1>2. PICK n, m : n = Len(q) /\ m = Len(r)
  OBVIOUS
<1>3. /\ n \in Nat /\ m \in Nat /\ DOMAIN q = 1..n /\ DOMAIN r = 1..m /\ DOMAIN c = 1..(n + m)
      /\ \A i \in 1..n : c[i] = q[i]
      /\ \A i \in 1..m : c[n + i] = r[i]
  BY <1>1, <1>2, ConcatIs
<1> SUFFICES ASSUME NEW j \in DOMAIN c, c[j] \in Binds(s) PROVE FreeBefore(c, s, b, j)
  BY <1>1 DEF Free
<1>4. CASE j <= n
  <2>1. j \in DOMAIN q /\ q[j] \in Binds(s)
    BY <1>3, <1>4
  <2>2. FreeBefore(q, s, b, j)
    BY <2>1 DEF Free
  <2>3. \A i \in DOMAIN c : i < j => i \in DOMAIN q /\ c[i] = q[i]
    BY <1>3, <1>4
  <2>4. CASE b = NoId /\ \A i \in DOMAIN q : i < j => q[i] \notin Binds(s)
    BY <2>3, <2>4 DEF FreeBefore
  <2>5. CASE \E k \in DOMAIN q : /\ k < j /\ q[k] = Unbind(s)
                                 /\ \A i \in DOMAIN q : k < i /\ i < j => q[i] \notin Binds(s)
    <3>1. PICK k \in DOMAIN q : /\ k < j /\ q[k] = Unbind(s)
                                /\ \A i \in DOMAIN q : k < i /\ i < j => q[i] \notin Binds(s)
      BY <2>5
    <3>2. k \in DOMAIN c /\ c[k] = Unbind(s)
      BY <1>3, <3>1
    <3>3. \A i \in DOMAIN c : k < i /\ i < j => c[i] \notin Binds(s)
      BY <2>3, <3>1
    <3> QED
      BY <3>1, <3>2, <3>3 DEF FreeBefore
  <2> QED
    BY <2>2, <2>4, <2>5 DEF FreeBefore
<1>5. CASE j > n
  <2>1. PICK l \in DOMAIN r : j = n + l
    <3>1. j - n \in DOMAIN r /\ j = n + (j - n)
      BY <1>3, <1>5
    <3> QED
      BY <3>1
  <2>2. r[l] \in Binds(s)
    BY <1>3, <2>1
  <2>3. Ends(q, s, b) /\ \A i \in DOMAIN r : i # l => r[i] \notin Binds(s)
    BY <2>2
  <2>4. ASSUME NEW i \in DOMAIN c, i > n, i < j PROVE c[i] \notin Binds(s)
    <3>1. i - n \in DOMAIN r /\ i - n # l /\ i = n + (i - n)
      BY <1>3, <2>1, <2>4
    <3>2. c[i] = r[i - n]
      BY <1>3, <3>1
    <3> QED
      BY <2>3, <3>1, <3>2
  <2>5. CASE b = NoId /\ Lacks(q, Binds(s))
    <3>1. ASSUME NEW i \in DOMAIN c, i < j PROVE c[i] \notin Binds(s)
      <4>1. CASE i <= n
        BY <1>3, <2>5, <4>1 DEF Lacks
      <4>2. CASE i > n
        BY <2>4, <3>1, <4>2
      <4> QED
        BY <1>3, <4>1, <4>2
    <3> QED
      BY <2>5, <3>1 DEF FreeBefore
  <2>6. CASE Lasts(q, Binds(s), {Unbind(s)})
    <3>1. PICK k \in DOMAIN q : q[k] = Unbind(s) /\ \A i \in DOMAIN q : i > k => q[i] \notin Binds(s)
      BY <2>6 DEF Lasts
    <3>2. k \in DOMAIN c /\ c[k] = Unbind(s) /\ k < j
      BY <1>3, <1>5, <3>1
    <3>3. ASSUME NEW i \in DOMAIN c, k < i, i < j PROVE c[i] \notin Binds(s)
      <4>1. CASE i <= n
        BY <1>3, <3>1, <3>3, <4>1
      <4>2. CASE i > n
        BY <2>4, <3>3, <4>2
      <4> QED
        BY <1>3, <4>1, <4>2
    <3> QED
      BY <3>2, <3>3 DEF FreeBefore
  <2> QED
    BY <2>3, <2>5, <2>6 DEF Ends
<1> QED
  BY <1>3, <1>4, <1>5

-----------------------------------------------------------------------------
(* Types. *)
LEMMA OutType == TypeOK => Out \in Seq(Asking)
BY ConcatProperties DEF TypeOK, Out

\* A service that a config lists has settings.
LEMMA ExposeType ==
    ASSUME NEW e \in Expose, NEW s \in Listed(e)
    PROVE  s \in Services /\ e[s] \in Settings
BY DEF Expose, Listed

\* What a config lists is finite, so it can be put in order.
LEMMA ListedFinite ==
    ASSUME NEW S \in SUBSET Services
    PROVE  IsFiniteSet(S)
BY ProtocolAssumption, FS_Subset

\* What the client sends for a service when it sends a bind for each of a set.
LEMMA BindAllFor ==
    ASSUME NEW S \in SUBSET Services, NEW e, \A r \in S : e[r] \in Settings,
           NEW b, b = BindAll(S, e), NEW s \in S
    PROVE  /\ Lasts(b, Asks(s), {Bind(s, e[s])}) /\ HowMany(b, Binds(s)) = 1
           /\ ~Lacks(b, Binds(s))
           /\ \A i, j \in DOMAIN b : b[i] \in Binds(s) /\ j # i => b[j] \notin Binds(s)
<1>1. IsFiniteSet(S) /\ s \in Services /\ e[s] \in Settings
  BY ListedFinite
<1>2. /\ b \in Seq(Asking)
      /\ \E i \in DOMAIN b : b[i] = Bind(s, e[s]) /\ \A j \in DOMAIN b : j # i => b[j] \notin Asks(s)
  BY <1>1, BindAllIs
<1>3. PICK i \in DOMAIN b : b[i] = Bind(s, e[s]) /\ \A j \in DOMAIN b : j # i => b[j] \notin Asks(s)
  BY <1>2
<1>4. Bind(s, e[s]) \in Binds(s)
  BY <1>1, MessagesIs DEF Binds
<1>5. DOMAIN b = 1..Len(b)
  BY <1>2
<1>6. \A j \in DOMAIN b : (j > i => j # i) /\ (b[j] \notin Asks(s) => b[j] \notin Binds(s))
  BY <1>5 DEF Asks, Binds
<1>7. Lasts(b, Asks(s), {Bind(s, e[s])})
  BY <1>3, <1>6 DEF Lasts
<1>8. HowMany(b, Binds(s)) = 1
  BY <1>3, <1>4, <1>6, HowManyOne
<1> QED
  BY <1>3, <1>4, <1>6, <1>7, <1>8 DEF Lacks

\* Services outside the set are sent nothing, ...
LEMMA BindAllOthers ==
    ASSUME NEW S \in SUBSET Services, NEW e, \A r \in S : e[r] \in Settings,
           NEW b, b = BindAll(S, e), NEW s \in Services, s \notin S
    PROVE  Lacks(b, Asks(s)) /\ Lacks(b, Binds(s)) /\ HowMany(b, Binds(s)) = 0
<1>1. IsFiniteSet(S)
  BY ListedFinite
<1>2. b \in Seq(Asking) /\ Lacks(b, Asks(s))
  BY <1>1, BindAllIs
<1>3. Lacks(b, Binds(s))
  BY <1>2 DEF Lacks, Asks, Binds
<1> QED
  BY <1>2, <1>3, HowManyNone

\* ... and an unbind for each of a set is the last word on those, and no bind.
LEMMA UnbindAllFor ==
    ASSUME NEW S \in SUBSET Services, NEW u, u = UnbindAll(S), NEW s \in Services
    PROVE  /\ Lacks(u, Binds(s))
           /\ s \notin S => Lacks(u, Asks(s))
           /\ s \in S => Lasts(u, Asks(s), {Unbind(s)})
<1>1. IsFiniteSet(S)
  BY ListedFinite
<1>2. u \in Seq(Asking) /\ Lacks(u, Binds(s)) /\ (s \notin S => Lacks(u, Asks(s)))
  BY <1>1, UnbindAllIs
<1>3. ASSUME s \in S PROVE Lasts(u, Asks(s), {Unbind(s)})
  <2>1. \E i \in DOMAIN u : u[i] = Unbind(s) /\ \A j \in DOMAIN u : j # i => u[j] \notin Asks(s)
    BY <1>1, <1>3, UnbindAllIs
  <2>2. PICK i \in DOMAIN u : u[i] = Unbind(s) /\ \A j \in DOMAIN u : j # i => u[j] \notin Asks(s)
    BY <2>1
  <2>3. DOMAIN u = 1..Len(u)
    BY <1>2
  <2>4. \A j \in DOMAIN u : j > i => j # i
    BY <2>3
  <2> QED
    BY <2>2, <2>4 DEF Lasts
<1> QED
  BY <1>2, <1>3

\* The two answers.
LEMMA AnswerKinds ==
    ASSUME NEW m \in Answering
    PROVE  /\ m.service \in Services
           /\ \/ m.op = "bound" /\ m = [op |-> "bound", service |-> m.service, id |-> m.id]
                 /\ m.id \in 1..MaxId
              \/ m.op = "failed" /\ m = [op |-> "failed", service |-> m.service, asked |-> m.asked]
                 /\ m.asked \in BOOLEAN
BY DEF Answering

\* The two requests.
LEMMA RequestKinds ==
    ASSUME NEW m \in Asking
    PROVE  /\ m.service \in Services
           /\ \/ m.op = "bind" /\ m = Bind(m.service, m.settings) /\ m.settings \in Settings
              \/ m.op = "unbind" /\ m = Unbind(m.service)
BY DEF Asking, Bind, Unbind

\* The messages a reload of the client leaves.
Gone == Rebind(wanted).unbinds
Wants == Rebind(wanted).binds

\* What a reload of the client unbinds and binds (rebind, client/mod.rs).
LEMMA RebindIs ==
    /\ Gone = {s \in Listed(exposed) : s \in failed \/ exposed[s] # wanted[s]}
    /\ Wants = {s \in Listed(wanted) : s \in failed \/ exposed[s] # wanted[s]}
    /\ Gone \in SUBSET Services /\ Wants \in SUBSET Services
BY DEF Gone, Wants, Rebind, Listed

\* What it adds to what is to be sent, ...
LEMMA ReexposeIs ==
    ASSUME TypeOK, Reexpose
    PROVE  /\ pending' = (pending \o UnbindAll(Gone)) \o BindAll(Wants, wanted)
           /\ UnbindAll(Gone) \in Seq(Asking) /\ BindAll(Wants, wanted) \in Seq(Asking)
<1>1. pending' = (pending \o UnbindAll(Gone)) \o BindAll(Wants, wanted)
  BY DEF Reexpose, Gone, Wants, UnbindAll, BindAll
<1>2. UnbindAll(Gone) \in Seq(Asking)
  BY RebindIs, ListedFinite, UnbindAllIs
<1>3. \A s \in Wants : wanted[s] \in Settings
  BY RebindIs, ExposeType DEF TypeOK
<1>4. BindAll(Wants, wanted) \in Seq(Asking)
  BY <1>3, RebindIs, ListedFinite, BindAllIs
<1> QED
  BY <1>1, <1>2, <1>4

\* ... and what the welcome is followed by.
LEMMA WelcomedIs ==
    ASSUME TypeOK, Welcomed
    PROVE  /\ toServer' = BindAll(Listed(exposed), exposed)
           /\ toServer' \in Seq(Asking) /\ Listed(exposed) \in SUBSET Services
           /\ IsFiniteSet(Listed(exposed)) /\ \A s \in Listed(exposed) : exposed[s] \in Settings
<1>1. toServer' = BindAll(Listed(exposed), exposed)
  BY DEF Welcomed, BindAll
<1>2. Listed(exposed) \in SUBSET Services /\ \A s \in Listed(exposed) : exposed[s] \in Settings
  BY ExposeType DEF TypeOK, Listed
<1>3. IsFiniteSet(Listed(exposed))
  BY <1>2, ListedFinite
<1>4. BindAll(Listed(exposed), exposed) \in Seq(Asking)
  BY <1>2, <1>3, BindAllIs
<1> QED
  BY <1>1, <1>2, <1>3, <1>4

\* Every step keeps the types.
LEMMA ControlTypes == TypeOK /\ [Next]_vars => TypeOK'
<1> SUFFICES ASSUME TypeOK, [Next]_vars PROVE TypeOK'
  OBVIOUS
<1>1. CASE Dial
  <2>1. ids' \in [Services -> 0..MaxId] /\ unanswered' \in [Services -> Nat]
    BY <1>1, ProtocolAssumption DEF Dial, NoIds, NoId
  <2>2. started' \in 0..MaxSessions /\ pending' \in Seq(Asking)
    BY <1>1, ProtocolAssumption DEF Dial, TypeOK
  <2> QED
    BY <1>1, <2>1, <2>2 DEF Dial, TypeOK, config, policyVars
<1>2. CASE Welcomed
  BY <1>2, WelcomedIs DEF Welcomed, TypeOK, NoTargets, config, policyVars, serverVars
<1>3. CASE Reexpose
  <2>1. pending' \in Seq(Asking)
    <3>1. PICK u, b : u = UnbindAll(Gone) /\ b = BindAll(Wants, wanted)
      OBVIOUS
    <3>2. pending' = (pending \o u) \o b /\ u \in Seq(Asking) /\ b \in Seq(Asking)
      BY <1>3, <3>1, ReexposeIs
    <3>3. pending \o u \in Seq(Asking)
      BY <3>2, ConcatProperties DEF TypeOK
    <3> QED
      BY <3>2, <3>3, ConcatProperties
  <2>2. targets' \in [1..MaxId -> Settings \cup {Absent}]
    BY <1>3 DEF Reexpose, Forget, TypeOK
  <2>3. ids' \in [Services -> 0..MaxId]
    BY <1>3, ProtocolAssumption DEF Reexpose, TypeOK, NoId
  <2>4. unanswered' \in [Services -> Nat]
    <3>1. unanswered' = [s \in Services |-> unanswered[s] + IF s \in Wants THEN 1 ELSE 0]
      BY <1>3 DEF Reexpose, Wants
    <3>2. unanswered \in [Services -> Nat]
      BY DEF TypeOK
    <3> QED
      BY <3>1, <3>2
  <2> QED
    BY <1>3, <2>1, <2>2, <2>3, <2>4 DEF Reexpose, TypeOK, config, policyVars, serverVars
<1>4. CASE ClientSends
  <2>1. pending' \in Seq(Asking) /\ toServer' \in Seq(Asking)
    BY <1>4, TailIs, AppendIs DEF ClientSends, TypeOK
  <2> QED
    BY <1>4, <2>1 DEF ClientSends, TypeOK, config, policyVars, serverVars
<1>5. CASE ClientHears
  <2>1. PICK m : m = Head(toClient)
    OBVIOUS
  <2>2. m \in Answering /\ toClient' \in Seq(Answering)
    BY <1>5, <2>1, TailIs DEF ClientHears, TypeOK
  <2>3. m.service \in Services /\ (m.op = "bound" => m.id \in 1..MaxId)
    BY <2>2, AnswerKinds
  <2>4. HearBound(m) \/ HearFailed(m)
    BY <1>5, <2>1 DEF ClientHears
  <2>5. unanswered' \in [Services -> Nat]
    <3>1. Count(m.service)
      BY <2>4 DEF HearBound, HearFailed
    <3>2. unanswered \in [Services -> Nat]
      BY DEF TypeOK
    <3>3. PICK n \in Nat : unanswered' = [unanswered EXCEPT ![m.service] = n]
      <4>1. unanswered[m.service] \in Nat
        BY <2>3, <3>2
      <4>2. (IF unanswered[m.service] = 0 THEN 0 ELSE unanswered[m.service] - 1) \in Nat
        BY <4>1
      <4> QED
        BY <2>3, <3>1, <3>2, <4>2 DEF Count
    <3> QED
      BY <3>2, <3>3
  <2>6. Forget({m.service}) \in [1..MaxId -> Settings \cup {Absent}]
    BY DEF Forget, TypeOK
  <2>7. CASE HearBound(m)
    <3>1. CASE Answered(m.service) /\ exposed[m.service] # Absent
      <4>1. exposed[m.service] \in Settings
        BY <2>3, <3>1 DEF TypeOK, Expose
      <4>2. /\ ids' \in [Services -> 0..MaxId] /\ failed' \in SUBSET Services
            /\ targets' \in [1..MaxId -> Settings \cup {Absent}]
        <5>1. PICK x : x = Forget({m.service})
          OBVIOUS
        <5>2. /\ failed' = failed \ {m.service} /\ ids' = [ids EXCEPT ![m.service] = m.id]
              /\ targets' = [x EXCEPT ![m.id] = exposed[m.service]]
          BY <2>7, <3>1, <5>1 DEF HearBound
        <5>3. m.id \in 1..MaxId /\ m.id \in 0..MaxId
          BY <2>3, <2>7, ProtocolAssumption DEF HearBound
        <5>4. targets' \in [1..MaxId -> Settings \cup {Absent}]
          BY <2>6, <4>1, <5>1, <5>2
        <5>5. ids' \in [Services -> 0..MaxId]
          BY <5>2, <5>3 DEF TypeOK
        <5>6. failed' \in SUBSET Services
          BY <5>2 DEF TypeOK
        <5> QED
          BY <5>4, <5>5, <5>6
      <4> QED
        BY <1>5, <2>2, <2>5, <2>7, <4>2
        DEF ClientHears, HearBound, TypeOK, config, policyVars, serverVars
    <3>2. CASE ~(Answered(m.service) /\ exposed[m.service] # Absent)
      BY <1>5, <2>2, <2>5, <2>7, <3>2
      DEF ClientHears, HearBound, TypeOK, config, policyVars, serverVars
    <3> QED
      BY <3>1, <3>2
  <2>8. CASE HearFailed(m)
    <3>1. /\ ids' \in [Services -> 0..MaxId] /\ failed' \in SUBSET Services
          /\ targets' \in [1..MaxId -> Settings \cup {Absent}] /\ miscounted' \in SUBSET Services
      <4>1. miscounted' \in SUBSET Services
        BY <2>3, <2>8 DEF HearFailed, TypeOK
      <4>2. CASE Answered(m.service)
        <5>1. /\ targets' = Forget({m.service}) /\ ids' = [ids EXCEPT ![m.service] = NoId]
              /\ failed' = failed \cup {m.service}
          BY <2>8, <4>2 DEF HearFailed
        <5>2. NoId \in 0..MaxId
          BY ProtocolAssumption DEF NoId
        <5>3. ids' \in [Services -> 0..MaxId]
          BY <5>1, <5>2 DEF TypeOK
        <5>4. failed' \in SUBSET Services
          BY <2>3, <5>1 DEF TypeOK
        <5> QED
          BY <2>6, <4>1, <5>1, <5>3, <5>4
      <4>3. CASE ~Answered(m.service)
        BY <2>8, <4>1, <4>3 DEF HearFailed, TypeOK
      <4> QED
        BY <4>2, <4>3
    <3> QED
      BY <1>5, <2>2, <2>5, <2>8, <3>1 DEF ClientHears, TypeOK, config, policyVars, serverVars
  <2> QED
    BY <2>4, <2>7, <2>8
<1>6. CASE ServerHears
  <2>1. PICK m : m = Head(toServer)
    OBVIOUS
  <2>2. m \in Asking /\ toServer' \in Seq(Asking)
    BY <1>6, <2>1, TailIs DEF ServerHears, CanRead, TypeOK
  <2>3. m.service \in Services /\ (m.op = "bind" => m.settings \in Settings)
    BY <2>2, RequestKinds
  <2>4. /\ toClient' \in Seq(Answering) /\ bound' \in [Services -> 0..MaxId]
        /\ given' \in [1..MaxId -> Settings \cup {Absent}] /\ lastId' \in 0..MaxId
    <3>1. CASE ServerUnbinds(m)
      BY <2>3, <3>1, ProtocolAssumption DEF ServerUnbinds, TypeOK, NoId
    <3>2. CASE m.op = "bind" /\ Tell([op |-> "failed", service |-> m.service, asked |-> TRUE])
               /\ UNCHANGED <<bound, given, lastId>>
      <4>1. [op |-> "failed", service |-> m.service, asked |-> TRUE] \in Answering
        BY <2>3 DEF Answering
      <4> QED
        BY <3>2, <4>1, AppendIs DEF Tell, TypeOK
    <3>3. CASE /\ m.op = "bind" /\ lastId < MaxId
               /\ Tell([op |-> "bound", service |-> m.service, id |-> lastId + 1])
               /\ bound' = [bound EXCEPT ![m.service] = lastId + 1]
               /\ given' = [given EXCEPT ![lastId + 1] = m.settings]
               /\ lastId' = lastId + 1
      <4>1. lastId + 1 \in 1..MaxId
        BY <3>3, ProtocolAssumption DEF TypeOK
      <4>2. [op |-> "bound", service |-> m.service, id |-> lastId + 1] \in Answering
        BY <2>3, <4>1 DEF Answering
      <4>3. toClient' \in Seq(Answering)
        BY <3>3, <4>2, AppendIs DEF Tell, TypeOK
      <4> QED
        BY <2>3, <3>3, <4>1, <4>3 DEF TypeOK
    <3> QED
      BY <1>6, <2>1, <3>1, <3>2, <3>3 DEF ServerHears, ServerBinds
  <2> QED
    BY <1>6, <2>2, <2>4 DEF ServerHears, TypeOK, config, policyVars, clientVars
<1>7. CASE Regrant
  <2>1. bound' \in [Services -> 0..MaxId] /\ lost' \in SUBSET Services /\ grant' \in SUBSET Settings
    BY <1>7, ProtocolAssumption DEF Regrant, TypeOK, NoId
  <2> QED
    BY <1>7, <2>1 DEF Regrant, TypeOK, config, policyVars, clientVars
<1>8. CASE TellLost
  <2>1. PICK s \in lost : /\ Tell([op |-> "failed", service |-> s, asked |-> FALSE])
                          /\ lost' = lost \ {s}
    BY <1>8 DEF TellLost
  <2>2. [op |-> "failed", service |-> s, asked |-> FALSE] \in Answering
    BY DEF Answering, TypeOK
  <2>3. toClient' \in Seq(Answering) /\ lost' \in SUBSET Services
    BY <2>1, <2>2, AppendIs DEF Tell, TypeOK
  <2> QED
    BY <1>8, <2>3 DEF TellLost, TypeOK, config, policyVars, clientVars
<1>9. CASE SessionEnds
  BY <1>9, ProtocolAssumption
  DEF SessionEnds, TypeOK, NoIds, NoId, NoTargets, config, policyVars, clientVars
<1>10. ASSUME NEW e \in Expose, ReloadClient(e) PROVE TypeOK'
  BY <1>10, ProtocolAssumption DEF ReloadClient, TypeOK, policyVars, clientVars, serverVars
<1>11. ASSUME NEW g \in SUBSET Settings, ReloadServer(g) PROVE TypeOK'
  BY <1>11, ProtocolAssumption DEF ReloadServer, TypeOK, config, clientVars, serverVars
<1>12. CASE UNCHANGED vars
  BY <1>12 DEF vars, TypeOK, config, policyVars, clientVars, serverVars
<1> QED
  BY <1>1, <1>2, <1>3, <1>4, <1>5, <1>6, <1>7, <1>8, <1>9, <1>10, <1>11, <1>12
  DEF Next, Work, Over

-----------------------------------------------------------------------------
(* What a step leaves as it is. *)
LEMMA ServiceSame ==
    ASSUME NEW s \in Services, ServiceInv(s), Out' = Out,
           UNCHANGED <<toClient, exposed, ids, failed, unanswered, bound, given, lastId, lost,
                       miscounted>>
    PROVE  ServiceInv(s)'
<1>1. Wish(s)' = Wish(s) /\ Truth(s)' = Truth(s) /\ Good(s)' = Good(s)
  BY DEF Wish, Truth, Good
<1>2. CountInv(s)'
  BY DEF ServiceInv, CountInv
<1>3. AskInv(s)'
  BY <1>1 DEF ServiceInv, AskInv
<1>4. Free(Out, s, bound[s])'
  BY DEF ServiceInv
<1>5. WordInv(s)'
  BY <1>1 DEF ServiceInv, WordInv
<1>6. GoodInv(s)'
  BY <1>1 DEF ServiceInv, GoodInv
<1>7. HeldInv(s)'
  BY DEF ServiceInv, HeldInv
<1> QED
  BY <1>2, <1>3, <1>4, <1>5, <1>6, <1>7 DEF ServiceInv

\* Ids that nobody touches stay one service's, ...
LEMMA OwnSame == OwnInv /\ UNCHANGED <<ids, toClient, lastId>> => OwnInv'
BY DEF OwnInv

\* ... and the targets theirs.
LEMMA TargetSame == TargetInv /\ UNCHANGED <<ids, targets>> => TargetInv'
BY DEF TargetInv

\* What is said of one service is nothing to another.
LEMMA OtherTold ==
    ASSUME TypeOK, NEW s \in Services, NEW a \in Answering, a.service # s,
           toClient' = Append(toClient, a), NEW G
    PROVE  /\ HowMany(toClient', Replies(s)) = HowMany(toClient, Replies(s))
           /\ Lasts(toClient, Tells(s), G) => Lasts(toClient', Tells(s), G)
           /\ Lacks(toClient, Tells(s)) => Lacks(toClient', Tells(s))
           /\ Lasts(toClient, Replies(s), G) => Lasts(toClient', Replies(s), G)
           /\ Lacks(toClient, Replies(s)) => Lacks(toClient', Replies(s))
<1>1. a \notin Tells(s) /\ a \notin Replies(s)
  BY DEF Tells, Replies
<1>2. toClient \in Seq(Answering)
  BY DEF TypeOK
<1>3. HowMany(toClient', Replies(s)) = HowMany(toClient, Replies(s))
  <2>1. HowMany(toClient', Replies(s)) = HowMany(toClient, Replies(s)) + 0
    BY <1>1, <1>2, HowManyAppend
  <2>2. HowMany(toClient, Replies(s)) \in Nat
    BY <1>2, SpotsFinite
  <2> QED
    BY <2>1, <2>2
<1>4. /\ Lasts(toClient, Tells(s), G) => Lasts(toClient', Tells(s), G)
      /\ Lacks(toClient, Tells(s)) => Lacks(toClient', Tells(s))
  BY <1>1, <1>2, LastsPassed
<1>5. /\ Lasts(toClient, Replies(s), G) => Lasts(toClient', Replies(s), G)
      /\ Lacks(toClient, Replies(s)) => Lacks(toClient', Replies(s))
  BY <1>1, <1>2, LastsPassed
<1> QED
  BY <1>3, <1>4, <1>5

\* The settings of an id stand.
LEMMA GoodStands ==
    ASSUME TypeOK, OwnInv, NEW s \in Services, UNCHANGED exposed,
           \A i \in 1..MaxId : i <= lastId => given'[i] = given[i],
           Lasts(toClient, Replies(s), Good(s))
    PROVE  Lasts(toClient, Replies(s), Good(s)')
<1>1. ASSUME NEW i \in DOMAIN toClient, toClient[i] \in Good(s) PROVE toClient[i] \in Good(s)'
  <2>1. PICK m : m = toClient[i]
    OBVIOUS
  <2>2. m \in Answering
    BY <2>1, ElementOfSeq DEF TypeOK
  <2>3. m.op = "bound" => m.id \in 1..MaxId /\ m.id <= lastId
    BY <2>1, <2>2, AnswerKinds DEF OwnInv
  <2>4. m \in Replies(s) /\ (m.op = "bound" => given[m.id] = exposed[s])
    BY <1>1, <2>1 DEF Good
  <2>5. m.op = "bound" => given'[m.id] = exposed'[s]
    BY <2>3, <2>4
  <2>6. m \in Good(s)'
    BY <2>4, <2>5 DEF Good
  <2> QED
    BY <2>1, <2>6
<1> QED
  BY <1>1, LastsWidens

-----------------------------------------------------------------------------
(* The server reads a message. *)
LEMMA OutTakes ==
    ASSUME TypeOK, toServer # <<>>, toServer' = Tail(toServer), UNCHANGED pending
    PROVE  Out # <<>> /\ Head(Out) = Head(toServer) /\ Out' = Tail(Out)
BY TailConcat DEF Out, TypeOK

\* What becomes of the queue, for a service the message is not about and for its own.
LEMMA OutOther ==
    ASSUME TypeOK, NEW s \in Services, Out # <<>>, Out' = Tail(Out), Head(Out) \notin Asks(s), NEW G
    PROVE  /\ HowMany(Out', Binds(s)) = HowMany(Out, Binds(s))
           /\ Lasts(Out, Asks(s), G) => Lasts(Out', Asks(s), G) \/ Head(Out) \in G
           /\ Lacks(Out, Asks(s)) => Lacks(Out', Asks(s))
           /\ Lacks(Out', Binds(s)) => Lacks(Out, Binds(s))
<1>1. Out \in Seq(Asking) /\ Out' \in Seq(Asking) /\ Head(Out) \notin Binds(s)
  BY OutType, TailIs DEF Asks, Binds
<1>2. HowMany(Out, Binds(s)) = HowMany(Out', Binds(s)) + 0
  BY <1>1, HowManyTail
<1>3. HowMany(Out', Binds(s)) \in Nat
  BY <1>1, SpotsFinite
<1>4. /\ Lasts(Out, Asks(s), G) => Lasts(Out', Asks(s), G) \/ Head(Out) \in G
      /\ Lacks(Out, Asks(s)) => Lacks(Out', Asks(s))
  BY <1>1, LastsTail
<1>5. Lacks(Out', Binds(s)) => Lacks(Out, Binds(s))
  BY <1>1, LastsTail
<1> QED
  BY <1>2, <1>3, <1>4, <1>5

\* The wish for a service is a message about it; a bind, if it is wanted.
LEMMA WishIs ==
    ASSUME TypeOK, NEW s \in Services
    PROVE  /\ \A x \in Wish(s) : x \in Asks(s)
           /\ exposed[s] # Absent => \A x \in Wish(s) : x \in Binds(s)
           /\ exposed[s] = Absent => Wish(s) = {Unbind(s)}
<1>1. exposed[s] # Absent => exposed[s] \in Settings
  BY DEF TypeOK, Expose
<1> QED
  BY <1>1 DEF Wish, Asks, Binds, Bind, Unbind, Asking

\* The server's step, for every service but the one it is about.
LEMMA ServerOther ==
    ASSUME TypeOK, OwnInv, NEW s \in Services, ServiceInv(s),
           Out # <<>>, Out' = Tail(Out), Head(Out) \notin Asks(s),
           NEW a \in Answering, a.service # s, toClient' \in {toClient, Append(toClient, a)},
           lastId' \in Nat, lastId <= lastId', bound'[s] = bound[s],
           \A i \in 1..MaxId : i <= lastId => given'[i] = given[i],
           UNCHANGED <<exposed, ids, failed, unanswered, lost, miscounted>>
    PROVE  ServiceInv(s)'
<1>a. Out \in Seq(Asking)
  BY OutType
<1>b. ids[s] \in 0..MaxId /\ bound[s] \in 0..MaxId /\ lastId \in Nat
  BY DEF TypeOK
<1>0. Out \in Seq(Asking) /\ ids[s] \in 0..MaxId /\ bound[s] \in 0..MaxId /\ lastId \in Nat
  BY <1>a, <1>b
<1>1. /\ HowMany(toClient', Replies(s)) = HowMany(toClient, Replies(s))
      /\ Lacks(toClient, Tells(s)) => Lacks(toClient', Tells(s))
      /\ Lacks(toClient, Replies(s)) => Lacks(toClient', Replies(s))
  <2>1. CASE toClient' = toClient
    BY <2>1
  <2>2. CASE toClient' = Append(toClient, a)
    BY <2>2, OtherTold
  <2> QED
    BY <2>1, <2>2
<1>2. ASSUME NEW G
      PROVE  /\ Lasts(toClient, Tells(s), G) => Lasts(toClient', Tells(s), G)
             /\ Lasts(toClient, Replies(s), G) => Lasts(toClient', Replies(s), G)
  <2>1. CASE toClient' = toClient
    BY <2>1
  <2>2. CASE toClient' = Append(toClient, a)
    BY <2>2, OtherTold
  <2> QED
    BY <2>1, <2>2
<1>3. Wish(s)' = Wish(s) /\ Truth(s)' = Truth(s)
  BY DEF Wish, Truth
<1>4. CountInv(s)'
  BY <1>1, OutOther DEF ServiceInv, CountInv
<1>5. bound[s] # NoId => given'[bound[s]] = given[bound[s]]
  BY <1>0 DEF ServiceInv, HeldInv, NoId
<1>6. AskInv(s)'
  <2>1. CASE Lasts(Out, Asks(s), Wish(s))
    <3>1. Head(Out) \notin Wish(s)
      BY WishIs
    <3>2. Lasts(Out', Asks(s), Wish(s))
      BY <2>1, <3>1, OutOther
    <3> QED
      BY <1>3, <3>2 DEF AskInv
  <2>2. CASE /\ Lacks(Out, Asks(s))
             /\ bound[s] # NoId => exposed[s] # Absent /\ given[bound[s]] = exposed[s]
    <3>1. Lacks(Out', Asks(s))
      BY <2>2, OutOther
    <3> QED
      BY <1>5, <2>2, <3>1 DEF AskInv
  <2> QED
    BY <2>1, <2>2 DEF ServiceInv, AskInv
<1>7. Free(Out, s, bound[s])'
  <2>1. Unbind(s) \in Asks(s)
    BY DEF Unbind, Asks, Asking
  <2>2. Free(Tail(Out), s, bound[s])
    BY <1>0, <2>1, FreeTail DEF ServiceInv
  <2> QED
    BY <2>2
<1>8. Lacks(Out', Binds(s)) => Lacks(Out, Binds(s))
  BY OutOther
<1>9. WordInv(s)'
  BY <1>1, <1>2, <1>3, <1>8 DEF ServiceInv, WordInv
<1>10. GoodInv(s)'
  <2>1. Lasts(toClient, Replies(s), Good(s)) => Lasts(toClient', Replies(s), Good(s)')
    BY <1>2, GoodStands
  <2> QED
    BY <1>1, <1>8, <2>1 DEF ServiceInv, GoodInv
<1>11. HeldInv(s)'
  <2>1. ids[s] # NoId => given'[ids[s]] = given[ids[s]]
    BY <1>0 DEF ServiceInv, HeldInv, NoId
  <2>2. bound[s] <= lastId' /\ ids[s] <= lastId'
    BY <1>0 DEF ServiceInv, HeldInv
  <2> QED
    BY <2>1, <2>2 DEF ServiceInv, HeldInv
<1> QED
  BY <1>4, <1>6, <1>7, <1>9, <1>10, <1>11 DEF ServiceInv

\* A message of a service is read: if it is the last for it, it is as wished.
LEMMA LastWish ==
    ASSUME TypeOK, NEW s \in Services, AskInv(s), Out # <<>>, Out' = Tail(Out), Head(Out) \in Asks(s)
    PROVE  \/ Lasts(Out', Asks(s), Wish(s)) /\ (exposed[s] # Absent => ~Lacks(Out', Binds(s)))
           \/ Lacks(Out', Asks(s)) /\ Head(Out) \in Wish(s)
<1>1. Out \in Seq(Asking)
  BY OutType
<1>2. ~Lacks(Out, Asks(s))
  BY <1>1, LastsTail
<1>3. Lasts(Out, Asks(s), Wish(s))
  BY <1>2 DEF AskInv
<1>4. Lasts(Out', Asks(s), Wish(s)) \/ (Head(Out) \in Wish(s) /\ Lacks(Out', Asks(s)))
  BY <1>1, <1>3, LastsTail
<1>5. ASSUME Lasts(Out', Asks(s), Wish(s)), exposed[s] # Absent PROVE ~Lacks(Out', Binds(s))
  <2>1. \A x : x \in Wish(s) => x \in Binds(s)
    BY <1>5, WishIs
  <2>2. \A x : x \in Binds(s) => x \in Asks(s)
    BY DEF Binds, Asks
  <2>3. Lasts(Out', Binds(s), Wish(s))
    BY <1>5, <2>2, LastsNarrows
  <2> QED
    BY <2>1, <2>3, LastsIsThere
<1> QED
  BY <1>4, <1>5

\* A bind that is read and answered is counted where it was.
LEMMA BindRead ==
    ASSUME TypeOK, NEW s \in Services, Out # <<>>, Out' = Tail(Out), Head(Out) \in Binds(s),
           NEW a \in Replies(s), toClient' = Append(toClient, a), UNCHANGED <<unanswered, miscounted>>,
           CountInv(s)
    PROVE  CountInv(s)'
<1>1. Out \in Seq(Asking) /\ Out' \in Seq(Asking) /\ toClient \in Seq(Answering) /\ a \in Answering
  BY OutType, TailIs DEF TypeOK, Replies
<1>2. HowMany(Out, Binds(s)) = HowMany(Out', Binds(s)) + 1
  BY <1>1, HowManyTail
<1>3. HowMany(toClient', Replies(s)) = HowMany(toClient, Replies(s)) + 1
  BY <1>1, HowManyAppend
<1>4. HowMany(Out', Binds(s)) \in Nat /\ HowMany(toClient, Replies(s)) \in Nat
  BY <1>1, SpotsFinite
<1>5. HowMany(Out', Binds(s)) + HowMany(toClient', Replies(s))
          = HowMany(Out, Binds(s)) + HowMany(toClient, Replies(s))
  BY <1>2, <1>3, <1>4
<1> QED
  BY <1>5 DEF CountInv

\* The service of a bind that the server refuses, ...
LEMMA ServerRefuses ==
    ASSUME TypeOK, NEW s \in Services, ServiceInv(s), Out # <<>>, Out' = Tail(Out),
           Head(Out) \in Binds(s),
           toClient' = Append(toClient, [op |-> "failed", service |-> s, asked |-> TRUE]),
           UNCHANGED <<exposed, ids, failed, unanswered, bound, given, lastId, lost, miscounted>>
    PROVE  ServiceInv(s)'
<1>0. Out \in Seq(Asking) /\ toClient \in Seq(Answering)
  BY OutType DEF TypeOK
<1>1. PICK a : a = [op |-> "failed", service |-> s, asked |-> TRUE]
  OBVIOUS
<1>2. a \in Answering /\ a \in Tells(s) /\ a \in Replies(s) /\ a.op = "failed"
  BY <1>1 DEF Answering, Tells, Replies
<1>3. Head(Out) \in Asks(s) /\ Head(Out) # Unbind(s)
  BY DEF Asks, Binds, Unbind
<1>4. bound[s] = NoId
  BY <1>0, FreeHead DEF ServiceInv
<1>5. CountInv(s)'
  BY <1>1, <1>2, BindRead DEF ServiceInv
<1>6. AskInv(s)'
  <2>1. Wish(s)' = Wish(s)
    BY DEF Wish
  <2>2. Lasts(Out', Asks(s), Wish(s)) \/ Lacks(Out', Asks(s))
    BY <1>3, LastWish DEF ServiceInv
  <2> QED
    BY <1>4, <2>1, <2>2 DEF AskInv
<1>7. Free(Out, s, bound[s])'
  BY <1>0, <1>3, FreeTail DEF ServiceInv
<1>8. WordInv(s)'
  <2>1. a \in Truth(s)'
    BY <1>2, <1>4 DEF Truth
  <2>2. Lasts(toClient', Tells(s), Truth(s)')
    BY <1>0, <1>1, <1>2, <2>1, LastsAppend
  <2> QED
    BY <2>2 DEF WordInv
<1>9. GoodInv(s)'
  <2>1. a \in Good(s)'
    BY <1>2 DEF Good
  <2>2. Lasts(toClient', Replies(s), Good(s)')
    BY <1>0, <1>1, <1>2, <2>1, LastsAppend
  <2> QED
    BY <2>2 DEF GoodInv
<1>10. HeldInv(s)'
  BY DEF ServiceInv, HeldInv
<1> QED
  BY <1>5, <1>6, <1>7, <1>8, <1>9, <1>10 DEF ServiceInv

\* ... that it accepts, ...
LEMMA ServerAccepts ==
    ASSUME TypeOK, NEW s \in Services, ServiceInv(s), Out # <<>>, Out' = Tail(Out),
           NEW x, Head(Out) = Bind(s, x), Head(Out) \in Binds(s), lastId + 1 \in 1..MaxId, lost = {},
           toClient' = Append(toClient, [op |-> "bound", service |-> s, id |-> lastId + 1]),
           bound'[s] = lastId + 1, lastId' = lastId + 1, given'[lastId + 1] = x,
           \A i \in 1..MaxId : i <= lastId => given'[i] = given[i],
           UNCHANGED <<exposed, ids, failed, unanswered, lost, miscounted>>
    PROVE  ServiceInv(s)'
<1>a. Out \in Seq(Asking)
  BY OutType
<1>b. /\ toClient \in Seq(Answering) /\ lastId \in Nat
      /\ ids[s] \in 0..MaxId /\ bound[s] \in 0..MaxId
  BY DEF TypeOK
<1>0. Out \in Seq(Asking) /\ toClient \in Seq(Answering) /\ lastId \in Nat
      /\ ids[s] \in 0..MaxId /\ bound[s] \in 0..MaxId
  BY <1>a, <1>b
<1>1. PICK a : a = [op |-> "bound", service |-> s, id |-> lastId + 1]
  OBVIOUS
<1>2. /\ a \in Answering /\ a \in Tells(s) /\ a \in Replies(s) /\ a.op = "bound"
      /\ a.id = lastId + 1
  BY <1>1 DEF Answering, Tells, Replies
<1>3. Head(Out) \in Asks(s) /\ Head(Out) # Unbind(s)
  BY DEF Asks, Binds, Unbind
<1>4. lastId + 1 # NoId
  BY <1>0 DEF NoId
<1>5. Head(Out) \in Wish(s) => exposed[s] # Absent /\ x = exposed[s]
  <2>1. Head(Out) = Bind(s, exposed[s]) => x = exposed[s]
    BY DEF Bind
  <2> QED
    BY <1>3, <2>1 DEF Wish
<1>6. CountInv(s)'
  BY <1>1, <1>2, BindRead DEF ServiceInv
<1>7. /\ \/ Lasts(Out', Asks(s), Wish(s)) /\ (exposed[s] # Absent => ~Lacks(Out', Binds(s)))
         \/ Lacks(Out', Asks(s)) /\ Head(Out) \in Wish(s)
  BY <1>3, LastWish DEF ServiceInv
<1>8. AskInv(s)'
  <2>1. Wish(s)' = Wish(s)
    BY DEF Wish
  <2> QED
    BY <1>5, <1>7, <2>1 DEF AskInv
<1>9. Free(Out, s, bound[s])'
  BY <1>0, <1>3, FreeTail DEF ServiceInv
<1>10. WordInv(s)'
  <2>1. a \in Truth(s)'
    BY <1>2, <1>4 DEF Truth
  <2>2. Lasts(toClient', Tells(s), Truth(s)')
    BY <1>0, <1>1, <1>2, <2>1, LastsAppend
  <2> QED
    BY <2>2 DEF WordInv
<1>11. GoodInv(s)'
  <2> SUFFICES ASSUME Lacks(Out', Binds(s)), exposed[s] # Absent
               PROVE  Lasts(toClient', Replies(s), Good(s)')
    BY DEF GoodInv
  <2>1. x = exposed[s]
    BY <1>5, <1>7
  <2>2. a \in Good(s)'
    BY <1>2, <2>1 DEF Good
  <2> QED
    BY <1>0, <1>1, <1>2, <2>2, LastsAppend
<1>12. HeldInv(s)'
  <2>1. ids[s] # NoId => given'[ids[s]] = given[ids[s]]
    BY <1>0 DEF ServiceInv, HeldInv, NoId
  <2>2. bound'[s] <= lastId' /\ ids[s] <= lastId'
    BY <1>0 DEF ServiceInv, HeldInv
  <2> QED
    BY <2>1, <2>2 DEF ServiceInv, HeldInv
<1> QED
  BY <1>6, <1>8, <1>9, <1>10, <1>11, <1>12 DEF ServiceInv

\* ... and of an unbind.
LEMMA ServerDrops ==
    ASSUME TypeOK, NEW s \in Services, ServiceInv(s), Out # <<>>, Out' = Tail(Out),
           Head(Out) = Unbind(s), bound'[s] = NoId,
           UNCHANGED <<toClient, exposed, ids, failed, unanswered, given, lastId, lost, miscounted>>
    PROVE  ServiceInv(s)'
<1>a. Out \in Seq(Asking)
  BY OutType
<1>b. Out' \in Seq(Asking)
  BY <1>a, TailIs
<1>c. lastId \in Nat
  BY DEF TypeOK
<1>0. Out \in Seq(Asking) /\ Out' \in Seq(Asking) /\ lastId \in Nat
  BY <1>a, <1>b, <1>c
<1>1. Head(Out) \in Asks(s) /\ Head(Out) \notin Binds(s)
  <2>1. Unbind(s) \in Asks(s) /\ Unbind(s) \notin Binds(s)
    BY DEF Asks, Binds, Unbind, Asking
  <2> QED
    BY <2>1
<1>2. /\ \/ Lasts(Out', Asks(s), Wish(s)) /\ (exposed[s] # Absent => ~Lacks(Out', Binds(s)))
         \/ Lacks(Out', Asks(s)) /\ Head(Out) \in Wish(s)
  BY <1>1, LastWish DEF ServiceInv
<1>3. Head(Out) \in Wish(s) => exposed[s] = Absent
  BY <1>1, WishIs
<1>4. CountInv(s)'
  <2>1. HowMany(Out, Binds(s)) = HowMany(Out', Binds(s)) + 0
    BY <1>0, <1>1, HowManyTail
  <2>2. HowMany(Out', Binds(s)) \in Nat
    BY <1>0, SpotsFinite
  <2>3. HowMany(Out, Binds(s)) = HowMany(Out', Binds(s))
    BY <2>1, <2>2
  <2> QED
    BY <2>3 DEF ServiceInv, CountInv
<1>5. AskInv(s)'
  <2>1. Wish(s)' = Wish(s)
    BY DEF Wish
  <2> QED
    BY <1>2, <2>1 DEF AskInv
<1>6. Free(Out, s, bound[s])'
  BY <1>0, <1>1, FreeTail DEF ServiceInv
<1>7. ~(Lacks(Out', Binds(s)) /\ exposed[s] # Absent)
  BY <1>2, <1>3
<1>8. WordInv(s)' /\ GoodInv(s)'
  BY <1>7 DEF WordInv, GoodInv
<1>9. HeldInv(s)'
  BY <1>0 DEF ServiceInv, HeldInv, NoId
<1> QED
  BY <1>4, <1>5, <1>6, <1>8, <1>9 DEF ServiceInv

\* An id is new when it is given.
LEMMA OwnGrows ==
    ASSUME TypeOK, OwnInv, \A s \in Services : ids[s] <= lastId, NEW a \in Answering,
           a.op = "bound" => a.id = lastId + 1, toClient' = Append(toClient, a),
           lastId' \in Nat, lastId <= lastId', a.op = "bound" => lastId' = lastId + 1, UNCHANGED ids
    PROVE  OwnInv'
<1>1. PICK q, r, n : q = toClient /\ r = toClient' /\ n = Len(toClient)
  OBVIOUS
<1>2. /\ n \in Nat /\ DOMAIN q = 1..n /\ DOMAIN r = 1..(n + 1) /\ r[n + 1] = a
      /\ \A i \in 1..n : r[i] = q[i]
  BY <1>1, AppendIs DEF TypeOK
<1>3. lastId \in Nat /\ \A s \in Services : ids[s] \in Nat
  BY DEF TypeOK
<1>4. \A i \in DOMAIN q : q[i].op = "bound" => q[i].id \in Nat /\ q[i].id <= lastId
  <2> SUFFICES ASSUME NEW i \in DOMAIN q, q[i].op = "bound"
               PROVE  q[i].id \in Nat /\ q[i].id <= lastId
    OBVIOUS
  <2>1. q[i] \in Answering
    BY <1>1, ElementOfSeq DEF TypeOK
  <2>2. q[i].id \in 1..MaxId
    BY <2>1, AnswerKinds
  <2> QED
    BY <1>1, <2>2 DEF OwnInv
<1>5. /\ \A s, t \in Services : ids[s] = ids[t] /\ ids[s] # NoId => s = t
      /\ \A i \in DOMAIN q : q[i].op = "bound" =>
            /\ \A s \in Services : ids[s] = q[i].id => s = q[i].service
            /\ \A j \in DOMAIN q : q[j].op = "bound" /\ q[i].id = q[j].id =>
                                       q[i].service = q[j].service
  BY <1>1 DEF OwnInv
<1>6. ASSUME NEW i \in DOMAIN r, r[i].op = "bound"
      PROVE  /\ r[i].id <= lastId'
             /\ \A s \in Services : ids'[s] = r[i].id => s = r[i].service
             /\ \A j \in DOMAIN r : r[j].op = "bound" /\ r[i].id = r[j].id =>
                                        r[i].service = r[j].service
  <2>1. CASE i = n + 1
    <3>1. r[i] = a /\ a.id = lastId + 1 /\ lastId' = lastId + 1
      BY <1>2, <1>6, <2>1
    <3>2. \A s \in Services : ids[s] # a.id
      BY <1>3, <3>1
    <3>3. ASSUME NEW j \in DOMAIN r, r[j].op = "bound", r[j].id = a.id PROVE r[j] = a
      <4>1. CASE j = n + 1
        BY <1>2, <4>1
      <4>2. CASE j # n + 1
        <5>1. j \in DOMAIN q /\ r[j] = q[j]
          BY <1>2, <4>2
        <5>2. q[j].id \in Nat /\ q[j].id <= lastId
          BY <1>4, <3>3, <5>1
        <5> QED
          BY <1>3, <3>1, <3>3, <5>1, <5>2
      <4> QED
        BY <4>1, <4>2
    <3> QED
      BY <1>3, <3>1, <3>2, <3>3
  <2>2. CASE i # n + 1
    <3>1. i \in DOMAIN q /\ r[i] = q[i]
      BY <1>2, <2>2
    <3>2. q[i].id \in Nat /\ q[i].id <= lastId
      BY <1>4, <1>6, <3>1
    <3>3. ASSUME NEW j \in DOMAIN r, r[j].op = "bound", r[j].id = q[i].id
          PROVE  r[j].service = q[i].service
      <4>1. CASE j = n + 1
        <5>1. a.op = "bound" /\ a.id = lastId + 1 /\ a.id = q[i].id
          BY <1>2, <3>3, <4>1
        <5> QED
          BY <1>3, <3>2, <5>1
      <4>2. CASE j # n + 1
        BY <1>2, <1>5, <1>6, <3>1, <3>3, <4>2
      <4> QED
        BY <4>1, <4>2
    <3>4. q[i].id <= lastId'
      BY <1>3, <3>2
    <3>5. \A s \in Services : ids[s] = q[i].id => s = q[i].service
      BY <1>5, <1>6, <3>1
    <3> QED
      BY <3>1, <3>3, <3>4, <3>5
  <2> QED
    BY <2>1, <2>2
<1> QED
  BY <1>1, <1>5, <1>6 DEF OwnInv

\* The server reads a message.
LEMMA ServerHearsStep ==
    ASSUME TypeOK, UpInv, ServerHears
    PROVE  UpInv'
<1>0. link = "up" /\ OwnInv /\ TargetInv /\ (\A s \in Services : ServiceInv(s)) /\ lost = {}
  BY DEF ServerHears, UpInv, CanRead
<1>1. PICK m : m = Head(toServer)
  OBVIOUS
<1>2. /\ toServer # <<>> /\ toServer' = Tail(toServer)
      /\ UNCHANGED <<link, exposed, ids, failed, unanswered, pending, targets, miscounted, lost>>
      /\ ServerBinds(m) \/ ServerUnbinds(m)
  BY <1>1 DEF ServerHears, CanRead, clientVars
<1>3. Out # <<>> /\ Head(Out) = m /\ Out' = Tail(Out) /\ m \in Asking
  BY <1>1, <1>2, OutTakes, TailIs DEF TypeOK
<1>4. PICK t : t = m.service
  OBVIOUS
<1>5. /\ t \in Services
      /\ \/ m.op = "bind" /\ m = Bind(t, m.settings) /\ m \in Binds(t) /\ m.settings \in Settings
         \/ m.op = "unbind" /\ m = Unbind(t)
      /\ \A s \in Services : s # t => m \notin Asks(s)
  BY <1>3, <1>4, RequestKinds DEF Binds, Asks
<1>6. lastId \in Nat /\ \A s \in Services : ids[s] <= lastId
  BY <1>0 DEF ServiceInv, HeldInv, TypeOK
<1>7. TargetInv'
  BY <1>0, <1>2, TargetSame
<1>8. CASE ServerUnbinds(m)
  <2>1. /\ m.op = "unbind" /\ bound' = [bound EXCEPT ![t] = NoId]
        /\ UNCHANGED <<toClient, given, lastId>>
    BY <1>4, <1>8 DEF ServerUnbinds
  <2>2. bound'[t] = NoId /\ \A s \in Services : s # t => bound'[s] = bound[s]
    BY <1>5, <2>1 DEF TypeOK
  <2>3. OwnInv'
    BY <1>0, <1>2, <2>1, OwnSame
  <2>4. ServiceInv(t)'
    BY <1>0, <1>2, <1>3, <1>5, <2>1, <2>2, ServerDrops
  <2>5. ASSUME NEW s \in Services, s # t PROVE ServiceInv(s)'
    <3>1. PICK a : a = [op |-> "failed", service |-> t, asked |-> TRUE]
      OBVIOUS
    <3>2. a \in Answering /\ a.service # s
      BY <1>5, <2>5, <3>1 DEF Answering
    <3>3. m \notin Asks(s) /\ bound'[s] = bound[s]
      BY <1>5, <2>2, <2>5
    <3> QED
      BY <1>0, <1>2, <1>3, <1>6, <2>1, <3>2, <3>3, ServerOther
  <2> QED
    BY <1>7, <2>3, <2>4, <2>5 DEF UpInv
<1>9. CASE m.op = "bind" /\ Tell([op |-> "failed", service |-> m.service, asked |-> TRUE])
           /\ UNCHANGED <<bound, given, lastId>>
  <2>1. PICK a : a = [op |-> "failed", service |-> t, asked |-> TRUE]
    OBVIOUS
  <2>2. a \in Answering /\ a.service = t /\ a.op # "bound"
    BY <1>5, <2>1 DEF Answering
  <2>3. toClient' = Append(toClient, a)
    BY <1>4, <1>9, <2>1 DEF Tell
  <2>4. OwnInv'
    BY <1>0, <1>2, <1>6, <1>9, <2>2, <2>3, OwnGrows
  <2>5. ServiceInv(t)'
    <3>1. Head(Out) \in Binds(t)
      BY <1>3, <1>5, <1>9
    <3>2. ServiceInv(t)
      BY <1>0, <1>5
    <3> QED
      BY <1>2, <1>3, <1>5, <1>9, <2>1, <2>3, <3>1, <3>2, ServerRefuses
  <2>6. ASSUME NEW s \in Services, s # t PROVE ServiceInv(s)'
    <3>1. m \notin Asks(s) /\ a.service # s /\ ServiceInv(s)
      BY <1>0, <1>5, <2>2, <2>6
    <3> QED
      BY <1>0, <1>2, <1>3, <1>6, <1>9, <2>2, <2>3, <3>1, ServerOther
  <2> QED
    BY <1>7, <2>4, <2>5, <2>6 DEF UpInv
<1>10. CASE /\ m.op = "bind" /\ lastId < MaxId
            /\ Tell([op |-> "bound", service |-> m.service, id |-> lastId + 1])
            /\ bound' = [bound EXCEPT ![m.service] = lastId + 1]
            /\ given' = [given EXCEPT ![lastId + 1] = m.settings]
            /\ lastId' = lastId + 1
  <2>0. lastId + 1 \in 1..MaxId
    BY <1>6, <1>10, ProtocolAssumption
  <2>1. PICK a : a = [op |-> "bound", service |-> t, id |-> lastId + 1]
    OBVIOUS
  <2>2. a \in Answering /\ a.service = t /\ a.id = lastId + 1 /\ lastId' = lastId + 1
        /\ lastId' \in Nat /\ lastId <= lastId'
    BY <1>5, <1>6, <1>10, <2>0, <2>1 DEF Answering
  <2>3. toClient' = Append(toClient, a)
    BY <1>4, <1>10, <2>1 DEF Tell
  <2>4. /\ bound'[t] = lastId + 1 /\ \A s \in Services : s # t => bound'[s] = bound[s]
        /\ given'[lastId + 1] = m.settings
    BY <1>4, <1>5, <1>10, <2>0 DEF TypeOK
  <2>5. \A i \in 1..MaxId : i <= lastId => given'[i] = given[i]
    BY <1>6, <1>10 DEF TypeOK
  <2>6. OwnInv'
    BY <1>0, <1>2, <1>6, <2>2, <2>3, OwnGrows
  <2>7. ServiceInv(t)'
    <3>1. PICK x : x = m.settings
      OBVIOUS
    <3>2. Head(Out) \in Binds(t) /\ Head(Out) = Bind(t, x) /\ ServiceInv(t) /\ given'[lastId + 1] = x
      BY <1>0, <1>3, <1>5, <1>10, <2>4, <3>1
    <3> QED
      BY <1>0, <1>2, <1>3, <1>5, <2>0, <2>1, <2>2, <2>3, <2>4, <2>5, <3>2, ServerAccepts
  <2>8. ASSUME NEW s \in Services, s # t PROVE ServiceInv(s)'
    <3>1. m \notin Asks(s) /\ a.service # s /\ ServiceInv(s) /\ bound'[s] = bound[s]
      BY <1>0, <1>5, <2>2, <2>4, <2>8
    <3> QED
      BY <1>0, <1>2, <1>3, <2>2, <2>3, <2>5, <3>1, ServerOther
  <2> QED
    BY <1>7, <2>6, <2>7, <2>8 DEF UpInv
<1> QED
  BY <1>2, <1>8, <1>9, <1>10 DEF ServerBinds

-----------------------------------------------------------------------------
(* The client hears an answer. *)
LEMMA HeardFacts ==
    ASSUME TypeOK, NEW s \in Services, toClient # <<>>, toClient' = Tail(toClient), NEW G
    PROVE  /\ HowMany(toClient, Replies(s))
                  = HowMany(toClient', Replies(s)) + (IF Head(toClient) \in Replies(s) THEN 1 ELSE 0)
           /\ HowMany(toClient', Replies(s)) \in Nat
           /\ HowMany(toClient', Replies(s)) = 0 <=> Lacks(toClient', Replies(s))
           /\ Lasts(toClient, Tells(s), G) =>
                  Lasts(toClient', Tells(s), G) \/ (Head(toClient) \in G /\ Lacks(toClient', Tells(s)))
           /\ Lacks(toClient, Tells(s)) <=> Head(toClient) \notin Tells(s) /\ Lacks(toClient', Tells(s))
           /\ Lasts(toClient, Replies(s), G) =>
                  \/ Lasts(toClient', Replies(s), G)
                  \/ Head(toClient) \in G /\ Lacks(toClient', Replies(s))
           /\ Lacks(toClient, Replies(s)) <=>
                  Head(toClient) \notin Replies(s) /\ Lacks(toClient', Replies(s))
<1>1. toClient \in Seq(Answering) /\ toClient' \in Seq(Answering)
  BY TailIs DEF TypeOK
<1>2. HowMany(toClient, Replies(s))
          = HowMany(toClient', Replies(s)) + (IF Head(toClient) \in Replies(s) THEN 1 ELSE 0)
  BY <1>1, HowManyTail
<1>3. HowMany(toClient', Replies(s)) \in Nat
  BY <1>1, SpotsFinite
<1>4. HowMany(toClient', Replies(s)) = 0 <=> Lacks(toClient', Replies(s))
  BY <1>1, HowManyNone
<1>5. /\ Lasts(toClient, Tells(s), G) =>
             Lasts(toClient', Tells(s), G) \/ (Head(toClient) \in G /\ Lacks(toClient', Tells(s)))
      /\ Lacks(toClient, Tells(s)) <=> Head(toClient) \notin Tells(s) /\ Lacks(toClient', Tells(s))
  BY <1>1, LastsTail
<1>6. /\ Lasts(toClient, Replies(s), G) =>
             \/ Lasts(toClient', Replies(s), G)
             \/ Head(toClient) \in G /\ Lacks(toClient', Replies(s))
      /\ Lacks(toClient, Replies(s)) <=>
             Head(toClient) \notin Replies(s) /\ Lacks(toClient', Replies(s))
  BY <1>1, LastsTail
<1> QED
  BY <1>2, <1>3, <1>4, <1>5, <1>6

\* Kinds of answers, the narrower in the wider.
LEMMA GoodIs ==
    ASSUME NEW s
    PROVE  /\ \A x : x \in Good(s) => x \in Replies(s)
           /\ \A x : x \in Truth(s) => x \in Tells(s)
           /\ \A x : x \in Replies(s) => x \in Tells(s)
BY DEF Good, Truth, Replies, Tells

\* An answer for one service is nothing to another.
LEMMA ClientOther ==
    ASSUME TypeOK, NEW s \in Services, ServiceInv(s), toClient # <<>>, toClient' = Tail(toClient),
           Head(toClient) \notin Tells(s), Out' = Out, ids'[s] = ids[s],
           unanswered'[s] = unanswered[s], s \in failed => s \in failed',
           s \in miscounted => s \in miscounted',
           UNCHANGED <<exposed, bound, given, lastId, lost>>
    PROVE  ServiceInv(s)'
<1>1. Wish(s)' = Wish(s) /\ Truth(s)' = Truth(s) /\ Good(s)' = Good(s)
  BY DEF Wish, Truth, Good
<1>2. Head(toClient) \notin Replies(s) /\ Head(toClient) \notin Truth(s) /\ Head(toClient) \notin Good(s)
  BY GoodIs
<1>3. CountInv(s)'
  <2>1. HowMany(toClient, Replies(s)) = HowMany(toClient', Replies(s)) + 0
        /\ HowMany(toClient', Replies(s)) \in Nat
    BY <1>2, HeardFacts
  <2>2. HowMany(toClient, Replies(s)) = HowMany(toClient', Replies(s))
    BY <2>1
  <2> QED
    BY <2>2 DEF ServiceInv, CountInv
<1>4. AskInv(s)'
  BY <1>1 DEF ServiceInv, AskInv
<1>5. Free(Out, s, bound[s])'
  BY DEF ServiceInv
<1>6. WordInv(s)'
  <2>1. /\ Lasts(toClient, Tells(s), Truth(s)) => Lasts(toClient', Tells(s), Truth(s))
        /\ Lacks(toClient, Tells(s)) => Lacks(toClient', Tells(s))
    BY <1>2, HeardFacts
  <2> QED
    BY <1>1, <2>1 DEF ServiceInv, WordInv
<1>7. GoodInv(s)'
  <2>1. /\ Lasts(toClient, Replies(s), Good(s)) => Lasts(toClient', Replies(s), Good(s))
        /\ Lacks(toClient, Replies(s)) => Lacks(toClient', Replies(s))
    BY <1>2, HeardFacts
  <2> QED
    BY <1>1, <2>1 DEF ServiceInv, GoodInv
<1>8. HeldInv(s)'
  BY DEF ServiceInv, HeldInv
<1> QED
  BY <1>3, <1>4, <1>5, <1>6, <1>7, <1>8 DEF ServiceInv

\* The count, when an answer for the service is heard.
LEMMA CountHeard ==
    ASSUME TypeOK, NEW s \in Services, CountInv(s), toClient # <<>>, toClient' = Tail(toClient),
           Out' = Out, unanswered'[s] = (IF unanswered[s] = 0 THEN 0 ELSE unanswered[s] - 1),
           \/ Head(toClient) \in Replies(s) /\ (s \in miscounted => s \in miscounted')
           \/ /\ Head(toClient) \notin Replies(s) /\ (s \in miscounted => s \in miscounted')
              /\ unanswered[s] > 0 => s \in miscounted'
    PROVE  CountInv(s)'
<1>1. PICK u, v, n, k, l : /\ u = unanswered[s] /\ v = unanswered'[s] /\ n = HowMany(Out, Binds(s))
                           /\ k = HowMany(toClient, Replies(s)) /\ l = HowMany(toClient', Replies(s))
  OBVIOUS
<1>2. u \in Nat /\ n \in Nat /\ l \in Nat /\ v = (IF u = 0 THEN 0 ELSE u - 1)
  <2>1. Out \in Seq(Asking)
    BY OutType
  <2>2. n \in Nat
    BY <1>1, <2>1, SpotsFinite
  <2>3. l \in Nat
    BY <1>1, HeardFacts
  <2> QED
    BY <1>1, <2>2, <2>3 DEF TypeOK
<1>3. k = l + (IF Head(toClient) \in Replies(s) THEN 1 ELSE 0)
  BY <1>1, HeardFacts
<1>4. u <= n + k /\ (s \in miscounted \/ u = n + k)
  BY <1>1 DEF CountInv
<1>5. v <= n + l /\ (s \in miscounted' \/ v = n + l)
  <2>1. CASE Head(toClient) \in Replies(s) /\ (s \in miscounted => s \in miscounted')
    BY <1>2, <1>3, <1>4, <2>1
  <2>2. CASE /\ Head(toClient) \notin Replies(s) /\ (s \in miscounted => s \in miscounted')
             /\ u > 0 => s \in miscounted'
    BY <1>2, <1>3, <1>4, <2>2
  <2> QED
    BY <1>1, <2>1, <2>2
<1> QED
  BY <1>1, <1>5 DEF CountInv

\* The last word on a service finds the count at one or at none.
LEMMA LastIsAnswered ==
    ASSUME TypeOK, NEW s \in Services, CountInv(s), toClient # <<>>, toClient' = Tail(toClient),
           Lacks(Out, Binds(s)), Lacks(toClient', Tells(s))
    PROVE  Answered(s)
<1>1. HowMany(Out, Binds(s)) = 0
  BY OutType, HowManyNone
<1>2. Lacks(toClient', Replies(s))
  BY GoodIs DEF Lacks
<1>3. HowMany(toClient', Replies(s)) = 0
  BY <1>2, HeardFacts
<1>4. HowMany(toClient, Replies(s)) \in {0, 1}
  BY <1>3, HeardFacts
<1>5. unanswered[s] \in Nat
  BY DEF TypeOK
<1> QED
  BY <1>1, <1>4, <1>5 DEF CountInv, Answered

\* An answer that is counted for the last is, unless the count ran short.
LEMMA AnsweredIsLast ==
    ASSUME TypeOK, NEW s \in Services, CountInv(s), s \notin miscounted, toClient # <<>>,
           toClient' = Tail(toClient), Head(toClient) \in Replies(s), Answered(s)
    PROVE  Lacks(Out, Binds(s)) /\ Lacks(toClient', Replies(s))
<1>1. PICK n, l : n = HowMany(Out, Binds(s)) /\ l = HowMany(toClient', Replies(s))
  OBVIOUS
<1>2. n \in Nat /\ l \in Nat
  BY <1>1, OutType, SpotsFinite, HeardFacts
<1>3. HowMany(toClient, Replies(s)) = l + 1
  BY <1>1, HeardFacts
<1>4. unanswered[s] = n + (l + 1) /\ unanswered[s] <= 1
  BY <1>1, <1>3 DEF CountInv, Answered
<1>5. n = 0 /\ l = 0
  BY <1>2, <1>4
<1> QED
  BY <1>1, <1>5, OutType, HowManyNone, HeardFacts

\* What hearing leaves of a service's own invariants.
LEMMA ClientOwn ==
    ASSUME TypeOK, NEW s \in Services, ServiceInv(s), toClient # <<>>, toClient' = Tail(toClient),
           Head(toClient) \in Tells(s), Out' = Out, CountInv(s)', HeldInv(s)',
           Answered(s) /\ Head(toClient) \in Truth(s) /\ exposed[s] # Absent =>
               ids'[s] = bound[s] /\ (bound[s] = NoId => s \in failed'),
           UNCHANGED <<exposed, bound, given, lastId, lost>>
    PROVE  ServiceInv(s)'
<1>1. Wish(s)' = Wish(s) /\ Truth(s)' = Truth(s) /\ Good(s)' = Good(s)
  BY DEF Wish, Truth, Good
<1>2. AskInv(s)'
  BY <1>1 DEF ServiceInv, AskInv
<1>3. Free(Out, s, bound[s])'
  BY DEF ServiceInv
<1>4. WordInv(s)'
  <2> SUFFICES ASSUME Lacks(Out, Binds(s)), exposed[s] # Absent, s \notin lost
               PROVE  \/ Lasts(toClient', Tells(s), Truth(s))
                      \/ /\ Lacks(toClient', Tells(s)) /\ ids'[s] = bound[s]
                         /\ bound[s] = NoId => s \in failed'
    BY <1>1 DEF WordInv
  <2>1. ~Lacks(toClient, Tells(s))
    BY HeardFacts
  <2>2. Lasts(toClient, Tells(s), Truth(s))
    BY <2>1 DEF ServiceInv, WordInv
  <2>3. \/ Lasts(toClient', Tells(s), Truth(s))
        \/ Head(toClient) \in Truth(s) /\ Lacks(toClient', Tells(s))
    BY <2>2, HeardFacts
  <2>4. Lacks(toClient', Tells(s)) => Answered(s)
    BY LastIsAnswered DEF ServiceInv
  <2> QED
    BY <2>3, <2>4
<1>5. GoodInv(s)'
  <2>1. /\ Lasts(toClient, Replies(s), Good(s)) =>
               Lasts(toClient', Replies(s), Good(s)) \/ Lacks(toClient', Replies(s))
        /\ Lacks(toClient, Replies(s)) => Lacks(toClient', Replies(s))
    BY HeardFacts
  <2> QED
    BY <1>1, <2>1 DEF ServiceInv, GoodInv
<1> QED
  BY <1>2, <1>3, <1>4, <1>5 DEF ServiceInv

\* The service of a Bound that the client hears, ...
LEMMA HeardBound ==
    ASSUME TypeOK, OwnInv, NEW s \in Services, ServiceInv(s), toClient # <<>>,
           toClient' = Tail(toClient), Head(toClient).service = s, HearBound(Head(toClient)),
           Out' = Out, UNCHANGED <<exposed, bound, given, lastId, lost>>
    PROVE  ServiceInv(s)'
<1>1. PICK m : m = Head(toClient)
  OBVIOUS
<1>2. /\ m \in Answering /\ m.op = "bound" /\ m.service = s /\ m.id \in 1..MaxId
      /\ m \in Tells(s) /\ m \in Replies(s)
  <2>1. m \in Answering /\ m.op = "bound" /\ m.service = s
    BY <1>1, TailIs DEF TypeOK, HearBound
  <2> QED
    BY <2>1, AnswerKinds DEF Tells, Replies
<1>3. miscounted' = miscounted /\ Count(s)
  BY <1>1, <1>2 DEF HearBound
<1>4. unanswered'[s] = IF unanswered[s] = 0 THEN 0 ELSE unanswered[s] - 1
  BY <1>3 DEF Count, TypeOK
<1>5. CountInv(s)'
  BY <1>1, <1>2, <1>3, <1>4, CountHeard DEF ServiceInv
<1>6. m.id <= lastId
  <2>1. 1 \in DOMAIN toClient /\ toClient[1] = m
    BY <1>1, TailIs DEF TypeOK
  <2> QED
    BY <1>2, <2>1 DEF OwnInv
<1>7. CASE Answered(s) /\ exposed[s] # Absent
  <2>1. ids' = [ids EXCEPT ![s] = m.id]
    BY <1>1, <1>2, <1>7 DEF HearBound
  <2>2. ids'[s] = m.id
    BY <2>1 DEF TypeOK
  <2>3. s \notin miscounted => given[m.id] = exposed[s]
    <3> SUFFICES ASSUME s \notin miscounted PROVE given[m.id] = exposed[s]
      OBVIOUS
    <3>1. Lacks(Out, Binds(s)) /\ Lacks(toClient', Replies(s))
      BY <1>1, <1>2, <1>7, AnsweredIsLast DEF ServiceInv
    <3>2. ~Lacks(toClient, Replies(s))
      BY <1>1, <1>2, HeardFacts
    <3>3. Lasts(toClient, Replies(s), Good(s))
      BY <1>7, <3>1, <3>2 DEF ServiceInv, GoodInv
    <3>4. ~Lasts(toClient', Replies(s), Good(s))
      BY <3>1, GoodIs, LastsIsThere
    <3>5. m \in Good(s)
      BY <1>1, <3>3, <3>4, HeardFacts
    <3> QED
      BY <1>2, <3>5 DEF Good
  <2>4. HeldInv(s)'
    BY <1>3, <1>6, <1>7, <2>2, <2>3 DEF ServiceInv, HeldInv
  <2>5. m \in Truth(s) => bound[s] = m.id /\ bound[s] # NoId
    BY <1>2 DEF Truth
  <2> QED
    BY <1>1, <1>2, <1>5, <2>2, <2>4, <2>5, ClientOwn
<1>8. CASE ~(Answered(s) /\ exposed[s] # Absent)
  <2>1. UNCHANGED <<ids, failed>>
    BY <1>1, <1>2, <1>8 DEF HearBound
  <2>2. HeldInv(s)'
    BY <1>3, <2>1 DEF ServiceInv, HeldInv
  <2> QED
    BY <1>1, <1>2, <1>5, <1>8, <2>2, ClientOwn
<1> QED
  BY <1>7, <1>8

\* ... and of a BindFailed.
LEMMA HeardFailed ==
    ASSUME TypeOK, NEW s \in Services, ServiceInv(s), toClient # <<>>,
           toClient' = Tail(toClient), Head(toClient).service = s, HearFailed(Head(toClient)),
           Out' = Out, UNCHANGED <<exposed, bound, given, lastId, lost>>
    PROVE  ServiceInv(s)'
<1>1. PICK m : m = Head(toClient)
  OBVIOUS
<1>2. /\ m \in Answering /\ m.op = "failed" /\ m.service = s /\ m.asked \in BOOLEAN
      /\ m \in Tells(s) /\ (m \in Replies(s) <=> m.asked)
  <2>1. m \in Answering /\ m.op = "failed" /\ m.service = s
    BY <1>1, TailIs DEF TypeOK, HearFailed
  <2> QED
    BY <2>1, AnswerKinds DEF Tells, Replies
<1>3. /\ s \in miscounted => s \in miscounted'
      /\ ~m.asked /\ unanswered[s] > 0 => s \in miscounted'
      /\ Count(s)
  BY <1>1, <1>2 DEF HearFailed
<1>4. unanswered'[s] = IF unanswered[s] = 0 THEN 0 ELSE unanswered[s] - 1
  BY <1>3 DEF Count, TypeOK
<1>5. CountInv(s)'
  BY <1>1, <1>2, <1>3, <1>4, CountHeard DEF ServiceInv
<1>6. CASE Answered(s)
  <2>1. ids' = [ids EXCEPT ![s] = NoId] /\ failed' = failed \cup {s}
    BY <1>1, <1>2, <1>6 DEF HearFailed
  <2>2. ids'[s] = NoId /\ s \in failed'
    BY <2>1 DEF TypeOK
  <2>3. NoId <= lastId
    BY DEF TypeOK, NoId
  <2>4. HeldInv(s)'
    BY <2>2, <2>3 DEF ServiceInv, HeldInv
  <2>5. m \in Truth(s) => bound[s] = NoId
    BY <1>2 DEF Truth
  <2> QED
    BY <1>1, <1>2, <1>5, <2>2, <2>4, <2>5, ClientOwn
<1>7. CASE ~Answered(s)
  <2>1. UNCHANGED <<ids, failed>>
    BY <1>1, <1>2, <1>7 DEF HearFailed
  <2>2. HeldInv(s)'
    BY <1>3, <2>1 DEF ServiceInv, HeldInv
  <2> QED
    BY <1>1, <1>2, <1>5, <1>7, <2>2, ClientOwn
<1> QED
  BY <1>6, <1>7

\* Ids stay one service's when the head of the answers is heard, and its id is its
\* service's or nobody's.
LEMMA OwnHeard ==
    ASSUME TypeOK, OwnInv, toClient # <<>>, toClient' = Tail(toClient), UNCHANGED lastId,
           NEW t \in Services, \A s \in Services : s # t => ids'[s] = ids[s],
           \/ ids'[t] = ids[t] \/ ids'[t] = NoId
           \/ Head(toClient).op = "bound" /\ Head(toClient).service = t /\ ids'[t] = Head(toClient).id
    PROVE  OwnInv'
<1>1. PICK q, r, n : q = toClient /\ r = toClient' /\ n = Len(toClient)
  OBVIOUS
<1>2. /\ n \in Nat /\ n >= 1 /\ DOMAIN q = 1..n /\ DOMAIN r = 1..(n - 1) /\ Head(toClient) = q[1]
      /\ \A i \in 1..(n - 1) : r[i] = q[i + 1]
  BY <1>1, TailIs DEF TypeOK
<1>3. /\ \A s, u \in Services : ids[s] = ids[u] /\ ids[s] # NoId => s = u
      /\ \A i \in DOMAIN q : q[i].op = "bound" =>
            /\ q[i].id <= lastId
            /\ \A s \in Services : ids[s] = q[i].id => s = q[i].service
            /\ \A j \in DOMAIN q : q[j].op = "bound" /\ q[i].id = q[j].id =>
                                       q[i].service = q[j].service
  BY <1>1 DEF OwnInv
<1>4. \A i \in DOMAIN r : \E k \in DOMAIN q : r[i] = q[k]
  <2> SUFFICES ASSUME NEW i \in DOMAIN r PROVE \E k \in DOMAIN q : r[i] = q[k]
    OBVIOUS
  <2>1. i + 1 \in DOMAIN q /\ r[i] = q[i + 1]
    BY <1>2
  <2> QED
    BY <2>1
<1>5. \A i \in DOMAIN q : q[i].op = "bound" => q[i].id # NoId
  <2> SUFFICES ASSUME NEW i \in DOMAIN q, q[i].op = "bound" PROVE q[i].id # NoId
    OBVIOUS
  <2>1. q[i] \in Answering
    BY <1>1, ElementOfSeq DEF TypeOK
  <2>2. q[i].id \in 1..MaxId
    BY <2>1, AnswerKinds
  <2> QED
    BY <2>2 DEF NoId
<1>6. 1 \in DOMAIN q
  BY <1>2
<1>7. ASSUME NEW k \in DOMAIN q, q[k].op = "bound", NEW s \in Services, ids'[s] = q[k].id
      PROVE  s = q[k].service
  <2>1. CASE ids'[s] = ids[s]
    <3>1. ids[s] = q[k].id
      BY <1>7, <2>1
    <3>2. \A x \in Services : ids[x] = q[k].id => x = q[k].service
      BY <1>3, <1>7
    <3> QED
      BY <3>1, <3>2
  <2>2. CASE s = t /\ ids'[t] = NoId
    BY <1>5, <1>7, <2>2
  <2>3. CASE s = t /\ q[1].op = "bound" /\ q[1].service = t /\ ids'[t] = q[1].id
    BY <1>3, <1>6, <1>7, <2>3
  <2> QED
    BY <1>2, <2>1, <2>2, <2>3
<1>8. ASSUME NEW s \in Services, NEW u \in Services, ids'[s] = ids'[u], ids'[s] # NoId PROVE s = u
  <2>1. CASE q[1].op = "bound" /\ q[1].service = t /\ ids'[t] = q[1].id
    <3>1. CASE s = t
      <4>1. u = q[1].service
        BY <1>6, <1>7, <1>8, <2>1, <3>1
      <4> QED
        BY <2>1, <3>1, <4>1
    <3>2. CASE u = t
      <4>1. s = q[1].service
        BY <1>6, <1>7, <1>8, <2>1, <3>2
      <4> QED
        BY <2>1, <3>2, <4>1
    <3>3. CASE s # t /\ u # t
      BY <1>3, <1>8, <3>3
    <3> QED
      BY <3>1, <3>2, <3>3
  <2>2. CASE ids'[t] = ids[t]
    <3>1. ids'[s] = ids[s] /\ ids'[u] = ids[u]
      BY <2>2
    <3>3. ids[s] = ids[u] /\ ids[s] # NoId
      BY <1>8, <3>1
    <3> QED
      BY <1>3, <3>3
  <2>3. CASE ids'[t] = NoId
    <3>1. s # t /\ u # t
      BY <1>8, <2>3
    <3>2. ids'[s] = ids[s] /\ ids'[u] = ids[u]
      BY <3>1
    <3>3. ids[s] = ids[u] /\ ids[s] # NoId
      BY <1>8, <3>2
    <3> QED
      BY <1>3, <3>3
  <2> QED
    BY <1>2, <2>1, <2>2, <2>3
<1>9. ASSUME NEW i \in DOMAIN r, r[i].op = "bound"
      PROVE  /\ r[i].id <= lastId'
             /\ \A s \in Services : ids'[s] = r[i].id => s = r[i].service
             /\ \A j \in DOMAIN r : r[j].op = "bound" /\ r[i].id = r[j].id =>
                                        r[i].service = r[j].service
  BY <1>3, <1>4, <1>7, <1>9
<1> QED
  BY <1>1, <1>8, <1>9 DEF OwnInv

\* A service's target goes with its id.
LEMMA TargetForget ==
    ASSUME TypeOK, OwnInv, TargetInv, NEW ss \in SUBSET Services, NEW i \in 1..MaxId
    PROVE  Forget(ss)[i] # Absent <=> \E s \in Services \ ss : ids[s] = i
<1>1. Forget(ss)[i] = IF \E s \in ss : ids[s] = i THEN Absent ELSE targets[i]
  BY DEF Forget
<1>2. i # NoId
  BY DEF NoId
<1>3. targets[i] # Absent <=> \E s \in Services : ids[s] = i
  BY DEF TargetInv
<1>4. \A s, u \in Services : ids[s] = i /\ ids[u] = i => s = u
  BY <1>2 DEF OwnInv
<1> QED
  BY <1>1, <1>3, <1>4

\* The client hears an answer.
LEMMA ClientHearsStep ==
    ASSUME TypeOK, UpInv, ClientHears
    PROVE  UpInv'
<1>0. link = "up" /\ OwnInv /\ TargetInv /\ (\A s \in Services : ServiceInv(s))
  BY DEF ClientHears, UpInv
<1>1. PICK m : m = Head(toClient)
  OBVIOUS
<1>2. /\ toClient # <<>> /\ toClient' = Tail(toClient)
      /\ UNCHANGED <<link, exposed, pending, toServer, bound, given, lastId, lost>>
      /\ HearBound(m) \/ HearFailed(m)
  BY <1>1 DEF ClientHears, serverVars
<1>3. PICK t : t = m.service
  OBVIOUS
<1>4. m \in Answering /\ t \in Services /\ Out' = Out
  BY <1>1, <1>2, <1>3, TailIs, AnswerKinds DEF TypeOK, Out
<1>5. PICK x : x = Forget({t})
  OBVIOUS
<1>6. x \in [1..MaxId -> Settings \cup {Absent}]
  BY <1>5 DEF Forget, TypeOK
<1>7. \A i \in 1..MaxId : x[i] # Absent <=> \E s \in Services : s # t /\ ids[s] = i
  <2>1. {t} \in SUBSET Services
    BY <1>4
  <2>2. \A i \in 1..MaxId : x[i] # Absent <=> \E s \in Services \ {t} : ids[s] = i
    BY <1>0, <1>5, <2>1, TargetForget
  <2> QED
    BY <2>2
<1>8. /\ \A s \in Services : s # t => /\ ids'[s] = ids[s] /\ unanswered'[s] = unanswered[s]
                                      /\ s \in failed => s \in failed'
      /\ miscounted \subseteq miscounted'
  <2>1. Count(t)
    BY <1>2, <1>3 DEF HearBound, HearFailed
  <2>2. \A s \in Services : s # t => unanswered'[s] = unanswered[s]
    BY <1>4, <2>1 DEF Count, TypeOK
  <2>3. PICK j : ids' \in {ids, [ids EXCEPT ![t] = j]}
    <3>1. CASE HearBound(m)
      BY <1>3, <3>1 DEF HearBound
    <3>2. CASE HearFailed(m)
      BY <1>3, <3>2 DEF HearFailed
    <3> QED
      BY <1>2, <3>1, <3>2
  <2>4. \A s \in Services : s # t => ids'[s] = ids[s]
    BY <1>4, <2>3 DEF TypeOK
  <2>5. \A s \in Services : s # t /\ s \in failed => s \in failed'
    <3>1. CASE HearBound(m)
      BY <1>3, <3>1 DEF HearBound
    <3>2. CASE HearFailed(m)
      BY <1>3, <3>2 DEF HearFailed
    <3> QED
      BY <1>2, <3>1, <3>2
  <2>6. miscounted \subseteq miscounted'
    BY <1>2 DEF HearBound, HearFailed
  <2> QED
    BY <2>2, <2>4, <2>5, <2>6
<1>9. \/ m.op = "bound" /\ m.id \in 1..MaxId /\ ids'[t] = m.id /\ exposed[t] # Absent
         /\ targets' = [x EXCEPT ![m.id] = exposed[t]]
      \/ ids'[t] = NoId /\ targets' = x
      \/ ids'[t] = ids[t] /\ UNCHANGED targets
  <2>1. CASE HearBound(m)
    <3>0. m.op = "bound" /\ m.id \in 1..MaxId
      BY <1>4, <2>1, AnswerKinds DEF HearBound
    <3>1. CASE Answered(t) /\ exposed[t] # Absent
      <4>1. ids' = [ids EXCEPT ![t] = m.id] /\ targets' = [x EXCEPT ![m.id] = exposed[t]]
        BY <1>3, <1>5, <2>1, <3>1 DEF HearBound
      <4>2. ids'[t] = m.id
        BY <1>4, <4>1 DEF TypeOK
      <4> QED
        BY <3>0, <3>1, <4>1, <4>2
    <3>2. CASE ~(Answered(t) /\ exposed[t] # Absent)
      BY <1>3, <2>1, <3>2 DEF HearBound
    <3> QED
      BY <3>1, <3>2
  <2>2. CASE HearFailed(m)
    <3>1. CASE Answered(t)
      <4>1. ids' = [ids EXCEPT ![t] = NoId] /\ targets' = x
        BY <1>3, <1>5, <2>2, <3>1 DEF HearFailed
      <4> QED
        BY <1>4, <4>1 DEF TypeOK
    <3>2. CASE ~Answered(t)
      BY <1>3, <2>2, <3>2 DEF HearFailed
    <3> QED
      BY <3>1, <3>2
  <2> QED
    BY <1>2, <2>1, <2>2
<1>10. OwnInv'
  BY <1>0, <1>1, <1>2, <1>3, <1>4, <1>8, <1>9, OwnHeard
<1>11. TargetInv'
  <2>1. CASE m.op = "bound" /\ m.id \in 1..MaxId /\ ids'[t] = m.id /\ exposed[t] # Absent
             /\ targets' = [x EXCEPT ![m.id] = exposed[t]]
    <3>1. targets'[m.id] # Absent /\ \A i \in 1..MaxId : i # m.id => targets'[i] = x[i]
      BY <1>6, <2>1
    <3> QED
      BY <1>4, <1>7, <1>8, <2>1, <3>1 DEF TargetInv
  <2>2. CASE ids'[t] = NoId /\ targets' = x
    <3>1. \A i \in 1..MaxId : i # NoId
      BY DEF NoId
    <3> QED
      BY <1>4, <1>7, <1>8, <2>2, <3>1 DEF TargetInv
  <2>3. CASE ids'[t] = ids[t] /\ UNCHANGED targets
    <3>1. \A s \in Services : ids'[s] = ids[s]
      BY <1>8, <2>3
    <3> QED
      BY <1>0, <2>3, <3>1 DEF TargetInv
  <2> QED
    BY <1>9, <2>1, <2>2, <2>3
<1>12. ServiceInv(t)'
  BY <1>0, <1>1, <1>2, <1>3, <1>4, HeardBound, HeardFailed
<1>13. ASSUME NEW s \in Services, s # t PROVE ServiceInv(s)'
  <2>1. Head(toClient) \notin Tells(s)
    BY <1>1, <1>3, <1>13 DEF Tells
  <2> QED
    BY <1>0, <1>2, <1>4, <1>8, <1>13, <2>1, ClientOther
<1> QED
  BY <1>10, <1>11, <1>12, <1>13 DEF UpInv

-----------------------------------------------------------------------------
(* Reloads. *)
LEMMA RegrantStep ==
    ASSUME TypeOK, UpInv, Regrant
    PROVE  UpInv'
<1>0. link = "up" /\ OwnInv /\ TargetInv /\ (\A s \in Services : ServiceInv(s)) /\ lost = {}
  BY DEF Regrant, UpInv
<1>1. UNCHANGED <<link, exposed, ids, failed, unanswered, pending, targets, miscounted, toServer,
                  toClient, given, lastId>>
  BY DEF Regrant, clientVars
<1>2. /\ \A s \in Services : bound'[s] = IF s \in lost' THEN NoId ELSE bound[s]
  BY DEF Regrant
<1>3. Out' = Out
  BY <1>1 DEF Out
<1>4. OwnInv' /\ TargetInv'
  BY <1>0, <1>1, OwnSame, TargetSame
<1>5. ASSUME NEW s \in Services PROVE ServiceInv(s)'
  <2>0. ServiceInv(s) /\ lastId \in Nat
    BY <1>0 DEF TypeOK
  <2>1. Wish(s)' = Wish(s) /\ Good(s)' = Good(s) /\ (s \notin lost' => Truth(s)' = Truth(s))
    BY <1>1, <1>2 DEF Wish, Good, Truth
  <2>2. CountInv(s)'
    BY <1>1, <1>3, <2>0 DEF ServiceInv, CountInv
  <2>3. AskInv(s)'
    BY <1>1, <1>2, <1>3, <2>0, <2>1 DEF ServiceInv, AskInv
  <2>4. Free(Out, s, bound[s])'
    BY <1>2, <1>3, <2>0, FreeStays DEF ServiceInv
  <2>5. WordInv(s)'
    BY <1>0, <1>1, <1>2, <1>3, <2>0, <2>1 DEF ServiceInv, WordInv
  <2>6. GoodInv(s)'
    BY <1>1, <1>3, <2>0, <2>1 DEF ServiceInv, GoodInv
  <2>7. HeldInv(s)'
    BY <1>1, <1>2, <2>0 DEF ServiceInv, HeldInv, NoId
  <2> QED
    BY <2>2, <2>3, <2>4, <2>5, <2>6, <2>7 DEF ServiceInv
<1> QED
  BY <1>4, <1>5 DEF UpInv

\* The server tells what its reload has dropped.
LEMMA TellLostStep ==
    ASSUME TypeOK, UpInv, TellLost
    PROVE  UpInv'
<1>0. link = "up" /\ OwnInv /\ TargetInv /\ (\A s \in Services : ServiceInv(s))
  BY DEF TellLost, UpInv
<1>1. UNCHANGED <<link, exposed, ids, failed, unanswered, pending, targets, miscounted, toServer,
                  bound, given, lastId>>
  BY DEF TellLost, clientVars
<1>2. PICK t \in lost : /\ Tell([op |-> "failed", service |-> t, asked |-> FALSE])
                        /\ lost' = lost \ {t}
  BY DEF TellLost
<1>3. PICK a : a = [op |-> "failed", service |-> t, asked |-> FALSE]
  OBVIOUS
<1>4. /\ t \in Services /\ a \in Answering /\ a.service = t /\ a.op = "failed"
      /\ a \notin Replies(t) /\ a \in Tells(t) /\ toClient \in Seq(Answering)
  BY <1>3 DEF TypeOK, Answering, Replies, Tells
<1>5. toClient' = Append(toClient, a)
  BY <1>2, <1>3 DEF Tell
<1>6. Out' = Out /\ lastId \in Nat /\ \A s \in Services : ids[s] <= lastId
  BY <1>0, <1>1 DEF Out, TypeOK, ServiceInv, HeldInv
<1>7. OwnInv' /\ TargetInv'
  BY <1>0, <1>1, <1>4, <1>5, <1>6, OwnGrows, TargetSame
<1>8. ASSUME NEW s \in Services PROVE ServiceInv(s)'
  <2>0. ServiceInv(s)
    BY <1>0
  <2>1. Wish(s)' = Wish(s) /\ Good(s)' = Good(s) /\ Truth(s)' = Truth(s)
    BY <1>1 DEF Wish, Good, Truth
  <2>2. a \notin Replies(s)
    BY <1>4 DEF Replies
  <2>3. /\ HowMany(toClient', Replies(s)) = HowMany(toClient, Replies(s))
        /\ Lasts(toClient, Replies(s), Good(s)) => Lasts(toClient', Replies(s), Good(s))
        /\ Lacks(toClient, Replies(s)) => Lacks(toClient', Replies(s))
    <3>1. HowMany(toClient', Replies(s)) = HowMany(toClient, Replies(s)) + 0
      BY <1>4, <1>5, <2>2, HowManyAppend
    <3>2. HowMany(toClient, Replies(s)) \in Nat
      BY <1>4, SpotsFinite
    <3>3. HowMany(toClient', Replies(s)) = HowMany(toClient, Replies(s))
      BY <3>1, <3>2
    <3>4. /\ Lasts(toClient, Replies(s), Good(s)) => Lasts(toClient', Replies(s), Good(s))
          /\ Lacks(toClient, Replies(s)) => Lacks(toClient', Replies(s))
      BY <1>4, <1>5, <2>2, LastsPassed
    <3> QED
      BY <3>3, <3>4
  <2>4. CountInv(s)'
    BY <1>1, <1>6, <2>0, <2>3 DEF ServiceInv, CountInv
  <2>5. AskInv(s)'
    BY <1>1, <1>6, <2>0, <2>1 DEF ServiceInv, AskInv
  <2>6. Free(Out, s, bound[s])'
    BY <1>1, <1>6, <2>0 DEF ServiceInv
  <2>7. WordInv(s)'
    <3>1. CASE s = t
      <4>1. bound[s] = NoId
        BY <2>0, <3>1 DEF ServiceInv, HeldInv
      <4>2. a \in Truth(s)
        BY <1>4, <3>1, <4>1 DEF Truth
      <4>3. Lasts(toClient', Tells(s), Truth(s))
        BY <1>4, <1>5, <4>2, LastsAppend
      <4> QED
        BY <2>1, <4>3 DEF WordInv
    <3>2. CASE s # t
      <4>1. /\ Lasts(toClient, Tells(s), Truth(s)) => Lasts(toClient', Tells(s), Truth(s))
            /\ Lacks(toClient, Tells(s)) => Lacks(toClient', Tells(s))
        BY <1>4, <1>5, <3>2, OtherTold
      <4>2. s \in lost => s \in lost'
        BY <1>2, <3>2
      <4> QED
        BY <1>1, <1>6, <2>0, <2>1, <4>1, <4>2 DEF ServiceInv, WordInv
    <3> QED
      BY <3>1, <3>2
  <2>8. GoodInv(s)'
    BY <1>1, <1>6, <2>0, <2>1, <2>3 DEF ServiceInv, GoodInv
  <2>9. HeldInv(s)'
    BY <1>1, <1>2, <2>0 DEF ServiceInv, HeldInv
  <2> QED
    BY <2>4, <2>5, <2>6, <2>7, <2>8, <2>9 DEF ServiceInv
<1> QED
  BY <1>7, <1>8 DEF UpInv

\* A reload of the client adds to the end of what is on its way.
LEMMA OutReexpose ==
    ASSUME TypeOK, Reexpose
    PROVE  Out' = (Out \o UnbindAll(Gone)) \o BindAll(Wants, wanted)
<1>1. PICK u, b : u = UnbindAll(Gone) /\ b = BindAll(Wants, wanted)
  OBVIOUS
<1>2. /\ pending' = (pending \o u) \o b /\ u \in Seq(Asking) /\ b \in Seq(Asking)
      /\ toServer' = toServer /\ toServer \in Seq(Asking) /\ pending \in Seq(Asking)
  BY <1>1, ReexposeIs DEF Reexpose, TypeOK
<1>3. pending \o u \in Seq(Asking)
  BY <1>2, ConcatProperties
<1>4. toServer \o ((pending \o u) \o b) = (toServer \o (pending \o u)) \o b
  BY <1>2, <1>3, ConcatAssociative, SMTT(30)
<1>5. toServer \o (pending \o u) = (toServer \o pending) \o u
  BY <1>2, ConcatAssociative, SMTT(30)
<1> QED
  BY <1>1, <1>2, <1>4, <1>5 DEF Out

\* The client takes up a reload.
LEMMA ReexposeStep ==
    ASSUME TypeOK, UpInv, Reexpose
    PROVE  UpInv'
<1>0. link = "up" /\ OwnInv /\ TargetInv /\ (\A s \in Services : ServiceInv(s))
  BY DEF Reexpose, UpInv
<1>1. /\ UNCHANGED <<link, miscounted, toServer, toClient, bound, given, lastId, lost>>
      /\ exposed' = wanted /\ failed' = {} /\ targets' = Forget(Gone)
      /\ ids' = [s \in Services |-> IF s \in Gone THEN NoId ELSE ids[s]]
      /\ unanswered' = [s \in Services |-> unanswered[s] + IF s \in Wants THEN 1 ELSE 0]
  BY DEF Reexpose, serverVars, Gone, Wants
<1>2. PICK u, b, c : u = UnbindAll(Gone) /\ b = BindAll(Wants, wanted) /\ c = Out \o u
  OBVIOUS
<1>3. Out' = c \o b /\ u \in Seq(Asking) /\ b \in Seq(Asking) /\ Out \in Seq(Asking) /\ c \in Seq(Asking)
  BY <1>2, OutReexpose, ReexposeIs, OutType, ConcatProperties
<1>4. \A s \in Services : ids'[s] = IF s \in Gone THEN NoId ELSE ids[s]
  BY <1>1
<1>5. OwnInv'
  <2>1. \A i \in DOMAIN toClient : toClient[i].op = "bound" => toClient[i].id # NoId
    <3> SUFFICES ASSUME NEW i \in DOMAIN toClient, toClient[i].op = "bound"
                 PROVE  toClient[i].id # NoId
      OBVIOUS
    <3>1. toClient[i] \in Answering
      BY ElementOfSeq DEF TypeOK
    <3>2. toClient[i].id \in 1..MaxId
      BY <3>1, AnswerKinds
    <3> QED
      BY <3>2 DEF NoId
  <2> QED
    BY <1>0, <1>1, <1>4, <2>1 DEF OwnInv
<1>6. TargetInv'
  <2>1. Gone \in SUBSET Services
    BY RebindIs
  <2>2. ASSUME NEW i \in 1..MaxId PROVE targets'[i] # Absent <=> \E s \in Services : ids'[s] = i
    <3>1. targets'[i] # Absent <=> \E s \in Services \ Gone : ids[s] = i
      BY <1>0, <1>1, <2>1, TargetForget
    <3>2. i # NoId
      BY DEF NoId
    <3> QED
      BY <1>4, <3>1, <3>2
  <2> QED
    BY <2>2 DEF TargetInv
<1>7. ASSUME NEW s \in Services PROVE ServiceInv(s)'
  <2>0. ServiceInv(s) /\ exposed[s] \in Settings \cup {Absent} /\ wanted[s] \in Settings \cup {Absent}
    BY <1>0 DEF TypeOK, Expose
  <2>1. /\ s \in Gone <=> exposed[s] # Absent /\ (s \in failed \/ exposed[s] # wanted[s])
        /\ s \in Wants <=> wanted[s] # Absent /\ (s \in failed \/ exposed[s] # wanted[s])
    BY RebindIs DEF Listed
  <2>2. /\ Lacks(u, Binds(s))
        /\ s \notin Gone => Lacks(u, Asks(s))
        /\ s \in Gone => Lasts(u, Asks(s), {Unbind(s)})
    <3>1. Gone \in SUBSET Services
      BY RebindIs
    <3> QED
      BY <1>2, <3>1, UnbindAllFor
  <2>3a. Wants \in SUBSET Services /\ \A r \in Wants : wanted[r] \in Settings
    BY RebindIs, ExposeType DEF TypeOK
  <2>3. s \notin Wants => Lacks(b, Asks(s)) /\ Lacks(b, Binds(s)) /\ HowMany(b, Binds(s)) = 0
    BY <1>2, <2>3a, BindAllOthers
  <2>4. ASSUME s \in Wants
        PROVE  /\ Lasts(b, Asks(s), {Bind(s, wanted[s])}) /\ HowMany(b, Binds(s)) = 1
               /\ ~Lacks(b, Binds(s))
               /\ \A i, j \in DOMAIN b : b[i] \in Binds(s) /\ j # i => b[j] \notin Binds(s)
    BY <1>2, <2>3a, <2>4, BindAllFor
  <2>5. s \notin Wants /\ wanted[s] # Absent =>
            s \notin Gone /\ s \notin failed /\ exposed[s] = wanted[s]
    BY <2>1
  <2>6. Lacks(Out', Binds(s)) => Lacks(Out, Binds(s)) /\ s \notin Wants
    <3>1. Lacks(Out', Binds(s)) <=> Lacks(c, Binds(s)) /\ Lacks(b, Binds(s))
      BY <1>3, LastsConcat
    <3>2. Lacks(c, Binds(s)) <=> Lacks(Out, Binds(s)) /\ Lacks(u, Binds(s))
      BY <1>2, <1>3, LastsConcat
    <3> QED
      BY <2>4, <3>1, <3>2
  <2>7. CountInv(s)'
    <3>1. HowMany(Out', Binds(s)) = HowMany(c, Binds(s)) + HowMany(b, Binds(s))
      BY <1>3, HowManyConcat
    <3>2. HowMany(c, Binds(s)) = HowMany(Out, Binds(s)) + HowMany(u, Binds(s))
      BY <1>2, <1>3, HowManyConcat
    <3>3. HowMany(u, Binds(s)) = 0
      BY <1>3, <2>2, HowManyNone
    <3>4. HowMany(b, Binds(s)) = IF s \in Wants THEN 1 ELSE 0
      BY <2>3, <2>4
    <3>5. unanswered'[s] = unanswered[s] + IF s \in Wants THEN 1 ELSE 0
      BY <1>1
    <3>6. /\ HowMany(Out, Binds(s)) \in Nat /\ HowMany(toClient, Replies(s)) \in Nat
          /\ unanswered[s] \in Nat
      BY <1>3, SpotsFinite DEF TypeOK
    <3>7. HowMany(Out', Binds(s)) = HowMany(Out, Binds(s)) + IF s \in Wants THEN 1 ELSE 0
      BY <3>1, <3>2, <3>3, <3>4, <3>6
    <3>8. /\ unanswered[s] <= HowMany(Out, Binds(s)) + HowMany(toClient, Replies(s))
          /\ s \in miscounted \/ unanswered[s] = HowMany(Out, Binds(s)) + HowMany(toClient, Replies(s))
      BY <2>0 DEF ServiceInv, CountInv
    <3>9. /\ unanswered'[s] <= HowMany(Out', Binds(s)) + HowMany(toClient, Replies(s))
          /\ s \in miscounted \/ unanswered'[s] = HowMany(Out', Binds(s)) + HowMany(toClient, Replies(s))
      BY <3>5, <3>6, <3>7, <3>8
    <3> QED
      BY <1>1, <3>9 DEF CountInv
  <2>8. AskInv(s)'
    <3>0. Wish(s)' = IF wanted[s] = Absent THEN {Unbind(s)} ELSE {Bind(s, wanted[s])}
      BY <1>1 DEF Wish
    <3>1. CASE s \in Wants
      <4>1. Wish(s)' = {Bind(s, wanted[s])}
        BY <2>1, <3>0, <3>1
      <4>2. Lasts(Out', Asks(s), Wish(s)')
        BY <1>3, <2>4, <3>1, <4>1, LastsConcat
      <4> QED
        BY <4>2 DEF AskInv
    <3>2. CASE s \notin Wants /\ s \in Gone
      <4>1. Wish(s)' = {Unbind(s)}
        BY <2>5, <3>0, <3>2
      <4>2. Lasts(c, Asks(s), {Unbind(s)})
        BY <1>2, <1>3, <2>2, <3>2, LastsConcat
      <4>3. Lasts(Out', Asks(s), Wish(s)')
        BY <1>3, <2>3, <3>2, <4>1, <4>2, LastsConcat
      <4> QED
        BY <4>3 DEF AskInv
    <3>3. CASE s \notin Wants /\ s \notin Gone
      <4>1. exposed[s] = wanted[s]
        BY <2>1, <3>3
      <4>2. Wish(s)' = Wish(s) /\ exposed'[s] = exposed[s]
        BY <1>1, <4>1 DEF Wish
      <4>3. CASE Lasts(Out, Asks(s), Wish(s))
        <5>1. Lasts(c, Asks(s), Wish(s))
          BY <1>2, <1>3, <2>2, <3>3, <4>3, LastsConcat
        <5>2. Lasts(Out', Asks(s), Wish(s))
          BY <1>3, <2>3, <3>3, <5>1, LastsConcat
        <5> QED
          BY <4>2, <5>2 DEF AskInv
      <4>4. CASE /\ Lacks(Out, Asks(s))
                 /\ bound[s] # NoId => exposed[s] # Absent /\ given[bound[s]] = exposed[s]
        <5>1. Lacks(c, Asks(s))
          BY <1>2, <1>3, <2>2, <3>3, <4>4, LastsConcat
        <5>2. Lacks(Out', Asks(s))
          BY <1>3, <2>3, <3>3, <5>1, LastsConcat
        <5> QED
          BY <1>1, <4>2, <4>4, <5>2 DEF AskInv
      <4> QED
        BY <2>0, <4>3, <4>4 DEF ServiceInv, AskInv
    <3> QED
      BY <3>1, <3>2, <3>3
  <2>9. Free(Out, s, bound[s])'
    <3>1. Free(c, s, bound[s])
      <4>1. \A i \in DOMAIN u : u[i] \notin Binds(s)
        BY <2>2 DEF Lacks
      <4> QED
        BY <1>2, <1>3, <2>0, <4>1, FreeMore DEF ServiceInv
    <3>2. s \in Wants => Ends(c, s, bound[s])
      <4>0. \A x : x \in Binds(s) => x \in Asks(s)
        BY DEF Binds, Asks
      <4>1. CASE s \in Gone
        <5>1. Lasts(u, Binds(s), {Unbind(s)})
          BY <2>2, <4>0, <4>1, LastsNarrows
        <5>2. Lasts(c, Binds(s), {Unbind(s)})
          BY <1>2, <1>3, <5>1, LastsConcat
        <5> QED
          BY <5>2 DEF Ends
      <4>2. CASE s \notin Gone /\ s \in Wants
        <5>1. exposed[s] = Absent
          BY <2>1, <4>2
        <5>2. CASE Lasts(Out, Asks(s), Wish(s))
          <6>1. Lasts(Out, Asks(s), {Unbind(s)})
            BY <5>1, <5>2 DEF Wish
          <6>2. Lasts(Out, Binds(s), {Unbind(s)})
            BY <4>0, <6>1, LastsNarrows
          <6>3. Lasts(c, Binds(s), {Unbind(s)})
            BY <1>2, <1>3, <2>2, <6>2, LastsConcat
          <6> QED
            BY <6>3 DEF Ends
        <5>3. CASE Lacks(Out, Asks(s)) /\ (bound[s] # NoId => exposed[s] # Absent)
          <6>1. Lacks(Out, Binds(s))
            BY <4>0, <5>3 DEF Lacks
          <6>2. Lacks(c, Binds(s))
            BY <1>2, <1>3, <2>2, <6>1, LastsConcat
          <6> QED
            BY <5>1, <5>3, <6>2 DEF Ends
        <5> QED
          BY <2>0, <5>2, <5>3 DEF ServiceInv, AskInv
      <4> QED
        BY <4>1, <4>2
    <3>3. \A i \in DOMAIN b : b[i] \in Binds(s) =>
              Ends(c, s, bound[s]) /\ \A j \in DOMAIN b : j # i => b[j] \notin Binds(s)
      <4>1. CASE s \in Wants
        BY <2>4, <3>2, <4>1
      <4>2. CASE s \notin Wants
        BY <2>3, <4>2 DEF Lacks
      <4> QED
        BY <4>1, <4>2
    <3>4. Free(c \o b, s, bound[s])
      BY <1>3, <3>1, <3>3, FreeMore
    <3> QED
      BY <1>1, <1>3, <3>4
  <2>10. Lacks(Out', Binds(s)) /\ wanted[s] # Absent =>
             /\ Lacks(Out, Binds(s)) /\ exposed[s] = wanted[s] /\ exposed[s] # Absent
             /\ s \notin failed /\ ids'[s] = ids[s] /\ exposed'[s] = exposed[s]
    BY <1>1, <1>4, <2>5, <2>6
  <2>11. Truth(s)' = Truth(s)
    BY <1>1 DEF Truth
  <2>12. exposed'[s] = exposed[s] => Good(s)' = Good(s)
    BY <1>1 DEF Good
  <2>13. WordInv(s)'
    <3> SUFFICES ASSUME Lacks(Out', Binds(s)), wanted[s] # Absent
                 PROVE  \/ s \in lost
                        \/ Lasts(toClient, Tells(s), Truth(s))
                        \/ Lacks(toClient, Tells(s)) /\ ids'[s] = bound[s] /\ bound[s] # NoId
      BY <1>1, <2>11 DEF WordInv
    <3> QED
      BY <2>0, <2>10 DEF ServiceInv, WordInv
  <2>14. GoodInv(s)'
    <3> SUFFICES ASSUME Lacks(Out', Binds(s)), wanted[s] # Absent
                 PROVE  Lacks(toClient, Replies(s)) \/ Lasts(toClient, Replies(s), Good(s)')
      BY <1>1 DEF GoodInv
    <3> QED
      BY <2>0, <2>10, <2>12 DEF ServiceInv, GoodInv
  <2>15. HeldInv(s)'
    <3>1. lastId \in Nat /\ bound[s] <= lastId /\ ids[s] <= lastId
      BY <2>0 DEF ServiceInv, HeldInv, TypeOK
    <3>2. ids'[s] <= lastId
      BY <1>4, <3>1 DEF NoId
    <3>3. CASE s \in Gone
      BY <1>1, <1>4, <2>0, <3>1, <3>2, <3>3 DEF ServiceInv, HeldInv
    <3>4. CASE s \notin Gone
      <4>1. exposed[s] # Absent => exposed[s] = wanted[s]
        BY <2>1, <3>4
      <4>2. exposed[s] = Absent => ids[s] = NoId
        BY <2>0 DEF ServiceInv, HeldInv
      <4> QED
        BY <1>1, <1>4, <2>0, <3>1, <3>2, <3>4, <4>1, <4>2 DEF ServiceInv, HeldInv
    <3> QED
      BY <3>3, <3>4
  <2> QED
    BY <2>7, <2>8, <2>9, <2>13, <2>14, <2>15 DEF ServiceInv
<1> QED
  BY <1>5, <1>6, <1>7 DEF UpInv

-----------------------------------------------------------------------------
(* The session from the dial to its end. *)
LEMMA WelcomedStep ==
    ASSUME TypeOK, FreshInv, Welcomed
    PROVE  UpInv'
<1>1. /\ link = "greeting" /\ pending = <<>> /\ toClient = <<>> /\ lastId = 0 /\ lost = {}
      /\ bound = NoIds /\ ids = NoIds /\ miscounted = {}
      /\ unanswered = [s \in Services |-> IF exposed[s] # Absent THEN 1 ELSE 0]
  BY DEF Welcomed, FreshInv
<1>2. /\ targets' = NoTargets
      /\ UNCHANGED <<exposed, ids, failed, unanswered, pending, miscounted, toClient,
                     bound, given, lastId, lost>>
  BY DEF Welcomed, serverVars
<1>3. PICK b, L : b = BindAll(L, exposed) /\ L = Listed(exposed)
  OBVIOUS
<1>4. toServer' = b /\ b \in Seq(Asking) /\ L \in SUBSET Services /\ \A s \in L : exposed[s] \in Settings
  BY <1>3, WelcomedIs
<1>5. Out' = b
  BY <1>1, <1>2, <1>4, ConcatEmptySeq DEF Out
<1>6. toClient' = <<>> /\ DOMAIN toClient' = {}
  BY <1>1, <1>2
<1>7. \A s \in Services : bound'[s] = 0 /\ ids'[s] = 0
  BY <1>1, <1>2 DEF NoIds, NoId
<1>8. OwnInv'
  BY <1>6, <1>7 DEF OwnInv, NoId
<1>9. TargetInv'
  <2>1. \A i \in 1..MaxId : targets'[i] = Absent /\ i # 0
    BY <1>2 DEF NoTargets
  <2> QED
    BY <1>7, <2>1 DEF TargetInv
<1>10. ASSUME NEW s \in Services PROVE ServiceInv(s)'
  <2>1. s \in L <=> exposed[s] # Absent
    BY <1>3 DEF Listed
  <2>2. ASSUME s \in L
        PROVE  /\ Lasts(b, Asks(s), {Bind(s, exposed[s])}) /\ HowMany(b, Binds(s)) = 1
               /\ ~Lacks(b, Binds(s))
               /\ \A i, j \in DOMAIN b : b[i] \in Binds(s) /\ j # i => b[j] \notin Binds(s)
    <3>1. b = BindAll(L, exposed) /\ L \in SUBSET Services /\ \A r \in L : exposed[r] \in Settings
      BY <1>3, <1>4
    <3> QED
      BY <2>2, <3>1, BindAllFor
  <2>3. s \notin L => Lacks(b, Asks(s)) /\ Lacks(b, Binds(s)) /\ HowMany(b, Binds(s)) = 0
    BY <1>3, <1>4, BindAllOthers
  <2>4. CountInv(s)'
    <3>1. unanswered'[s] = IF exposed[s] # Absent THEN 1 ELSE 0
      BY <1>1, <1>2
    <3>2. HowMany(Out', Binds(s)) = IF exposed[s] # Absent THEN 1 ELSE 0
      BY <1>5, <2>1, <2>2, <2>3
    <3>3. HowMany(toClient', Replies(s)) = 0
      <4>1. toClient' \in Seq(Answering) /\ Lacks(toClient', Replies(s))
        BY <1>6, LastsEmpty
      <4> QED
        BY <4>1, HowManyNone
    <3> QED
      BY <3>1, <3>2, <3>3 DEF CountInv
  <2>5. AskInv(s)'
    <3>1. CASE exposed[s] # Absent
      <4>1. Wish(s)' = {Bind(s, exposed[s])}
        BY <1>2, <3>1 DEF Wish
      <4>2. Lasts(Out', Asks(s), Wish(s)')
        BY <1>5, <2>1, <2>2, <3>1, <4>1
      <4> QED
        BY <4>2 DEF AskInv
    <3>2. CASE exposed[s] = Absent
      <4>1. Lacks(Out', Asks(s)) /\ bound'[s] = NoId
        BY <1>5, <1>7, <2>1, <2>3, <3>2 DEF NoId
      <4> QED
        BY <4>1 DEF AskInv
    <3> QED
      BY <3>1, <3>2
  <2>6. Free(Out, s, bound[s])'
    <3>1. ASSUME NEW j \in DOMAIN b, b[j] \in Binds(s) PROVE FreeBefore(b, s, NoId, j)
      <4>1. s \in L
        BY <2>3, <3>1 DEF Lacks
      <4>2. DOMAIN b = 1..Len(b)
        BY <1>4
      <4>3. \A i \in DOMAIN b : i < j => i # j
        BY <4>2
      <4> QED
        BY <2>2, <3>1, <4>1, <4>3 DEF FreeBefore
    <3> QED
      BY <1>5, <1>7, <3>1 DEF Free, NoId
  <2>7. Lacks(Out', Binds(s)) => exposed'[s] = Absent
    BY <1>2, <1>5, <2>1, <2>2
  <2>8. WordInv(s)' /\ GoodInv(s)'
    BY <2>7 DEF WordInv, GoodInv
  <2>9. HeldInv(s)'
    BY <1>1, <1>2, <1>7 DEF HeldInv, NoId
  <2> QED
    BY <2>4, <2>5, <2>6, <2>8, <2>9 DEF ServiceInv
<1> QED
  BY <1>8, <1>9, <1>10 DEF UpInv

\* A message that is sent stays where it is in the order.
LEMMA ClientSendsStep ==
    ASSUME TypeOK, UpInv, ClientSends
    PROVE  UpInv'
<1>1. /\ link = "up" /\ pending # <<>> /\ toServer' = Append(toServer, Head(pending))
      /\ pending' = Tail(pending)
      /\ UNCHANGED <<exposed, ids, failed, unanswered, targets, miscounted, toClient,
                     bound, given, lastId, lost>>
  BY DEF ClientSends, serverVars
<1>2. PICK h, t : h = Head(pending) /\ t = Tail(pending)
  OBVIOUS
<1>3. /\ h \in Asking /\ t \in Seq(Asking) /\ <<h>> \in Seq(Asking)
      /\ toServer \in Seq(Asking) /\ pending \in Seq(Asking)
  BY <1>1, <1>2, TailIs DEF TypeOK
<1>4. pending = <<h>> \o t
  BY <1>1, <1>2, <1>3
<1>5. Append(toServer, h) = toServer \o <<h>>
  BY <1>3, AppendIsConcat
<1>6. toServer \o (<<h>> \o t) = (toServer \o <<h>>) \o t
  BY <1>3, ConcatAssociative, SMTT(30)
<1>7. Out' = Out
  BY <1>1, <1>2, <1>4, <1>5, <1>6 DEF Out
<1>8. OwnInv /\ TargetInv /\ \A s \in Services : ServiceInv(s)
  BY <1>1 DEF UpInv
<1>9. OwnInv' /\ TargetInv'
  BY <1>1, <1>8, OwnSame, TargetSame
<1>10. ASSUME NEW s \in Services PROVE ServiceInv(s)'
  BY <1>1, <1>7, <1>8, ServiceSame
<1> QED
  BY <1>9, <1>10 DEF UpInv

\* A reload on either end changes nothing that the session holds.
LEMMA UpSame ==
    ASSUME UpInv, UNCHANGED <<link, clientVars, toServer, toClient, serverVars>>
    PROVE  UpInv'
<1>1. UNCHANGED <<link, exposed, ids, failed, unanswered, pending, targets, miscounted,
                  toServer, toClient, bound, given, lastId, lost>>
  BY DEF clientVars, serverVars
<1> SUFFICES ASSUME link = "up" PROVE OwnInv' /\ TargetInv' /\ \A s \in Services : ServiceInv(s)'
  BY <1>1 DEF UpInv
<1>2. OwnInv /\ TargetInv /\ \A s \in Services : ServiceInv(s)
  BY DEF UpInv
<1>3. Out' = Out
  BY <1>1 DEF Out
<1>4. OwnInv' /\ TargetInv'
  BY <1>1, <1>2, OwnSame, TargetSame
<1>5. ASSUME NEW s \in Services PROVE ServiceInv(s)'
  BY <1>1, <1>2, <1>3, ServiceSame
<1> QED
  BY <1>4, <1>5

-----------------------------------------------------------------------------
(* The invariant holds at the start, and every step keeps it. *)
LEMMA ControlStart == Init => ControlInv
<1> SUFFICES ASSUME Init PROVE ControlInv
  OBVIOUS
<1>1. TypeOK
  <2>1. /\ ids \in [Services -> 0..MaxId] /\ bound \in [Services -> 0..MaxId]
        /\ unanswered \in [Services -> Nat]
        /\ targets \in [1..MaxId -> Settings \cup {Absent}]
        /\ given \in [1..MaxId -> Settings \cup {Absent}]
    BY ProtocolAssumption DEF Init, NoIds, NoTargets, NoId
  <2>2. pending \in Seq(Asking) /\ toServer \in Seq(Asking) /\ toClient \in Seq(Answering)
    BY DEF Init
  <2>3. /\ lastId \in 0..MaxId /\ reexposes \in 0..MaxReexposes
        /\ regrants \in 0..MaxRegrants /\ started \in 0..MaxSessions
    BY ProtocolAssumption DEF Init
  <2>4. /\ wanted \in Expose /\ exposed \in Expose /\ unread \in BOOLEAN /\ changed \in BOOLEAN
        /\ link \in {"down", "greeting", "up"} /\ grant \in SUBSET Settings
        /\ policy \in SUBSET Settings
    BY ProtocolAssumption DEF Init
  <2>5. failed = {} /\ lost = {} /\ miscounted = {}
    BY DEF Init
  <2> QED
    BY <2>1, <2>2, <2>3, <2>4, <2>5 DEF TypeOK
<1> QED
  BY <1>1 DEF Init, ControlInv, FreshInv, UpInv

\* Every step keeps what is said of a session that is up, ...
LEMMA ControlUp == ControlInv /\ [Next]_vars => UpInv'
<1> SUFFICES ASSUME ControlInv, [Next]_vars PROVE UpInv'
  OBVIOUS
<1>0. TypeOK /\ FreshInv /\ UpInv
  BY DEF ControlInv
<1>1. CASE Dial
  BY <1>1 DEF Dial, UpInv
<1>2. CASE Welcomed
  BY <1>0, <1>2, WelcomedStep
<1>3. CASE Reexpose
  BY <1>0, <1>3, ReexposeStep
<1>4. CASE ClientSends
  BY <1>0, <1>4, ClientSendsStep
<1>5. CASE ClientHears
  BY <1>0, <1>5, ClientHearsStep
<1>6. CASE ServerHears
  BY <1>0, <1>6, ServerHearsStep
<1>7. CASE Regrant
  BY <1>0, <1>7, RegrantStep
<1>8. CASE TellLost
  BY <1>0, <1>8, TellLostStep
<1>9. CASE SessionEnds
  BY <1>9 DEF SessionEnds, UpInv
<1>10. ASSUME NEW e \in Expose, ReloadClient(e) PROVE UpInv'
  BY <1>0, <1>10, UpSame DEF ReloadClient
<1>11. ASSUME NEW g \in SUBSET Settings, ReloadServer(g) PROVE UpInv'
  BY <1>0, <1>11, UpSame DEF ReloadServer
<1>12. CASE UNCHANGED vars
  BY <1>0, <1>12, UpSame DEF vars
<1> QED
  BY <1>1, <1>2, <1>3, <1>4, <1>5, <1>6, <1>7, <1>8, <1>9, <1>10, <1>11, <1>12
  DEF Next, Work, Over

\* ... and of one that is not, and what the client knows of its config.
LEMMA ControlFresh ==
    ControlInv /\ [Next]_vars => FreshInv' /\ (link' # "down" /\ ~unread' => exposed' = wanted')
<1> SUFFICES ASSUME ControlInv, [Next]_vars
             PROVE  FreshInv' /\ (link' # "down" /\ ~unread' => exposed' = wanted')
  OBVIOUS
<1>0. FreshInv /\ (link # "down" /\ ~unread => exposed = wanted)
  BY DEF ControlInv
<1>1. CASE Dial
  BY <1>0, <1>1 DEF Dial, FreshInv, config
<1>2. CASE Welcomed
  BY <1>0, <1>2 DEF Welcomed, FreshInv, config
<1>3. CASE link = "up" /\ link' = "up" /\ UNCHANGED <<exposed, wanted, unread>>
  BY <1>0, <1>3 DEF FreshInv
<1>4. CASE Reexpose
  BY <1>4 DEF Reexpose, FreshInv, config
<1>5. CASE SessionEnds
  BY <1>5 DEF SessionEnds, FreshInv
<1>6. ASSUME NEW e \in Expose, ReloadClient(e)
      PROVE  FreshInv' /\ (link' # "down" /\ ~unread' => exposed' = wanted')
  BY <1>0, <1>6 DEF ReloadClient, FreshInv, clientVars, serverVars
<1>7. ASSUME NEW g \in SUBSET Settings, ReloadServer(g)
      PROVE  FreshInv' /\ (link' # "down" /\ ~unread' => exposed' = wanted')
  BY <1>0, <1>7 DEF ReloadServer, FreshInv, clientVars, serverVars, config
<1>8. CASE UNCHANGED vars
  BY <1>0, <1>8 DEF vars, FreshInv, clientVars, serverVars, config
<1>9. CASE ClientSends \/ ClientHears \/ ServerHears \/ Regrant \/ TellLost
  <2>1. link = "up" /\ link' = "up" /\ UNCHANGED <<exposed, wanted, unread>>
    BY <1>9 DEF ClientSends, ClientHears, ServerHears, Regrant, TellLost, config, clientVars
  <2> QED
    BY <1>3, <2>1
<1> QED
  BY <1>1, <1>2, <1>4, <1>5, <1>6, <1>7, <1>8, <1>9 DEF Next, Work, Over

\* Every step keeps the invariant.
LEMMA ControlSteps == ControlInv /\ [Next]_vars => ControlInv'
<1> SUFFICES ASSUME ControlInv, [Next]_vars PROVE ControlInv'
  OBVIOUS
<1>1. TypeOK'
  BY ControlTypes DEF ControlInv
<1>2. UpInv'
  BY ControlUp
<1>3. FreshInv' /\ (link' # "down" /\ ~unread' => exposed' = wanted')
  BY ControlFresh
<1> QED
  BY <1>1, <1>2, <1>3 DEF ControlInv

\* The invariant holds throughout.
LEMMA ControlIsInv == Spec => []ControlInv
BY ControlStart, ControlSteps, PTL DEF Spec

-----------------------------------------------------------------------------
(* What the invariant says of the protocol. *)

\* Types: in particular the count of a service stays a number, however many answers a
\* reload of the server sends unasked (Services::answered, client/mod.rs), and the ids a
\* session gives out stay in their range (bind, server/session.rs).
THEOREM ControlTypesHold == Spec => []TypeOK
<1>1. ControlInv => TypeOK
  BY DEF ControlInv
<1> QED
  BY <1>1, ControlIsInv, PTL

\* When nothing is to be read, sent or told, client and server agree on every service,
\* for every number of services, reloads and sessions: an answer that is dropped because
\* another is to come (heard and Services::answered, client/mod.rs) is never the last
\* one, and a bind that follows an unbind never finds its service still bound (bind,
\* server/session.rs).
THEOREM EndsAgree == Spec => []QuietAgree
<1>1. ASSUME ControlInv, Quiet PROVE exposed = wanted /\ \A s \in Services : Agree(s)
  <2>1. /\ link = "up" /\ ~unread /\ toClient = <<>> /\ lost = {}
        /\ toServer = <<>> /\ pending = <<>>
    BY <1>1 DEF Quiet
  <2>2. Out = <<>>
    BY <2>1, ConcatEmptySeq DEF Out
  <2>3. exposed = wanted
    BY <1>1, <2>1 DEF ControlInv
  <2>4. ASSUME NEW s \in Services PROVE Agree(s)
    <3>1. AskInv(s) /\ WordInv(s) /\ HeldInv(s)
      BY <1>1, <2>1 DEF ControlInv, UpInv, ServiceInv
    <3>2. bound[s] # NoId => exposed[s] # Absent /\ given[bound[s]] = exposed[s]
      BY <2>2, <3>1, LastsEmpty DEF AskInv
    <3>3. exposed[s] # Absent => ids[s] = bound[s] /\ (bound[s] = NoId => s \in failed)
      BY <2>1, <2>2, <3>1, LastsEmpty DEF WordInv
    <3>4. exposed[s] = Absent => ids[s] = NoId
      BY <3>1 DEF HeldInv
    <3> QED
      BY <3>2, <3>3, <3>4 DEF Agree
  <2> QED
    BY <2>3, <2>4
<1>2. ControlInv => QuietAgree
  BY <1>1 DEF QuietAgree
<1> QED
  BY <1>2, ControlIsInv, PTL

\* The client forwards for exactly the ids it holds for services it still wants, and the
\* visitors of an id were admitted under the settings its target was taken from, unless a
\* BindFailed sent unasked upset the count (register_bound, forget and reexpose,
\* client/mod.rs; regrant, server/session.rs).
THEOREM TargetsAreCurrent == Spec => []TargetsCurrent
<1>1. ASSUME ControlInv, link = "up"
      PROVE  /\ {i \in 1..MaxId : targets[i] # Absent} = {ids[s] : s \in Services} \ {NoId}
             /\ \A s \in Services :
                   ids[s] # NoId /\ given[ids[s]] # exposed[s] => s \in miscounted
  <2>1. TargetInv /\ \A s \in Services : HeldInv(s)
    BY <1>1 DEF ControlInv, UpInv, ServiceInv
  <2>2. \A s \in Services : ids[s] \in 0..MaxId
    BY <1>1 DEF ControlInv, TypeOK
  <2>3. \A s \in Services : ids[s] # NoId => ids[s] \in 1..MaxId
    BY <2>2, ProtocolAssumption DEF NoId
  <2>4. NoId \notin 1..MaxId
    BY DEF NoId
  <2>5. {i \in 1..MaxId : targets[i] # Absent} = {ids[s] : s \in Services} \ {NoId}
    BY <2>1, <2>3, <2>4 DEF TargetInv
  <2>6. \A s \in Services : ids[s] # NoId /\ given[ids[s]] # exposed[s] => s \in miscounted
    BY <2>1 DEF HeldInv
  <2> QED
    BY <2>5, <2>6
<1>2. ControlInv => TargetsCurrent
  BY <1>1 DEF TargetsCurrent
<1> QED
  BY <1>2, ControlIsInv, PTL
=============================================================================
