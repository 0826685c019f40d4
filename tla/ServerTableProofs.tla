-------------------------- MODULE ServerTableProofs --------------------------
(***************************************************************************)
(* Theorems about two tables of the server that share nothing.             *)
(*                                                                         *)
(* The session table of a UDP service, for any cap, any number of ids and  *)
(* visitors and any length of time: its three indexes agree and it keeps   *)
(* to its cap, it implements VisitorRouting, and a late packet for a       *)
(* session that is gone reaches nobody else's visitor.                     *)
(*                                                                         *)
(* The admission of connections: what the limiter sets aside, and what it  *)
(* lets through, for any limit, window, table size, addresses and number   *)
(* of connections.                                                         *)
(***************************************************************************)
EXTENDS SessionTable, Admission, FiniteSetTheorems, TLAPS

(***************************************************************************)
(* A table by itself, as `remove', `touch' and an insertion make it.       *)
(***************************************************************************)
Tables == [visitors : [Visitors -> Ids \cup {None}],
           sessions : [Ids -> Entry \cup {Free}],
           ages     : SUBSET (Times \X Ids)]

LiveIn(t) == {i \in Ids : t.sessions[i] # Free}

Agreed(t) ==
    /\ \A i \in LiveIn(t) : t.visitors[t.sessions[i].visitor] = i
    /\ \A v \in Visitors : t.visitors[v] # None =>
           t.visitors[v] \in LiveIn(t) /\ t.sessions[t.visitors[v]].visitor = v
    /\ \A a \in t.ages : a[2] \in LiveIn(t) /\ a[1] = t.sessions[a[2]].used
    /\ \A i \in LiveIn(t) : <<t.sessions[i].used, i>> \in t.ages

Insert(t, v, i) ==
    [visitors |-> [t.visitors EXCEPT ![v] = i],
     sessions |-> [t.sessions EXCEPT ![i] = [visitor |-> v, used |-> clock]],
     ages     |-> t.ages \cup {<<clock, i>>}]

TableInv ==
    /\ clock \in Times /\ nextId \in Ids
    /\ opens \in Seq([session : Ids, visitor : Visitors])
    /\ Table \in Tables /\ Agreed(Table)
    /\ Cardinality(Live) <= IF Cap = 0 THEN 1 ELSE Cap

-----------------------------------------------------------------------------
\* A set of numbers that is not empty has a least one.
LEMMA LeastNumber ==
    ASSUME NEW T \in SUBSET Nat, T # {}
    PROVE  \E x \in T : \A y \in T : x <= y
<1> DEFINE R == OpToRel(<, Nat)
<1>1. IsWellFoundedOn(R, Nat)
  BY NatLessThanWellFounded
<1>2. \A x, y \in Nat : y < x => <<y, x>> \in R
  BY DEF OpToRel
<1> HIDE DEF R
<1>3. PICK x \in T : \A y \in T : ~(<<y, x>> \in R)
  BY <1>1, WFMin
<1>4. ASSUME NEW y \in T PROVE x <= y
  <2>1. x \in Nat /\ y \in Nat /\ ~(<<y, x>> \in R)
    BY <1>3
  <2>2. ~(y < x)
    BY <1>2, <2>1
  <2>3. QED
    BY <2>1, <2>2
<1>5. QED
  BY <1>4

\* The order of a BTreeSet has a front.
LEMMA FirstIsFront ==
    ASSUME NEW ages \in SUBSET (Times \X Ids), ages # {}
    PROVE  First(ages) \in ages
<1> DEFINE times == {a[1] : a \in ages}
<1>1. times \in SUBSET Nat /\ times # {}
  BY TableAssumption DEF Times
<1>2. PICK x \in times : \A y \in times : x <= y
  BY <1>1, LeastNumber
<1> DEFINE ids == {i \in Ids : <<x, i>> \in ages}
<1>3. ids \in SUBSET Nat /\ ids # {}
  BY TableAssumption DEF Ids
<1>4. PICK i \in ids : \A j \in ids : i <= j
  BY <1>3, LeastNumber
<1>5. <<x, i>> \in ages
  OBVIOUS
<1>6. ASSUME NEW b \in ages PROVE <<x, i>> = b \/ Before(<<x, i>>, b)
  <2>1. b = <<b[1], b[2]>> /\ b[1] \in times /\ b[2] \in Ids /\ b[1] \in Nat /\ b[2] \in Nat
    BY <1>6, TableAssumption DEF Times, Ids
  <2>2. x \in Nat /\ i \in Nat /\ x <= b[1]
    BY <1>1, <1>2, <1>3, <2>1
  <2>3. CASE x = b[1]
    <3>1. b[2] \in ids
      BY <1>6, <2>1, <2>3
    <3>2. i <= b[2]
      BY <1>4, <3>1
    <3>3. QED
      BY <2>1, <2>2, <2>3, <3>2 DEF Before
  <2>4. CASE x < b[1]
    BY <2>4 DEF Before
  <2>5. QED
    BY <2>1, <2>2, <2>3, <2>4
<1>7. QED
  BY <1>5, <1>6 DEF First

\* `remove' takes sessions out of the three indexes at once.
LEMMA RemoveAgrees ==
    ASSUME NEW t \in Tables, Agreed(t), NEW S \in SUBSET LiveIn(t)
    PROVE  /\ Remove(t, S) \in Tables /\ Agreed(Remove(t, S))
           /\ LiveIn(Remove(t, S)) = LiveIn(t) \ S
           /\ \A i \in Ids \ S : Remove(t, S).sessions[i] = t.sessions[i]
           /\ \A i \in S : Remove(t, S).sessions[i] = Free
           /\ \A v \in Visitors : t.visitors[v] = None => Remove(t, S).visitors[v] = None
<1> DEFINE r == Remove(t, S)
<1>1. /\ r.visitors = [v \in Visitors |->
                         IF \E i \in S : t.sessions[i].visitor = v THEN None ELSE t.visitors[v]]
      /\ r.sessions = [i \in Ids |-> IF i \in S THEN Free ELSE t.sessions[i]]
      /\ r.ages = t.ages \ {<<t.sessions[i].used, i>> : i \in S}
  BY DEF Remove
<1>2. r \in Tables
  BY DEF Remove, Tables
<1> HIDE DEF r
<1>3. LiveIn(r) = LiveIn(t) \ S
  BY <1>1 DEF LiveIn
<1>4. Agreed(r)
  <2>1. \A i \in LiveIn(t) : t.sessions[i] \in Entry
    BY DEF LiveIn, Tables
  <2>2. \A i \in LiveIn(r) : r.sessions[i] = t.sessions[i] /\ t.sessions[i].visitor \in Visitors
    BY <1>1, <1>3, <2>1 DEF LiveIn, Entry
  <2>3. ASSUME NEW i \in LiveIn(r) PROVE r.visitors[r.sessions[i].visitor] = i
    <3>1. i \in LiveIn(t) \ S /\ t.visitors[t.sessions[i].visitor] = i
      BY <1>3 DEF Agreed
    <3>2. \A j \in S : t.sessions[j].visitor # t.sessions[i].visitor
      BY <3>1 DEF Agreed
    <3>3. PICK u \in Visitors : u = t.sessions[i].visitor
      BY <2>2
    <3>4. r.visitors[u] = t.visitors[u]
      BY <1>1, <3>2, <3>3
    <3>5. QED
      BY <2>2, <3>1, <3>3, <3>4
  <2>4. \A v \in Visitors : r.visitors[v] # None =>
            r.visitors[v] \in LiveIn(r) /\ r.sessions[r.visitors[v]].visitor = v
    BY <1>1, <1>3, <2>2 DEF Agreed
  <2>5. \A a \in r.ages : a[2] \in LiveIn(r) /\ a[1] = r.sessions[a[2]].used
    <3> TAKE a \in r.ages
    <3>1. a \in t.ages /\ a = <<a[1], a[2]>>
      BY <1>1 DEF Tables
    <3>2. a[2] \in LiveIn(t) /\ a[1] = t.sessions[a[2]].used
      BY <3>1 DEF Agreed
    <3>3. a[2] \notin S
      BY <1>1, <3>1, <3>2
    <3>4. QED
      BY <1>3, <2>2, <3>2, <3>3
  <2>6. \A i \in LiveIn(r) : <<r.sessions[i].used, i>> \in r.ages
    BY <1>1, <1>3, <2>2 DEF Agreed
  <2>7. QED
    BY <2>3, <2>4, <2>5, <2>6 DEF Agreed
<1>5. QED
  BY <1>1, <1>2, <1>3, <1>4 DEF r, LiveIn

\* `touch' moves one session to the back of the order.
LEMMA TouchAgrees ==
    ASSUME NEW t \in Tables, Agreed(t), NEW i \in LiveIn(t), clock \in Times
    PROVE  /\ Touch(t, i) \in Tables /\ Agreed(Touch(t, i))
           /\ LiveIn(Touch(t, i)) = LiveIn(t)
           /\ \A j \in Ids : Touch(t, i).sessions[j].visitor = t.sessions[j].visitor
<1> DEFINE r == Touch(t, i)
           e == [t.sessions[i] EXCEPT !.used = clock]
<1>1. i \in Ids /\ t.sessions[i] \in Entry /\ t.sessions \in [Ids -> Entry \cup {Free}]
  BY DEF LiveIn, Tables
<1>2. /\ r.visitors = t.visitors
      /\ r.sessions = [t.sessions EXCEPT ![i] = e]
      /\ r.ages = (t.ages \ {<<t.sessions[i].used, i>>}) \cup {<<clock, i>>}
  BY DEF Touch
<1>3. e \in Entry /\ e # Free /\ e.visitor = t.sessions[i].visitor /\ e.used = clock
  BY <1>1, TableAssumption DEF Entry, Free
<1>4. r \in Tables
  <2>1. r.sessions \in [Ids -> Entry \cup {Free}] /\ r.ages \in SUBSET (Times \X Ids)
    BY <1>1, <1>2, <1>3 DEF Tables
  <2>2. QED
    BY <1>1, <2>1 DEF Touch, Tables
<1> HIDE DEF r, e
<1>5. \A j \in Ids : /\ r.sessions[j].visitor = t.sessions[j].visitor
                     /\ j # i => r.sessions[j] = t.sessions[j]
                     /\ j = i => r.sessions[j] = e
  BY <1>1, <1>2, <1>3
<1>6. LiveIn(r) = LiveIn(t)
  BY <1>3, <1>5 DEF LiveIn
<1>7. Agreed(r)
  <2>1. \A a \in r.ages : a[2] \in LiveIn(r) /\ a[1] = r.sessions[a[2]].used
    <3> TAKE a \in r.ages
    <3>1. CASE a = <<clock, i>>
      BY <1>1, <1>3, <1>5, <1>6, <3>1
    <3>2. CASE a \in t.ages /\ a # <<t.sessions[i].used, i>>
      <4>1. a = <<a[1], a[2]>> /\ a[2] \in LiveIn(t) /\ a[1] = t.sessions[a[2]].used
        BY <3>2 DEF Agreed, Tables
      <4>2. QED
        BY <1>5, <1>6, <3>2, <4>1 DEF LiveIn
    <3>3. QED
      BY <1>2, <3>1, <3>2
  <2>2. \A j \in LiveIn(r) : <<r.sessions[j].used, j>> \in r.ages
    <3> TAKE j \in LiveIn(r)
    <3>1. CASE j = i
      BY <1>1, <1>2, <1>3, <1>5, <3>1
    <3>2. CASE j # i
      <4>1. <<t.sessions[j].used, j>> \in t.ages /\ j \in Ids
        BY <1>6 DEF Agreed, LiveIn
      <4>2. <<t.sessions[j].used, j>> # <<t.sessions[i].used, i>>
        BY <3>2
      <4>3. QED
        BY <1>2, <1>5, <3>2, <4>1, <4>2
    <3>3. QED
      BY <3>1, <3>2
  <2>3. \A j \in LiveIn(r) : r.visitors[r.sessions[j].visitor] = j
    BY <1>2, <1>5, <1>6 DEF Agreed, LiveIn
  <2>4. \A v \in Visitors : r.visitors[v] # None =>
            r.visitors[v] \in LiveIn(r) /\ r.sessions[r.visitors[v]].visitor = v
    BY <1>2, <1>5, <1>6 DEF Agreed, LiveIn
  <2>5. QED
    BY <2>1, <2>2, <2>3, <2>4 DEF Agreed
<1>8. QED
  BY <1>4, <1>5, <1>6, <1>7 DEF r

\* A new session gets an id that nobody has, and its visitor had none.
LEMMA InsertAgrees ==
    ASSUME NEW t \in Tables, Agreed(t), clock \in Times,
           NEW v \in Visitors, t.visitors[v] = None,
           NEW i \in Ids, t.sessions[i] = Free
    PROVE  /\ Insert(t, v, i) \in Tables /\ Agreed(Insert(t, v, i))
           /\ LiveIn(Insert(t, v, i)) = LiveIn(t) \cup {i}
           /\ \A j \in Ids : Insert(t, v, i).sessions[j].visitor =
                  IF j = i THEN v ELSE t.sessions[j].visitor
<1> DEFINE r == Insert(t, v, i)
           e == [visitor |-> v, used |-> clock]
<1>1. /\ r.visitors = [t.visitors EXCEPT ![v] = i]
      /\ r.sessions = [t.sessions EXCEPT ![i] = e]
      /\ r.ages = t.ages \cup {<<clock, i>>}
  BY DEF Insert
<1>2. e \in Entry /\ e # Free /\ e.visitor = v /\ e.used = clock
  BY TableAssumption DEF Entry, Free
<1>3. /\ t.sessions \in [Ids -> Entry \cup {Free}] /\ t.visitors \in [Visitors -> Ids \cup {None}]
      /\ t.ages \subseteq Times \X Ids
  BY DEF Tables
<1> HIDE DEF e
<1>4. r \in Tables
  BY <1>2, <1>3 DEF Insert, Tables, e
<1> HIDE DEF r
<1>5. \A j \in Ids : /\ j # i => r.sessions[j] = t.sessions[j]
                     /\ j = i => r.sessions[j] = e
  BY <1>1, <1>3
<1>6. LiveIn(r) = LiveIn(t) \cup {i} /\ i \notin LiveIn(t)
  BY <1>2, <1>5 DEF LiveIn
<1>7. Agreed(r)
  <2>1. \A a \in r.ages : a[2] \in LiveIn(r) /\ a[1] = r.sessions[a[2]].used
    <3> TAKE a \in r.ages
    <3>1. CASE a = <<clock, i>>
      BY <1>2, <1>5, <1>6, <3>1
    <3>2. CASE a \in t.ages
      <4>1. a[2] \in LiveIn(t) /\ a[1] = t.sessions[a[2]].used
        BY <3>2 DEF Agreed
      <4>2. QED
        BY <1>5, <1>6, <4>1 DEF LiveIn
    <3>3. QED
      BY <1>1, <3>1, <3>2
  <2>2. \A j \in LiveIn(r) : <<r.sessions[j].used, j>> \in r.ages
    BY <1>1, <1>2, <1>5, <1>6 DEF Agreed, LiveIn
  <2>3. \A j \in LiveIn(t) : t.sessions[j].visitor # v /\ t.sessions[j].visitor \in Visitors
    <3>1. \A j \in LiveIn(t) : t.sessions[j] \in Entry
      BY <1>3 DEF LiveIn
    <3>2. \A j \in LiveIn(t) : t.visitors[t.sessions[j].visitor] = j /\ j # None
      BY TableAssumption DEF Agreed, LiveIn
    <3>3. QED
      BY <3>1, <3>2 DEF Entry
  <2>4. \A j \in LiveIn(r) : r.visitors[r.sessions[j].visitor] = j
    BY <1>1, <1>2, <1>3, <1>5, <1>6, <2>3 DEF Agreed, LiveIn
  <2>5. \A u \in Visitors : r.visitors[u] # None =>
            r.visitors[u] \in LiveIn(r) /\ r.sessions[r.visitors[u]].visitor = u
    BY <1>1, <1>2, <1>3, <1>5, <1>6 DEF Agreed, LiveIn
  <2>6. QED
    BY <2>1, <2>2, <2>4, <2>5 DEF Agreed
<1>8. QED
  BY <1>2, <1>4, <1>5, <1>6, <1>7 DEF r

-----------------------------------------------------------------------------
\* What `evict_oldest' leaves when the table is full: at most one session fewer, and
\* room for one more.
Roomy(t, S) ==
    /\ S \in SUBSET Live /\ (S = {} \/ \E i \in Ids : S = {i})
    /\ t \in Tables /\ Agreed(t) /\ LiveIn(t) = Live \ S
    /\ \A i \in Ids : t.sessions[i].visitor = IF i \in S THEN None ELSE bySession[i].visitor
    /\ \A v \in Visitors : byVisitor[v] = None => t.visitors[v] = None
    /\ IsFiniteSet(LiveIn(t))
    /\ Cardinality(LiveIn(t)) + 1 <= IF Cap = 0 THEN 1 ELSE Cap

\* A table that is full makes room by dropping the session unused for longest.
LEMMA MakesRoom == TableInv => \E S : Roomy(MakeRoom(Table), S)
<1> SUFFICES ASSUME TableInv PROVE \E S : Roomy(MakeRoom(Table), S)
  OBVIOUS
<1>1. /\ Table \in Tables /\ Agreed(Table) /\ LiveIn(Table) = Live
      /\ Table.sessions = bySession /\ Table.visitors = byVisitor /\ Table.ages = byAge
  BY DEF TableInv, Table, LiveIn, Live
<1>2. IsFiniteSet(Live) /\ Cardinality(Live) \in Nat
  <2>1. IsFiniteSet(Ids)
    BY FS_Interval, TableAssumption DEF Ids
  <2>2. Live \subseteq Ids
    BY DEF Live
  <2>3. QED
    BY <2>1, <2>2, FS_Subset, FS_CardinalityType
<1>3. Full(Table) <=> Cardinality(Live) >= Cap
  BY <1>1 DEF Full, LiveIn, Live
<1>4. Cardinality(Live) <= IF Cap = 0 THEN 1 ELSE Cap
  BY DEF TableInv
<1>5. CASE Full(Table) /\ byAge # {}
  <2> DEFINE i == First(byAge)[2]
  <2>1. First(byAge) \in byAge
    BY <1>1, <1>5, FirstIsFront DEF Tables
  <2>2. i \in Live /\ i \in Ids
    BY <1>1, <2>1 DEF Agreed, Live
  <2>3. MakeRoom(Table) = Remove(Table, {i})
    BY <1>1, <1>5 DEF MakeRoom
  <2> HIDE DEF i
  <2>4. {i} \in SUBSET LiveIn(Table)
    BY <1>1, <2>2
  <2> DEFINE t == Remove(Table, {i})
  <2>5. /\ t \in Tables /\ Agreed(t) /\ LiveIn(t) = Live \ {i}
        /\ \A j \in Ids \ {i} : t.sessions[j] = bySession[j]
        /\ \A j \in {i} : t.sessions[j] = Free
        /\ \A v \in Visitors : byVisitor[v] = None => t.visitors[v] = None
    BY <1>1, <2>4, RemoveAgrees
  <2>6. Cardinality(Live \ {i}) = Cardinality(Live) - 1 /\ IsFiniteSet(Live \ {i})
    BY <1>2, <2>2, FS_RemoveElement
  <2> HIDE DEF t
  <2>7. Roomy(t, {i})
    BY <1>2, <1>4, <2>2, <2>5, <2>6, TableAssumption DEF Roomy, Free
  <2>8. QED
    BY <2>3, <2>7 DEF t
<1>6. CASE ~(Full(Table) /\ byAge # {})
  <2>1. MakeRoom(Table) = Table
    BY <1>1, <1>6 DEF MakeRoom
  <2>2. byAge = {} => Live = {}
    BY <1>1 DEF Agreed
  <2>3. Cardinality(Live) + 1 <= IF Cap = 0 THEN 1 ELSE Cap
    <3>1. CASE byAge = {}
      <4>1. Cardinality(Live) = 0
        BY <2>2, <3>1, FS_EmptySet
      <4>2. QED
        BY <4>1, TableAssumption
    <3>2. CASE ~Full(Table)
      BY <1>2, <1>3, <3>2, TableAssumption
    <3>3. QED
      BY <1>6, <3>1, <3>2
  <2>4. Roomy(Table, {})
    BY <1>1, <1>2, <2>3 DEF Roomy
  <2>5. QED
    BY <2>1, <2>4
<1>7. QED
  BY <1>5, <1>6

\* The first packet of a visitor: a table with room gets one session more.
LEMMA FreshInserts ==
    ASSUME TableInv, NEW v \in Visitors, InboundFresh(v)
    PROVE  \E t, S, i :
               /\ Roomy(t, S) /\ i \in Ids /\ t.sessions[i] = Free
               /\ byVisitor[v] = None /\ Table' = Insert(t, v, i)
               /\ nextId' \in Ids /\ UNCHANGED clock
               /\ opens' \in Seq([session : Ids, visitor : Visitors])
<1>1. PICK S : Roomy(MakeRoom(Table), S)
  BY MakesRoom
<1> DEFINE t == MakeRoom(Table)
<1>2. PICK k \in 0..(IdSpace - 1) :
          /\ Claimable(t, k)
          /\ Put([visitors |-> [t.visitors EXCEPT ![v] = Counted(k)],
                  sessions |-> [t.sessions EXCEPT ![Counted(k)] =
                                  [visitor |-> v, used |-> clock]],
                  ages     |-> t.ages \cup {<<clock, Counted(k)>>}])
          /\ nextId' = Following(k)
          /\ opens' = Append(opens, [session |-> Counted(k), visitor |-> v])
  BY DEF InboundFresh
<1>3. byVisitor[v] = None /\ UNCHANGED clock
  BY DEF InboundFresh
<1> HIDE DEF t
<1>4. Counted(k) \in Ids /\ Following(k) \in Ids
  BY <1>2, TableAssumption DEF TableInv, Ids, Counted, Following
<1>5. Table' = Insert(t, v, Counted(k))
  BY <1>2 DEF Put, Table, Insert
<1>6. t.sessions[Counted(k)] = Free
  BY <1>2 DEF Claimable
<1>7. opens' \in Seq([session : Ids, visitor : Visitors])
  BY <1>2, <1>4 DEF TableInv
<1>8. QED
  BY <1>1, <1>2, <1>3, <1>4, <1>5, <1>6, <1>7 DEF t

\* An empty table.
LEMMA InitTableInv == TableInit => TableInv
<1> SUFFICES ASSUME TableInit PROVE TableInv
  OBVIOUS
<1>1. Live = {} /\ LiveIn(Table) = {}
  BY DEF TableInit, Live, LiveIn, Table
<1>2. Table \in Tables
  BY TableAssumption DEF TableInit, Table, Tables
<1>3. Agreed(Table)
  BY <1>1 DEF TableInit, Agreed, Table
<1>4. Cardinality(Live) <= IF Cap = 0 THEN 1 ELSE Cap
  BY <1>1, FS_EmptySet, TableAssumption
<1>5. clock \in Times /\ nextId \in Ids /\ opens \in Seq([session : Ids, visitor : Visitors])
  BY TableAssumption DEF TableInit, Times, Ids
<1>6. QED
  BY <1>2, <1>3, <1>4, <1>5 DEF TableInv

\* The steps that only touch a session, and the one that only drops some.
LEMMA TableKept ==
    ASSUME TableInv, Table' \in Tables, Agreed(Table'), Live' \subseteq Live,
           UNCHANGED <<nextId, opens>>, clock' \in Times
    PROVE  TableInv'
<1>1. IsFiniteSet(Live)
  <2>1. IsFiniteSet(Ids) /\ Live \subseteq Ids
    BY FS_Interval, TableAssumption DEF Ids, Live
  <2>2. QED
    BY <2>1, FS_Subset
<1>2. Cardinality(Live') <= Cardinality(Live) /\ IsFiniteSet(Live')
  BY <1>1, FS_Subset
<1>3. Cardinality(Live) \in Nat /\ Cardinality(Live') \in Nat
  BY <1>1, <1>2, FS_CardinalityType
<1>4. Agreed(Table)'
  BY DEF Agreed, LiveIn
<1>5. QED
  BY <1>2, <1>3, <1>4, TableAssumption DEF TableInv

\* Every step keeps the table sound.
LEMMA NextTableInv == TableInv /\ [TableNext]_tableVars => TableInv'
<1> SUFFICES ASSUME TableInv, [TableNext]_tableVars PROVE TableInv'
  OBVIOUS
<1>1. /\ Table \in Tables /\ Agreed(Table) /\ LiveIn(Table) = Live
      /\ Table.sessions = bySession /\ Table.visitors = byVisitor /\ Table.ages = byAge
      /\ clock \in Times
  BY DEF TableInv, Table, LiveIn, Live
<1>2. LiveIn(Table') = Live'
  BY DEF LiveIn, Live, Table
<1>3. ASSUME NEW i \in Live, Put(Touch(Table, i)), UNCHANGED <<clock, nextId, opens>>
      PROVE  TableInv'
  <2>1. Table' = Touch(Table, i)
    BY <1>3 DEF Put, Table, Touch
  <2>2. Table' \in Tables /\ Agreed(Table') /\ Live' = Live
    BY <1>1, <1>2, <2>1, TouchAgrees
  <2>3. QED
    BY <1>1, <1>3, <2>2, TableKept
<1>4. ASSUME NEW v \in Visitors, InboundKnown(v) PROVE TableInv'
  <2>1. byVisitor[v] \in Live
    BY <1>1, <1>4 DEF InboundKnown, Agreed
  <2>2. QED
    BY <1>3, <1>4, <2>1 DEF InboundKnown
<1>5. ASSUME NEW v \in Visitors, InboundFresh(v) PROVE TableInv'
  <2>1. PICK t, S, i :
            /\ Roomy(t, S) /\ i \in Ids /\ t.sessions[i] = Free
            /\ byVisitor[v] = None /\ Table' = Insert(t, v, i)
            /\ nextId' \in Ids /\ UNCHANGED clock
            /\ opens' \in Seq([session : Ids, visitor : Visitors])
    BY <1>5, FreshInserts
  <2>2. t \in Tables /\ Agreed(t) /\ t.visitors[v] = None
    BY <2>1 DEF Roomy
  <2>3. Table' \in Tables /\ Agreed(Table') /\ Live' = LiveIn(t) \cup {i}
    BY <1>1, <1>2, <2>1, <2>2, InsertAgrees
  <2>4. Cardinality(Live') <= IF Cap = 0 THEN 1 ELSE Cap
    <3>1. IsFiniteSet(LiveIn(t)) /\ i \notin LiveIn(t)
      BY <2>1 DEF Roomy, LiveIn
    <3>2. Cardinality(Live') = Cardinality(LiveIn(t)) + 1
      BY <2>3, <3>1, FS_AddElement
    <3>3. QED
      BY <2>1, <3>2 DEF Roomy
  <2>5. Agreed(Table)'
    BY <2>3 DEF Agreed, LiveIn
  <2>6. QED
    BY <1>1, <2>1, <2>3, <2>4, <2>5 DEF TableInv
<1>6. ASSUME NEW i \in Ids, Outbound(i) PROVE TableInv'
  BY <1>3, <1>6 DEF Outbound
<1>7. ASSUME Sweep PROVE TableInv'
  <2> DEFINE idle == {a \in byAge : clock - a[1] >= Idle}
             S == {a[2] : a \in idle}
  <2>1. S \in SUBSET LiveIn(Table)
    BY <1>1 DEF Agreed
  <2>2. Table' = Remove(Table, S) /\ UNCHANGED <<clock, nextId, opens>>
    BY <1>7 DEF Sweep, Put, Table, Remove
  <2> HIDE DEF S
  <2>3. Table' \in Tables /\ Agreed(Table') /\ Live' \subseteq Live
    BY <1>1, <1>2, <2>1, <2>2, RemoveAgrees
  <2>4. QED
    BY <1>1, <2>2, <2>3, TableKept
<1>8. ASSUME ClockTicks PROVE TableInv'
  <2>1. Table' = Table /\ Live' = Live /\ UNCHANGED <<nextId, opens>>
    BY <1>8 DEF ClockTicks, Table, Live
  <2>2. clock' \in Times
    BY <1>1, <1>8, TableAssumption DEF ClockTicks, Times
  <2>3. QED
    BY <1>1, <2>1, <2>2, TableKept
<1>9. ASSUME UNCHANGED tableVars PROVE TableInv'
  <2>1. Table' = Table /\ Live' = Live /\ UNCHANGED <<nextId, opens, clock>>
    BY <1>9 DEF tableVars, Table, Live
  <2>2. QED
    BY <1>1, <2>1, TableKept
<1>10. QED
  BY <1>4, <1>5, <1>6, <1>7, <1>8, <1>9 DEF TableNext, OutboundLost

\* The table is sound at every moment.
LEMMA TableSound == TableSpec => []TableInv
BY InitTableInv, NextTableInv, PTL DEF TableSpec

\* Visitors and ids name each other, the order holds each session once at the time of
\* its last use, and the table keeps to its cap, through every touch, eviction and
\* sweep of server/udp/table.rs and with ids that wrap.
THEOREM TableIndexesAgree == TableSpec => []IndexesAgree
<1>1. TableInv => IndexesAgree
  <2> SUFFICES ASSUME TableInv PROVE IndexesAgree
    OBVIOUS
  <2>1. /\ Table \in Tables /\ Agreed(Table) /\ LiveIn(Table) = Live
        /\ Table.sessions = bySession /\ Table.visitors = byVisitor /\ Table.ages = byAge
    BY DEF TableInv, Table, LiveIn, Live
  <2>2. /\ \A i \in Live : byVisitor[bySession[i].visitor] = i
        /\ \A v \in Visitors : byVisitor[v] # None =>
               byVisitor[v] \in Live /\ bySession[byVisitor[v]].visitor = v
    BY <2>1 DEF Agreed
  <2>3. byAge \subseteq Aged
    <3>1. ASSUME NEW a \in byAge PROVE a \in Aged
      <4>1. a = <<a[1], a[2]>> /\ a[2] \in Live /\ a[1] = bySession[a[2]].used
        BY <2>1, <3>1 DEF Agreed, Tables
      <4>2. QED
        BY <4>1 DEF Aged
    <3>2. QED
      BY <3>1
  <2>4. Aged \subseteq byAge
    BY <2>1 DEF Aged, Agreed
  <2>5. QED
    BY <2>2, <2>3, <2>4 DEF IndexesAgree, TableInv
<1>2. QED
  BY <1>1, TableSound, PTL

-----------------------------------------------------------------------------
(***************************************************************************)
(* The table implements VisitorRouting: step by step, under the mapping    *)
(* that forgets clock, order and counter.                                  *)
(***************************************************************************)
Route == [i \in Ids |-> bySession[i].visitor]

\* An empty table routes nothing.
LEMMA InitRoutes == TableInit => Routing!RoutingInit
BY DEF TableInit, Free, Routing!RoutingInit

\* Every step opens a session for a visitor that had none, at an id that is free or was
\* just made so, or drops sessions, or leaves the routes alone.
LEMMA NextRoutes ==
    TableInv /\ [TableNext]_tableVars => Routing!RoutingNext \/ UNCHANGED Route
<1> SUFFICES ASSUME TableInv, [TableNext]_tableVars
             PROVE  Routing!RoutingNext \/ UNCHANGED Route
  OBVIOUS
<1>1. /\ Table \in Tables /\ Agreed(Table) /\ LiveIn(Table) = Live /\ Live \subseteq Ids
      /\ Table.sessions = bySession /\ Table.visitors = byVisitor /\ Table.ages = byAge
      /\ clock \in Times
  BY DEF TableInv, Table, LiveIn, Live
<1>2. Table'.sessions = bySession'
  BY DEF Table
<1>3. ASSUME NEW i \in Live, Put(Touch(Table, i)) PROVE UNCHANGED Route
  <2>1. Table' = Touch(Table, i)
    BY <1>3 DEF Put, Table, Touch
  <2>2. \A j \in Ids : bySession'[j].visitor = bySession[j].visitor
    BY <1>1, <1>2, <2>1, TouchAgrees
  <2>3. QED
    BY <2>2 DEF Route
<1>4. ASSUME NEW v \in Visitors, InboundKnown(v) PROVE UNCHANGED Route
  <2>1. byVisitor[v] \in Live
    BY <1>1, <1>4 DEF InboundKnown, Agreed
  <2>2. QED
    BY <1>3, <1>4, <2>1 DEF InboundKnown
<1>5. ASSUME NEW v \in Visitors, InboundFresh(v) PROVE Routing!Open(v)
  <2>1. PICK t, S, i :
            /\ Roomy(t, S) /\ i \in Ids /\ t.sessions[i] = Free
            /\ byVisitor[v] = None /\ Table' = Insert(t, v, i)
            /\ nextId' \in Ids /\ UNCHANGED clock
            /\ opens' \in Seq([session : Ids, visitor : Visitors])
    BY <1>5, FreshInserts
  <2>2. /\ t \in Tables /\ Agreed(t) /\ t.visitors[v] = None
        /\ S \in {{}} \cup {{j} : j \in Ids}
        /\ \A j \in Ids : t.sessions[j].visitor = IF j \in S THEN None ELSE bySession[j].visitor
    BY <2>1 DEF Roomy
  <2>3. \A j \in Ids : bySession'[j].visitor = IF j = i THEN v ELSE t.sessions[j].visitor
    BY <1>1, <1>2, <2>1, <2>2, InsertAgrees
  <2>4. ~\E j \in Ids : Route[j] = v
    <3> SUFFICES ASSUME NEW j \in Ids, bySession[j].visitor = v PROVE FALSE
      BY DEF Route
    <3>1. j \in Live
      BY TableAssumption DEF Live, Free
    <3>2. QED
      BY <1>1, <2>1, <3>1, TableAssumption DEF Agreed
  <2> DEFINE dropped == [j \in Ids |-> IF j \in S THEN None ELSE Route[j]]
  <2>5. \A j \in Ids : dropped[j] = t.sessions[j].visitor
    BY <2>2 DEF Route
  <2>6. dropped[i] = None
    BY <2>1, <2>5 DEF Free
  <2>7. Route' = [dropped EXCEPT ![i] = v]
    BY <2>1, <2>3, <2>5 DEF Route
  <2>8. QED
    BY <2>1, <2>2, <2>4, <2>6, <2>7
       DEF Routing!Open, Routing!Routed, Routing!Unrouted, Routing!Drop, Route
<1>6. ASSUME NEW i \in Ids, Outbound(i) PROVE UNCHANGED Route
  BY <1>3, <1>6 DEF Outbound
<1>7. ASSUME Sweep PROVE Routing!Expire
  <2> DEFINE S == {a[2] : a \in {a \in byAge : clock - a[1] >= Idle}}
  <2>1. S \in SUBSET LiveIn(Table)
    BY <1>1 DEF Agreed
  <2>2. Table' = Remove(Table, S)
    BY <1>7 DEF Sweep, Put, Table, Remove
  <2> HIDE DEF S
  <2>3. \A j \in Ids : bySession'[j] = IF j \in S THEN Free ELSE bySession[j]
    BY <1>1, <1>2, <2>1, <2>2, RemoveAgrees
  <2>4. Route' = [j \in Ids |-> IF j \in S THEN None ELSE Route[j]]
    BY <2>3 DEF Route, Free
  <2>5. QED
    BY <1>1, <2>1, <2>4 DEF Routing!Expire, Routing!Drop, Route
<1>8. ASSUME ClockTicks \/ UNCHANGED tableVars PROVE UNCHANGED Route
  BY <1>8 DEF ClockTicks, tableVars, Route
<1>9. QED
  BY <1>4, <1>5, <1>6, <1>7, <1>8 DEF TableNext, OutboundLost, Routing!RoutingNext

\* The table of server/udp/table.rs implements the routing: an id routes to one
\* visitor and is given to no other before that visitor's session is dropped, through
\* touches, evictions, sweeps and a counter that wraps.
THEOREM TableRoutes == TableSpec => ImplementsRouting
<1>1. TableInv /\ [TableNext]_tableVars => [Routing!RoutingNext]_Route
  BY NextRoutes
<1>2. QED
  BY <1>1, InitRoutes, TableSound, PTL DEF TableSpec, ImplementsRouting, Routing!RoutingSpec, Route
-----------------------------------------------------------------------------
(***************************************************************************)
(* A late packet.  For the n-th session opened, `Given' holds the ids      *)
(* given out since, and H the ids other sessions held when it was opened.  *)
(* The counter has passed over every id between the session's own and      *)
(* where it stands, and it only passes over an id that it gives out or     *)
(* finds held; so until it has been around, its way is covered by the ids  *)
(* given and the ids held, and the session's own id is not among the ids   *)
(* given.                                                                  *)
(***************************************************************************)
Most == IF Cap = 0 THEN 1 ELSE Cap
Wrap(x) == IF x < IdSpace THEN x ELSE x - IdSpace

Given(o, n) == {o[m].session : m \in (n + 1)..Len(o)}

Passed(i, c, K) ==
    \E d \in Ids : c = Wrap(i + 1 + d) /\ \A j \in 1..d : Wrap(i + j) \in K

\* The counter c has not come back to the id i, or K holds every id.
Covered(i, c, G, H) ==
    \/ Ids \subseteq G \cup H \cup {i}
    \/ i \notin G /\ Passed(i, c, G \cup H)

Opened(o, n, H) ==
    LET i == o[n].session
        G == Given(o, n)
    IN  /\ H \in SUBSET Ids /\ IsFiniteSet(H) /\ Cardinality(H) + 1 <= Most
        /\ Live \subseteq G \cup H \cup {i}
        /\ Covered(i, nextId, G, H)
        /\ bySession[i].visitor \in {None, o[n].visitor} \/ i \in G

LateInv == \A n \in 1..Len(opens) : \E H : Opened(opens, n, H)

\* A session opened has an id and a visitor.
LEMMA OpensType ==
    ASSUME NEW o \in Seq([session : Ids, visitor : Visitors]), NEW n \in 1..Len(o)
    PROVE  o[n].session \in Ids /\ o[n].visitor \in Visitors
<1>1. ASSUME NEW E, NEW s \in Seq(E), NEW m \in 1..Len(s) PROVE s[m] \in E
  OBVIOUS
<1>2. o[n] \in [session : Ids, visitor : Visitors]
  BY <1>1
<1>3. QED
  BY <1>2

\* A counter below twice the number of ids wraps at most once.
LEMMA WrapsOnce ==
    ASSUME NEW x \in Nat, x < IdSpace + IdSpace
    PROVE  x % IdSpace = Wrap(x) /\ Wrap(x) \in Ids
<1>1. IdSpace \in Nat /\ IdSpace > 0
  BY TableAssumption
<1>2. x < IdSpace => x % IdSpace = x
  BY <1>1
<1>3. x >= IdSpace => x % IdSpace = x - IdSpace
  BY <1>1
<1>4. QED
  BY <1>1, <1>2, <1>3 DEF Wrap, Ids

\* `claim_id' in a step: the id taken, the ids passed over and the counter after it.
LEMMA FreshClaims ==
    ASSUME TableInv, NEW v \in Visitors, InboundFresh(v)
    PROVE  \E k \in Ids, R \in SUBSET Live :
               /\ IsFiniteSet(R) /\ Cardinality(R) + 1 <= Most
               /\ \A j \in 0..(k - 1) : Wrap(nextId + j) \in R
               /\ Live' = R \cup {Wrap(nextId + k)}
               /\ nextId' = Wrap(nextId + k + 1)
               /\ opens' = Append(opens, [session |-> Wrap(nextId + k), visitor |-> v])
               /\ \A i \in Ids : bySession'[i].visitor =
                      IF i = Wrap(nextId + k) THEN v
                      ELSE IF i \in R THEN bySession[i].visitor ELSE None
<1>1. PICK S : Roomy(MakeRoom(Table), S)
  BY MakesRoom
<1> DEFINE t == MakeRoom(Table)
<1>2. PICK k \in 0..(IdSpace - 1) :
          /\ Claimable(t, k)
          /\ Put([visitors |-> [t.visitors EXCEPT ![v] = Counted(k)],
                  sessions |-> [t.sessions EXCEPT ![Counted(k)] =
                                  [visitor |-> v, used |-> clock]],
                  ages     |-> t.ages \cup {<<clock, Counted(k)>>}])
          /\ nextId' = Following(k)
          /\ opens' = Append(opens, [session |-> Counted(k), visitor |-> v])
  BY DEF InboundFresh
<1>3. Roomy(t, S)
  BY <1>1
<1> HIDE DEF t
<1>4. nextId \in Ids /\ IdSpace \in Nat /\ clock \in Times /\ k \in Ids
  BY <1>2, TableAssumption DEF TableInv, Ids
<1>5. ASSUME NEW j \in 0..(k + 1)
      PROVE  (nextId + j) % IdSpace = Wrap(nextId + j) /\ Wrap(nextId + j) \in Ids
  <2>1. nextId + j \in Nat /\ nextId + j < IdSpace + IdSpace
    BY <1>2, <1>4 DEF Ids
  <2>2. QED
    BY <2>1, WrapsOnce
<1>6. Counted(k) = Wrap(nextId + k) /\ Wrap(nextId + k) \in Ids
  BY <1>2, <1>5 DEF Counted
<1>7. Following(k) = Wrap(nextId + k + 1)
  <2>1. k + 1 \in 0..(k + 1) /\ nextId + (k + 1) = nextId + k + 1
    BY <1>2, <1>4 DEF Ids
  <2>2. QED
    BY <1>5, <2>1 DEF Counted, Following
<1> DEFINE R == LiveIn(t)
<1>8. /\ t \in Tables /\ R = Live \ S /\ IsFiniteSet(R) /\ Cardinality(R) + 1 <= Most
      /\ \A i \in Ids : t.sessions[i].visitor =
            IF i \in S THEN None ELSE bySession[i].visitor
  BY <1>3 DEF Roomy, Most
<1>9. \A j \in 0..(k - 1) : Wrap(nextId + j) \in R
  <2> SUFFICES ASSUME NEW j \in 0..(k - 1) PROVE Wrap(nextId + j) \in R
    OBVIOUS
  <2>1. t.sessions[Counted(j)] # Free
    BY <1>2 DEF Claimable
  <2>2. Counted(j) = Wrap(nextId + j) /\ Wrap(nextId + j) \in Ids
    BY <1>2, <1>5 DEF Counted
  <2>3. QED
    BY <2>1, <2>2 DEF LiveIn
<1>10. bySession' = [t.sessions EXCEPT ![Wrap(nextId + k)] = [visitor |-> v, used |-> clock]]
  BY <1>2, <1>6 DEF Put
<1>11. t.sessions \in [Ids -> Entry \cup {Free}]
  BY <1>8 DEF Tables
<1>12. [visitor |-> v, used |-> clock] # Free
  BY TableAssumption DEF Free
<1>13. Live' = R \cup {Wrap(nextId + k)}
  BY <1>6, <1>10, <1>11, <1>12 DEF Live, LiveIn
<1>14. ASSUME NEW i \in Ids
       PROVE  bySession'[i].visitor = IF i = Wrap(nextId + k) THEN v
                                      ELSE IF i \in R THEN bySession[i].visitor ELSE None
  <2>1. CASE i = Wrap(nextId + k)
    BY <1>10, <1>11, <2>1
  <2>2. CASE i # Wrap(nextId + k)
    <3>1. bySession'[i] = t.sessions[i]
      BY <1>10, <1>11, <2>2
    <3>2. i \notin R => t.sessions[i].visitor = None
      BY DEF LiveIn, Free
    <3>3. i \in R => t.sessions[i].visitor = bySession[i].visitor
      BY <1>8
    <3>4. QED
      BY <2>2, <3>1, <3>2, <3>3
  <2>3. QED
    BY <2>1, <2>2
<1>15. /\ nextId' = Wrap(nextId + k + 1)
       /\ opens' = Append(opens, [session |-> Wrap(nextId + k), visitor |-> v])
  BY <1>2, <1>6, <1>7
<1>16. QED
  BY <1>4, <1>8, <1>9, <1>13, <1>14, <1>15

\* The counter goes on from c over k ids that are covered, and takes the next.
LEMMA CoverGrows ==
    ASSUME NEW i \in Ids, NEW c \in Ids, NEW k \in Ids,
           NEW G \in SUBSET Ids, NEW H \in SUBSET Ids, Covered(i, c, G, H),
           \A j \in 0..(k - 1) : Wrap(c + j) \in G \cup H \cup {i}
    PROVE  Covered(i, Wrap(c + k + 1), G \cup {Wrap(c + k)}, H)
<1> DEFINE w == Wrap(c + k)
           K == G \cup H \cup {i}
<1>1. IdSpace \in Nat /\ IdSpace > 1
  BY TableAssumption
<1>2. CASE Ids \subseteq K
  BY <1>2 DEF Covered
<1>3. CASE ~(Ids \subseteq K)
  <2>1. PICK d \in Ids : c = Wrap(i + 1 + d) /\ \A j \in 1..d : Wrap(i + j) \in G \cup H
    BY <1>3 DEF Covered, Passed
  <2>2. i \notin G
    BY <1>3 DEF Covered
  <2>3. CASE d + k + 1 >= IdSpace
    <3>1. ASSUME NEW y \in Ids, y # i PROVE y \in G \cup H \cup {w}
      <4> DEFINE j == IF y > i THEN y - i ELSE y - i + IdSpace
      <4>1. j \in 1..(IdSpace - 1) /\ y = Wrap(i + j)
        BY <1>1, <3>1 DEF Ids, Wrap
      <4> HIDE DEF j
      <4>2. CASE j <= d
        BY <2>1, <4>1, <4>2 DEF Ids
      <4>3. CASE j > d
        <5> DEFINE m == j - d - 1
        <5>1. m \in 0..(k - 1)
          BY <1>1, <2>3, <4>1, <4>3 DEF Ids
        <5>2. y = Wrap(c + m)
          BY <1>1, <2>1, <4>1, <4>3 DEF Ids, Wrap
        <5>3. QED
          BY <3>1, <5>1, <5>2
      <4>4. QED
        BY <4>1, <4>2, <4>3 DEF Ids
    <3>2. QED
      BY <3>1 DEF Covered
  <2>4. CASE d + k + 1 < IdSpace
    <3> DEFINE e == d + k + 1
    <3>1. e \in Ids /\ Wrap(c + k + 1) = Wrap(i + 1 + e) /\ w = Wrap(i + e)
      BY <1>1, <2>1, <2>4 DEF Ids, Wrap
    <3>2. w # i
      BY <1>1, <2>1, <2>4 DEF Ids, Wrap
    <3>3. ASSUME NEW j \in 1..e PROVE Wrap(i + j) \in G \cup {w} \cup H
      <4>1. CASE j <= d
        BY <2>1, <4>1 DEF Ids
      <4>2. CASE j = e
        BY <3>1, <4>2
      <4>3. CASE j > d /\ j < e
        <5> DEFINE m == j - d - 1
        <5>1. m \in 0..(k - 1)
          BY <1>1, <2>4, <4>3 DEF Ids
        <5>2. Wrap(i + j) = Wrap(c + m) /\ Wrap(i + j) # i
          BY <1>1, <2>1, <2>4, <4>3 DEF Ids, Wrap
        <5>3. QED
          BY <5>1, <5>2
      <4>4. QED
        BY <4>1, <4>2, <4>3 DEF Ids
    <3>4. Passed(i, Wrap(c + k + 1), G \cup {w} \cup H)
      BY <3>1, <3>3 DEF Passed
    <3>5. QED
      BY <2>2, <3>2, <3>4 DEF Covered
  <2>5. QED
    BY <1>1, <2>3, <2>4 DEF Ids
<1>4. QED
  BY <1>2, <1>3

\* The first packet of a visitor takes the counter on for every session before it,
\* and starts the way of its own.
LEMMA FreshLate ==
    ASSUME TableInv, LateInv, NEW v \in Visitors, InboundFresh(v)
    PROVE  LateInv'
<1>1. PICK k \in Ids, R \in SUBSET Live :
          /\ IsFiniteSet(R) /\ Cardinality(R) + 1 <= Most
          /\ \A j \in 0..(k - 1) : Wrap(nextId + j) \in R
          /\ Live' = R \cup {Wrap(nextId + k)}
          /\ nextId' = Wrap(nextId + k + 1)
          /\ opens' = Append(opens, [session |-> Wrap(nextId + k), visitor |-> v])
          /\ \A i \in Ids : bySession'[i].visitor =
                 IF i = Wrap(nextId + k) THEN v
                 ELSE IF i \in R THEN bySession[i].visitor ELSE None
  BY FreshClaims
<1>2. /\ nextId \in Ids /\ opens \in Seq([session : Ids, visitor : Visitors])
      /\ IdSpace \in Nat /\ IdSpace > 1
  BY TableAssumption DEF TableInv
<1>3. PICK w : w = Wrap(nextId + k)
  OBVIOUS
<1>4. w \in Ids /\ nextId' = Wrap(w + 1)
  BY <1>1, <1>2, <1>3 DEF Ids, Wrap
<1>5. Len(opens') = Len(opens) + 1 /\ Len(opens) \in Nat
  BY <1>1, <1>2
<1>6. /\ opens'[Len(opens) + 1] = [session |-> w, visitor |-> v]
      /\ \A m \in 1..Len(opens) : opens'[m] = opens[m]
  BY <1>1, <1>2, <1>3
<1>7. ASSUME NEW n \in 1..Len(opens) PROVE \E H : Opened(opens, n, H)'
  <2>1. PICK H : Opened(opens, n, H)
    BY DEF LateInv
  <2> DEFINE G == Given(opens, n)
  <2>2. PICK i : i = opens[n].session
    OBVIOUS
  <2>3. i \in Ids /\ opens[n].visitor \in Visitors /\ opens'[n] = opens[n]
    BY <1>2, <1>6, <2>2, OpensType
  <2>4. Given(opens', n) = G \cup {w}
    <3>1. \A m \in (n + 1)..Len(opens) : opens'[m] = opens[m]
      BY <1>5, <1>6
    <3>2. (n + 1)..Len(opens') = ((n + 1)..Len(opens)) \cup {Len(opens) + 1}
      BY <1>5
    <3>3. opens'[Len(opens) + 1].session = w
      BY <1>6
    <3>4. QED
      BY <3>1, <3>2, <3>3 DEF Given
  <2>5. G \in SUBSET Ids
    <3>1. \A m \in (n + 1)..Len(opens) : m \in 1..Len(opens)
      BY <1>5
    <3>2. \A m \in (n + 1)..Len(opens) : opens[m].session \in Ids
      BY <1>2, <3>1, OpensType
    <3>3. QED
      BY <3>2 DEF Given
  <2> HIDE DEF G
  <2>6. /\ H \in SUBSET Ids /\ IsFiniteSet(H) /\ Cardinality(H) + 1 <= Most
        /\ Live \subseteq G \cup H \cup {i} /\ Covered(i, nextId, G, H)
        /\ bySession[i].visitor \in {None, opens[n].visitor} \/ i \in G
    BY <2>1, <2>2 DEF Opened, G
  <2>7. Covered(i, nextId', G \cup {w}, H)
    <3>1. \A j \in 0..(k - 1) : Wrap(nextId + j) \in G \cup H \cup {i}
      BY <1>1, <2>6
    <3>2. QED
      BY <1>1, <1>2, <1>3, <2>3, <2>5, <2>6, <3>1, CoverGrows
  <2>8. Live' \subseteq (G \cup {w}) \cup H \cup {i}
    BY <1>1, <1>3, <2>6
  <2>9. bySession'[i].visitor \in {None, opens[n].visitor} \/ i \in G \cup {w}
    BY <1>1, <1>3, <2>3, <2>6
  <2>10. Opened(opens, n, H)'
    BY <2>2, <2>3, <2>4, <2>6, <2>7, <2>8, <2>9 DEF Opened
  <2>11. QED
    BY <2>10
<1>8. PICK last : last = Len(opens) + 1
  OBVIOUS
<1>9. Opened(opens, last, R)'
  <2>1. Given(opens', last) = {}
    BY <1>5, <1>8 DEF Given
  <2>2. opens'[last].session = w /\ opens'[last].visitor = v
    BY <1>6, <1>8
  <2>3. R \in SUBSET Ids
    BY DEF Live
  <2>4. Covered(w, nextId', {}, R)
    <3>1. 0 \in Ids /\ nextId' = Wrap(w + 1 + 0)
      BY <1>2, <1>4 DEF Ids
    <3>2. Passed(w, nextId', {} \cup R)
      BY <3>1 DEF Passed
    <3>3. QED
      BY <3>2 DEF Covered
  <2>5. bySession'[w].visitor = v
    BY <1>1, <1>3, <1>4
  <2>6. QED
    BY <1>1, <1>3, <2>1, <2>2, <2>3, <2>4, <2>5 DEF Opened
<1>10. QED
  <2> SUFFICES ASSUME NEW n \in 1..Len(opens') PROVE \E H : Opened(opens, n, H)'
    BY DEF LateInv
  <2>1. n \in 1..Len(opens) \/ n = last
    BY <1>5, <1>8
  <2>2. QED
    BY <1>7, <1>9, <2>1

\* A step that opens no session gives no id to anybody else.
LEMMA LateKept ==
    ASSUME LateInv, UNCHANGED <<nextId, opens>>, Live' \subseteq Live,
           opens \in Seq([session : Ids, visitor : Visitors]),
           \A i \in Ids : bySession'[i].visitor \in {None, bySession[i].visitor}
    PROVE  LateInv'
<1> SUFFICES ASSUME NEW n \in 1..Len(opens) PROVE \E H : Opened(opens, n, H)'
  BY DEF LateInv
<1>1. PICK H : Opened(opens, n, H)
  BY DEF LateInv
<1>2. opens[n].session \in Ids
  BY OpensType
<1>3. Opened(opens, n, H)'
  BY <1>1, <1>2 DEF Opened
<1>4. QED
  BY <1>3

\* The ids given since a session was opened are no more than the sessions opened since.
LEMMA GivenCount ==
    ASSUME NEW o \in Seq([session : Ids, visitor : Visitors]), NEW n \in 1..Len(o)
    PROVE  /\ IsFiniteSet(Given(o, n)) /\ Cardinality(Given(o, n)) \in Nat
           /\ Cardinality(Given(o, n)) <= Len(o) - n
<1> DEFINE D == (n + 1)..Len(o)
           f == [m \in D |-> o[m].session]
<1>1. n \in Nat /\ Len(o) \in Nat /\ n <= Len(o)
  OBVIOUS
<1>2. IsFiniteSet(D) /\ Cardinality(D) = Len(o) - n
  BY <1>1, FS_Interval
<1>3. f \in Surjection(D, Given(o, n))
  BY DEF Surjection, Given
<1> HIDE DEF D, f
<1>4. QED
  BY <1>2, <1>3, FS_Surjection, FS_CardinalityType

\* A packet of the client for a session that is gone is dropped, or goes to a later
\* session of the same visitor, until all ids but the cap's worth have been given out
\* since: evict_oldest, sweep and the wrap of claim_id (server/udp/table.rs) included.
THEOREM LateRepliesAreLost == TableSpec => []LateReplyLost
<1>1. TableInit => LateInv
  BY DEF TableInit, LateInv
<1>2. TableInv /\ LateInv /\ [TableNext]_tableVars => LateInv'
  <2> SUFFICES ASSUME TableInv, LateInv, [TableNext]_tableVars PROVE LateInv'
    OBVIOUS
  <2>1. /\ Table \in Tables /\ Agreed(Table) /\ LiveIn(Table) = Live
        /\ Table.sessions = bySession /\ Table.visitors = byVisitor /\ Table.ages = byAge
        /\ clock \in Times /\ bySession \in [Ids -> Entry \cup {Free}]
        /\ opens \in Seq([session : Ids, visitor : Visitors])
    BY DEF TableInv, Table, LiveIn, Live, Tables
  <2>2. LiveIn(Table') = Live' /\ Table'.sessions = bySession'
    BY DEF LiveIn, Live, Table
  <2>3. ASSUME NEW i \in Live, Put(Touch(Table, i)), UNCHANGED <<clock, nextId, opens>>
        PROVE  LateInv'
    <3>1. Table' = Touch(Table, i)
      BY <2>3 DEF Put, Table, Touch
    <3>2. Live' = Live
      BY <2>1, <2>2, <3>1, TouchAgrees
    <3>3. \A j \in Ids : bySession'[j].visitor = bySession[j].visitor
      BY <2>1, <2>2, <3>1 DEF Touch, Live, Entry, Free
    <3>4. QED
      BY <2>1, <2>3, <3>2, <3>3, LateKept
  <2>4. ASSUME NEW v \in Visitors, InboundKnown(v) PROVE LateInv'
    <3>1. byVisitor[v] \in Live
      BY <2>1, <2>4 DEF InboundKnown, Agreed
    <3>2. QED
      BY <2>3, <2>4, <3>1 DEF InboundKnown
  <2>5. ASSUME NEW v \in Visitors, InboundFresh(v) PROVE LateInv'
    BY <2>5, FreshLate
  <2>6. ASSUME NEW i \in Ids, Outbound(i) PROVE LateInv'
    BY <2>3, <2>6 DEF Outbound
  <2>7. ASSUME Sweep PROVE LateInv'
    <3> DEFINE S == {a[2] : a \in {b \in byAge : clock - b[1] >= Idle}}
    <3>1. S \in SUBSET LiveIn(Table)
      BY <2>1 DEF Agreed
    <3>2. Table' = Remove(Table, S) /\ UNCHANGED <<clock, nextId, opens>>
      BY <2>7 DEF Sweep, Put, Table, Remove
    <3> HIDE DEF S
    <3>3. Live' \subseteq Live
      BY <2>1, <2>2, <3>1, <3>2, RemoveAgrees
    <3>4. \A j \in Ids : bySession'[j].visitor \in {None, bySession[j].visitor}
      BY <2>1, <2>2, <3>2 DEF Remove, Free
    <3>5. QED
      BY <2>1, <3>2, <3>3, <3>4, LateKept
  <2>8. ASSUME UNCHANGED <<nextId, byVisitor, bySession, byAge, opens>> PROVE LateInv'
    <3>1. Live' = Live
      BY <2>8 DEF Live
    <3>2. QED
      BY <2>1, <2>8, <3>1, LateKept
  <2>9. QED
    BY <2>4, <2>5, <2>6, <2>7, <2>8 DEF TableNext, OutboundLost, ClockTicks, tableVars
<1>3. TableInv /\ LateInv => LateReplyLost
  <2> SUFFICES ASSUME TableInv, LateInv, NEW n \in 1..Len(opens),
                      bySession[opens[n].session].visitor \notin {None, opens[n].visitor}
               PROVE  Len(opens) - n > IdSpace - 1 - Cap
    BY DEF LateReplyLost
  <2>1. PICK H : Opened(opens, n, H)
    BY DEF LateInv
  <2>2. PICK G : G = Given(opens, n)
    OBVIOUS
  <2>3. Ids \subseteq G \cup H /\ IsFiniteSet(H) /\ Cardinality(H) + 1 <= Most
    BY <2>1, <2>2 DEF Opened, Covered
  <2>4. IsFiniteSet(G) /\ Cardinality(G) \in Nat /\ Cardinality(G) <= Len(opens) - n
    BY <2>2, GivenCount DEF TableInv
  <2>5. IsFiniteSet(G \cup H) /\ Cardinality(G \cup H) <= Cardinality(G) + Cardinality(H)
    <3>1. /\ IsFiniteSet(G \cup H)
          /\ Cardinality(G \cup H) = Cardinality(G) + Cardinality(H) - Cardinality(G \cap H)
      BY <2>3, <2>4, FS_Union
    <3>2. IsFiniteSet(G \cap H)
      BY <2>4, FS_Intersection
    <3>3. Cardinality(G \cap H) \in Nat /\ Cardinality(H) \in Nat
      BY <2>3, <3>2, FS_CardinalityType
    <3>4. QED
      BY <2>4, <3>1, <3>3
  <2>6. Cardinality(Ids) = IdSpace
    <3>1. 0 \in Int /\ IdSpace - 1 \in Int /\ ~(0 > IdSpace - 1)
      BY TableAssumption
    <3>2. Cardinality(0..(IdSpace - 1)) = IdSpace - 1 - 0 + 1
      BY <3>1, FS_Interval
    <3>3. QED
      BY <3>2, TableAssumption DEF Ids
  <2>7. Cardinality(Ids) <= Cardinality(G \cup H)
    BY <2>3, <2>5, FS_Subset
  <2>8. Cardinality(H) \in Nat /\ Cardinality(G \cup H) \in Nat
    BY <2>3, <2>5, FS_CardinalityType
  <2>9. Len(opens) \in Nat /\ n \in Nat
    BY DEF TableInv
  <2>10. QED
    BY <2>3, <2>4, <2>5, <2>6, <2>7, <2>8, <2>9, TableAssumption DEF Most
<1>4. QED
  BY <1>1, <1>2, <1>3, TableSound, PTL DEF TableSpec

-----------------------------------------------------------------------------
(***************************************************************************)
(* Units of tokens.                                                        *)
(***************************************************************************)
LEMMA CapacityType ==
    Capacity \in Nat /\ Capacity >= Window /\ Window \in Nat \ {0} /\ PerMinute \in Nat \ {0}
<1>1. PICK k \in Nat : PerMinute = k + 1
  <2>1. PerMinute - 1 \in Nat /\ PerMinute = (PerMinute - 1) + 1
    BY AdmissionAssumption DEF AdmissionAssumption
  <2> QED
    BY <2>1
<1>2. Window \in Nat \ {0}
  BY AdmissionAssumption DEF AdmissionAssumption
<1>3. k * Window \in Nat /\ (k + 1) * Window = k * Window + Window
  BY <1>2
<1> QED
  BY <1>1, <1>2, <1>3, AdmissionAssumption DEF AdmissionAssumption, Capacity

LEMMA RefillType ==
    ASSUME NEW t \in Nat, NEW n \in Nat
    PROVE  PerMinute * n \in Nat /\ Least(t + PerMinute * n, Capacity) \in 0..Capacity
<1>1. PerMinute * n \in Nat
  BY CapacityType
<1> QED
  BY <1>1, CapacityType DEF Least

\* What the limiter keeps: a bucket has no more than the limit, and was filled at some
\* moment that has been.
LimiterInv ==
    /\ now \in Nat
    /\ bucket \in [Addrs -> [tokens : 0..Capacity, at : 0..now] \cup {NoBucket}]
    /\ lastFailure \in [Addrs -> {Never} \cup 0..now]
    /\ failures \in [Addrs -> Nat]
    /\ pending \in [Addrs -> Nat]
    /\ at \in [Conns -> Location]

\* A bucket of the limiter is not the mark of a missing one.
LEMMA BucketIsOne ==
    ASSUME NEW t \in Nat, NEW n \in Nat, NEW b, b = [tokens |-> t, at |-> n]
    PROVE  b # NoBucket /\ b.tokens = t /\ b.at = n
<1>1. b \in [tokens : Nat, at : Nat]
  OBVIOUS
<1> QED
  BY <1>1, AdmissionAssumption DEF AdmissionAssumption

LEMMA RefillEffect ==
    ASSUME LimiterInv, NEW a \in Addrs, bucket[a] # NoBucket
    PROVE  /\ Refill(bucket[a]) = [tokens |-> Tokens(a), at |-> now]
           /\ Refill(bucket[a]) \in [tokens : 0..Capacity, at : 0..now]
           /\ Refill(bucket[a]) # NoBucket
           /\ Tokens(a) \in 0..Capacity
<1>1. PICK t \in 0..Capacity, n \in 0..now : bucket[a] = [tokens |-> t, at |-> n]
  BY DEF LimiterInv
<1>2. t \in Nat /\ now - n \in Nat /\ now \in Nat
  BY CapacityType DEF LimiterInv
<1>3. PICK r : r = Least(t + PerMinute * (now - n), Capacity)
  OBVIOUS
<1>4. r \in 0..Capacity
  BY <1>2, <1>3, RefillType
<1>5. Refill(bucket[a]) = [tokens |-> r, at |-> now] /\ Tokens(a) = r
  BY <1>1, <1>3 DEF Refill, Tokens
<1> QED
  BY <1>2, <1>4, <1>5, BucketIsOne, CapacityType

LEMMA TokensType ==
    ASSUME LimiterInv, NEW a \in Addrs
    PROVE  Tokens(a) \in 0..Capacity
<1>1. CASE bucket[a] = NoBucket
  BY <1>1, CapacityType DEF Tokens
<1>2. CASE bucket[a] # NoBucket
  BY <1>2, RefillEffect
<1> QED
  BY <1>1, <1>2

\* What a bucket filled to `t' at this moment holds at this moment.
LEMMA FilledNow ==
    ASSUME LimiterInv, NEW a \in Addrs, NEW t \in 0..Capacity,
           bucket'[a] = [tokens |-> t, at |-> now], now' = now
    PROVE  Tokens(a)' = t
<1>1. PICK b : b = bucket'[a]
  OBVIOUS
<1>2. now \in Nat /\ t \in Nat
  BY CapacityType DEF LimiterInv
<1>3. b # NoBucket /\ b.tokens = t /\ b.at = now
  BY <1>1, <1>2, BucketIsOne
<1>4. PerMinute * (now - now) = 0
  BY <1>2, CapacityType
<1>5. Least(t + PerMinute * (now - now), Capacity) = t
  BY <1>4, CapacityType DEF Least
<1> QED
  BY <1>1, <1>3, <1>5 DEF Tokens, Refill

\* A bucket that is not touched has what it had.
LEMMA Untouched ==
    ASSUME NEW a \in Addrs, bucket'[a] = bucket[a], now' = now
    PROVE  Tokens(a)' = Tokens(a)
BY DEF Tokens, Refill

\* A look at an address, which refills its bucket, changes no address's tokens.
LEMMA LookEffect ==
    ASSUME LimiterInv, NEW x \in Addrs, Look(x), now' = now
    PROVE  /\ bucket' \in [Addrs -> [tokens : 0..Capacity, at : 0..now] \cup {NoBucket}]
           /\ \A a \in Addrs : Tokens(a)' = Tokens(a)
<1>1. CASE bucket[x] = NoBucket
  <2>1. bucket' = bucket
    BY <1>1 DEF Look, LimiterInv
  <2> QED
    BY <2>1, Untouched DEF LimiterInv
<1>2. CASE bucket[x] # NoBucket
  <2>1. PICK r : r = Refill(bucket[x])
    OBVIOUS
  <2>2. bucket' = [bucket EXCEPT ![x] = r]
    BY <1>2, <2>1 DEF Look, LimiterInv
  <2>3. bucket' \in [Addrs -> [tokens : 0..Capacity, at : 0..now] \cup {NoBucket}]
    BY <1>2, <2>1, <2>2, RefillEffect DEF LimiterInv
  <2>4. bucket'[x] = [tokens |-> Tokens(x), at |-> now]
    BY <1>2, <2>1, <2>2, RefillEffect DEF LimiterInv
  <2>5. Tokens(x)' = Tokens(x)
    BY <2>4, TokensType, FilledNow
  <2>6. ASSUME NEW a \in Addrs, a # x PROVE Tokens(a)' = Tokens(a)
    <3>1. bucket'[a] = bucket[a]
      BY <2>2, <2>6 DEF LimiterInv
    <3> QED
      BY <3>1, Untouched
  <2> QED
    BY <2>3, <2>5, <2>6
<1> QED
  BY <1>1, <1>2

\* A tick adds its share to every bucket, up to the limit.
LEMMA TickEffect ==
    ASSUME LimiterInv, NEW a \in Addrs, bucket' = bucket, now' = now + 1
    PROVE  Tokens(a)' = Least(Tokens(a) + PerMinute, Capacity)
<1>1. CASE bucket[a] = NoBucket
  BY <1>1, CapacityType DEF Tokens, Least
<1>2. CASE bucket[a] # NoBucket
  <2>1. PICK t \in 0..Capacity, n \in 0..now : bucket[a] = [tokens |-> t, at |-> n]
    BY <1>2 DEF LimiterInv
  <2>2. t \in Nat /\ now - n \in Nat /\ now \in Nat /\ n \in Nat
    BY CapacityType DEF LimiterInv
  <2>3. PICK p : p = PerMinute * (now - n)
    OBVIOUS
  <2>4. p \in Nat
    BY <2>2, <2>3, RefillType
  <2> PICK m : m = now + 1
    OBVIOUS
  <2>5. PerMinute * (m - n) = p + PerMinute
    <3>1. m - n = (now - n) + 1
      BY <2>2
    <3>2. PerMinute * ((now - n) + 1) = PerMinute * (now - n) + PerMinute
      BY <2>2, CapacityType
    <3> QED
      BY <2>3, <3>1, <3>2
  <2>6. Tokens(a) = Least(t + p, Capacity)
    BY <1>2, <2>1, <2>3 DEF Tokens, Refill
  <2>7. Tokens(a)' = Least(t + (p + PerMinute), Capacity)
    <3>1. PICK b : b = bucket[a]
      OBVIOUS
    <3>2. b.tokens = t /\ b.at = n
      BY <2>1, <3>1
    <3>3. Tokens(a)' = Least(b.tokens + PerMinute * (m - b.at), Capacity)
      <4>1. now' = m /\ bucket'[a] = b /\ b # NoBucket
        BY <1>2, <3>1
      <4> QED
        BY ONLY <4>1 DEF Tokens, Refill
    <3> QED
      BY ONLY <2>5, <3>2, <3>3, Zenon
  <2>8. Least(t + (p + PerMinute), Capacity) = Least(Least(t + p, Capacity) + PerMinute, Capacity)
    BY <2>2, <2>4, CapacityType DEF Least
  <2> QED
    BY <2>6, <2>7, <2>8
<1> QED
  BY <1>1, <1>2

\* A sweep changes no address's tokens: a full bucket is as good as none.
LEMMA SweepEffect ==
    ASSUME LimiterInv
    PROVE  /\ Swept \in [Addrs -> [tokens : 0..Capacity, at : 0..now] \cup {NoBucket}]
           /\ \A a \in Addrs : Swept[a] = NoBucket => Tokens(a) = Capacity
           /\ \A a \in Addrs : Swept[a] # NoBucket => Swept[a] = [tokens |-> Tokens(a), at |-> now]
           /\ \A a \in Addrs : bucket[a] = NoBucket => Swept[a] = NoBucket
<1>1. ASSUME NEW a \in Addrs
      PROVE  /\ Swept[a] \in [tokens : 0..Capacity, at : 0..now] \cup {NoBucket}
             /\ Swept[a] = NoBucket => Tokens(a) = Capacity
             /\ Swept[a] # NoBucket => Swept[a] = [tokens |-> Tokens(a), at |-> now]
             /\ bucket[a] = NoBucket => Swept[a] = NoBucket
  <2>1. CASE bucket[a] = NoBucket
    BY <2>1 DEF Swept, Tokens
  <2>2. CASE bucket[a] # NoBucket /\ Tokens(a) = Capacity
    BY <2>2 DEF Swept
  <2>3. CASE bucket[a] # NoBucket /\ Tokens(a) # Capacity
    <3>1. Swept[a] = Refill(bucket[a])
      BY <2>3 DEF Swept
    <3> QED
      BY <2>3, <3>1, RefillEffect
  <2> QED
    BY <2>1, <2>2, <2>3
<1>2. Swept = [a \in Addrs |-> Swept[a]]
  BY DEF Swept
<1> QED
  BY <1>1, <1>2

\* A failure costs its address one token, or all it has, and no other address anything;
\* one that finds no room in the table costs nothing, and is not counted.
LEMMA FailedEffect ==
    ASSUME LimiterInv, NEW x \in Addrs, Failed(x), now' = now
    PROVE  /\ bucket' \in [Addrs -> [tokens : 0..Capacity, at : 0..now] \cup {NoBucket}]
           /\ \A a \in Addrs : a # x => Tokens(a)' = Tokens(a)
           /\ \/ /\ Tokens(x)' = Tokens(x)
                 /\ UNCHANGED <<failures, lastFailure>>
              \/ /\ Tokens(x)' = Spent(Tokens(x))
                 /\ failures' = [failures EXCEPT ![x] = @ + 1]
                 /\ lastFailure' = [lastFailure EXCEPT ![x] = now]
<1> DEFINE swept == Crowded(bucket, x) /\ SweepDue
           Buckets == [tokens : 0..Capacity, at : 0..now]
<1>1. PICK b : b = IF swept THEN Swept ELSE bucket
  OBVIOUS
<1>2. \/ /\ Crowded(b, x) /\ bucket' = b /\ UNCHANGED <<failures, lastFailure>>
      \/ /\ ~Crowded(b, x) /\ bucket' = Charged(b, x)
         /\ failures' = [failures EXCEPT ![x] = @ + 1]
         /\ lastFailure' = [lastFailure EXCEPT ![x] = now]
  BY <1>1 DEF Failed
<1>3. b \in [Addrs -> Buckets \cup {NoBucket}]
  BY <1>1, SweepEffect DEF LimiterInv
<1>4. ASSUME NEW a \in Addrs, bucket'[a] = b[a] PROVE Tokens(a)' = Tokens(a)
  <2>1. CASE ~swept
    BY <1>1, <1>4, <2>1, Untouched
  <2>2. CASE swept
    <3>1. CASE Swept[a] = NoBucket
      BY <1>1, <1>4, <2>2, <3>1, SweepEffect DEF Tokens
    <3>2. CASE Swept[a] # NoBucket
      BY <1>1, <1>4, <2>2, <3>2, SweepEffect, TokensType, FilledNow
    <3> QED
      BY <3>1, <3>2
  <2> QED
    BY <2>1, <2>2
<1>5. CASE Crowded(b, x) /\ bucket' = b /\ UNCHANGED <<failures, lastFailure>>
  BY <1>3, <1>4, <1>5
<1>6. CASE /\ ~Crowded(b, x) /\ bucket' = Charged(b, x)
           /\ failures' = [failures EXCEPT ![x] = @ + 1]
           /\ lastFailure' = [lastFailure EXCEPT ![x] = now]
  <2>1. PICK t : t = Spent(Tokens(x))
    OBVIOUS
  <2>2. t \in 0..Capacity /\ Tokens(x) \in 0..Capacity /\ now \in 0..now
    BY <2>1, TokensType, CapacityType DEF LimiterInv, Spent
  <2>3. ASSUME b[x] = NoBucket PROVE Tokens(x) = Capacity
    BY <1>1, <2>3, SweepEffect DEF Tokens
  <2>4. ASSUME b[x] # NoBucket
        PROVE  Refill(b[x]) = [tokens |-> Tokens(x), at |-> now]
    <3>1. CASE ~swept
      BY <1>1, <2>4, <3>1, RefillEffect
    <3>2. CASE swept
      <4>1. bucket[x] = NoBucket
        BY <3>2 DEF Crowded
      <4>2. b[x] = NoBucket
        BY <1>1, <3>2, <4>1, SweepEffect
      <4> QED
        BY <2>4, <4>2
    <3> QED
      BY <3>1, <3>2
  <2>5. bucket' = [b EXCEPT ![x] = [tokens |-> t, at |-> now]]
    <3>1. CASE b[x] = NoBucket
      <4>1. t = Capacity - Window
        BY <2>1, <2>3, <3>1, CapacityType DEF Spent
      <4>2. Charged(b, x) = [b EXCEPT ![x] = [tokens |-> Capacity - Window, at |-> now]]
        BY <1>3, <3>1 DEF Charged
      <4> QED
        BY <1>6, <4>1, <4>2
    <3>2. CASE b[x] # NoBucket
      <4>1. PICK r : r = Refill(b[x])
        OBVIOUS
      <4>2. Charged(b, x) = [b EXCEPT ![x] = [tokens |-> Spent(r.tokens), at |-> now]]
        BY <1>3, <3>2, <4>1 DEF Charged
      <4>3. Spent(r.tokens) = t
        BY <2>1, <2>4, <3>2, <4>1
      <4> QED
        BY <1>6, <4>2, <4>3
    <3> QED
      BY <3>1, <3>2
  <2>6. /\ bucket' \in [Addrs -> Buckets \cup {NoBucket}]
        /\ bucket'[x] = [tokens |-> t, at |-> now]
        /\ \A a \in Addrs : a # x => bucket'[a] = b[a]
    BY <1>3, <2>2, <2>5
  <2>7. Tokens(x)' = t
    BY <2>2, <2>6, FilledNow
  <2> QED
    BY <1>4, <1>6, <2>1, <2>6, <2>7
<1> QED
  BY <1>2, <1>5, <1>6

-----------------------------------------------------------------------------
(***************************************************************************)
(* The inductive invariant.                                                *)
(***************************************************************************)
HeldBy(a) == {c \in Tcp : Held(c) /\ AddrOf[c] = a}

\* What is set aside is for the connections that hold it, of which there are finitely
\* many at any time.
PendingInv ==
    \A a \in Addrs : IsFiniteSet(HeldBy(a)) /\ pending[a] = Cardinality(HeldBy(a))

CoveredInv ==
    \A a \in Addrs : TcpOnly(a) => Window * Cardinality(AtRisk(a)) <= Tokens(a)

\* What was charged and what is left are no more than the limit and what came in.
ChargedInv ==
    \A a \in Addrs :
        TcpOnly(a) => Window * failures[a] + Tokens(a) <= Capacity + PerMinute * now

\* What refilled since the last failure is there, over QUIC too.
RecoversInv ==
    \A a \in Addrs : lastFailure[a] # Never =>
        Least(PerMinute * (now - lastFailure[a]), Capacity) <= Tokens(a)

AdmissionInv == LimiterInv /\ PendingInv /\ CoveredInv /\ ChargedInv /\ RecoversInv

LEMMA ClockTimes ==
    ASSUME NEW k \in Nat, NEW m \in Nat, k <= m
    PROVE  /\ Window * k \in Nat /\ Window * m \in Nat /\ Window * k <= Window * m
           /\ Window * (k + 1) = Window * k + Window
<1>1. Window \in Nat
  BY CapacityType
<1>2. PICK n \in Nat : m = k + n
  <2>1. m - k \in Nat /\ m = k + (m - k)
    OBVIOUS
  <2> QED
    BY <2>1
<1>3. /\ Window * k \in Nat /\ Window * n \in Nat
      /\ Window * (k + n) = Window * k + Window * n
  BY <1>1
<1>4. Window * (k + 1) = Window * k + Window
  BY <1>1
<1> QED
  BY <1>2, <1>3, <1>4

\* Those at risk are among those that hold a token.
LEMMA RiskIsHeld ==
    ASSUME PendingInv, NEW a \in Addrs
    PROVE  /\ IsFiniteSet(AtRisk(a)) /\ Cardinality(AtRisk(a)) \in Nat
           /\ Cardinality(AtRisk(a)) <= pending[a] /\ pending[a] \in Nat
<1>1. AtRisk(a) \subseteq HeldBy(a)
  BY DEF AtRisk, HeldBy, Held
<1> QED
  BY <1>1, FS_Subset, FS_CardinalityType DEF PendingInv

\* What a connection's move does to the sets it is counted in.
LEMMA MoveEffect ==
    ASSUME LimiterInv, NEW c \in Conns, NEW l \in Location, Goto(c, l), NEW a \in Addrs
    PROVE  /\ at' \in [Conns -> Location]
           /\ AddrOf[c] # a => HeldBy(a)' = HeldBy(a) /\ AtRisk(a)' = AtRisk(a)
           /\ c \notin Tcp => HeldBy(a)' = HeldBy(a) /\ AtRisk(a)' = AtRisk(a)
           /\ c \in Tcp /\ AddrOf[c] = a =>
                  /\ HeldBy(a)' = IF l \in {"unproven", "failing"} THEN HeldBy(a) \cup {c}
                                                                   ELSE HeldBy(a) \ {c}
                  /\ AtRisk(a)' = IF l = "unproven" THEN AtRisk(a) \cup {c}
                                                    ELSE AtRisk(a) \ {c}
<1>1. /\ at' \in [Conns -> Location]
      /\ \A d \in Conns : at'[d] = IF d = c THEN l ELSE at[d]
  BY DEF LimiterInv, Goto
<1>2. \A d \in Tcp : d \in Conns
  BY DEF Conns
<1>3. AddrOf[c] # a \/ c \notin Tcp => HeldBy(a)' = HeldBy(a) /\ AtRisk(a)' = AtRisk(a)
  BY <1>1, <1>2 DEF HeldBy, Held, AtRisk
<1>4. ASSUME c \in Tcp, AddrOf[c] = a
      PROVE  HeldBy(a)' = IF l \in {"unproven", "failing"} THEN HeldBy(a) \cup {c}
                                                           ELSE HeldBy(a) \ {c}
  BY <1>1, <1>2, <1>4 DEF HeldBy, Held
<1>5. ASSUME c \in Tcp, AddrOf[c] = a
      PROVE  AtRisk(a)' = IF l = "unproven" THEN AtRisk(a) \cup {c} ELSE AtRisk(a) \ {c}
  BY <1>1, <1>2, <1>5 DEF AtRisk
<1> QED
  BY <1>1, <1>3, <1>4, <1>5

\* A connection lets go of what it held, or never held anything: `End' is right.
LEMMA EndEffect ==
    ASSUME LimiterInv, PendingInv, NEW c \in Conns, NEW l \in {"closed", "proven"},
           Goto(c, l), at[c] \in {"unproven", "failing"},
           IF c \in Tcp THEN End(AddrOf[c]) ELSE UNCHANGED pending
    PROVE  pending' \in [Addrs -> Nat] /\ PendingInv'
<1>0. l \in Location /\ AddrOf[c] \in Addrs
  BY AdmissionAssumption DEF Location, AdmissionAssumption
<1>1. CASE c \notin Tcp
  BY <1>0, <1>1, MoveEffect DEF PendingInv, LimiterInv
<1>2. CASE c \in Tcp
  <2>1. PICK a \in Addrs : a = AddrOf[c]
    BY <1>0
  <2>2. c \in HeldBy(a)
    BY <1>2, <2>1 DEF HeldBy, Held
  <2>3. HeldBy(a)' = HeldBy(a) \ {c}
    BY <1>0, <1>2, <2>1, MoveEffect
  <2>4. /\ IsFiniteSet(HeldBy(a)') /\ Cardinality(HeldBy(a)') = Cardinality(HeldBy(a)) - 1
        /\ Cardinality(HeldBy(a)) \in Nat /\ Cardinality(HeldBy(a)') \in Nat
    BY <2>2, <2>3, FS_RemoveElement, FS_CardinalityType DEF PendingInv
  <2>5. pending[a] = Cardinality(HeldBy(a)) /\ pending[a] # 0
    BY <2>4 DEF PendingInv
  <2>6. pending' = [pending EXCEPT ![a] = pending[a] - 1]
    BY <1>2, <2>1, <2>5 DEF End, LimiterInv
  <2>7. ASSUME NEW b \in Addrs, b # a
        PROVE  HeldBy(b)' = HeldBy(b) /\ pending'[b] = pending[b]
    BY <1>0, <2>1, <2>6, <2>7, MoveEffect DEF LimiterInv
  <2>8. pending' \in [Addrs -> Nat] /\ pending'[a] = Cardinality(HeldBy(a)')
    BY <2>4, <2>5, <2>6 DEF LimiterInv
  <2> QED
    BY <2>4, <2>7, <2>8 DEF PendingInv
<1> QED
  BY <1>1, <1>2

\* A step that changes no tokens and charges nothing, and puts nobody new at risk.
LEMMA Harmless ==
    ASSUME AdmissionInv, UNCHANGED <<now, failures, lastFailure>>,
           \A a \in Addrs : Tokens(a)' = Tokens(a)
    PROVE  /\ ChargedInv' /\ RecoversInv'
           /\ \A a \in Addrs : AtRisk(a)' \subseteq AtRisk(a) /\ TcpOnly(a)
                  => Window * Cardinality(AtRisk(a)') <= Tokens(a)'
<1>1. ChargedInv' /\ RecoversInv'
  BY DEF AdmissionInv, ChargedInv, RecoversInv, TcpOnly
<1>2. ASSUME NEW a \in Addrs, AtRisk(a)' \subseteq AtRisk(a), TcpOnly(a)
      PROVE  Window * Cardinality(AtRisk(a)') <= Tokens(a)'
  <2>1. /\ Cardinality(AtRisk(a)') \in Nat /\ Cardinality(AtRisk(a)) \in Nat
        /\ Cardinality(AtRisk(a)') <= Cardinality(AtRisk(a))
    BY <1>2, RiskIsHeld, FS_Subset, FS_CardinalityType DEF AdmissionInv
  <2>2. /\ Window * Cardinality(AtRisk(a)') <= Window * Cardinality(AtRisk(a))
        /\ Window * Cardinality(AtRisk(a)') \in Nat /\ Window * Cardinality(AtRisk(a)) \in Nat
    BY <2>1, ClockTimes
  <2>3. Window * Cardinality(AtRisk(a)) <= Tokens(a) /\ Tokens(a) \in Nat
    BY <1>2, TokensType, CapacityType DEF AdmissionInv, CoveredInv
  <2>4. Tokens(a)' = Tokens(a)
    OBVIOUS
  <2> QED
    BY <2>2, <2>3, <2>4
<1> QED
  BY <1>1, <1>2

-----------------------------------------------------------------------------
LEMMA AdmissionInit ==
    ASSUME Init PROVE AdmissionInv
<1>1. LimiterInv
  BY DEF Init, LimiterInv, Location, Never
<1>2. ASSUME NEW a \in Addrs
      PROVE  HeldBy(a) = {} /\ AtRisk(a) = {} /\ Tokens(a) = Capacity
  BY DEF Init, HeldBy, Held, AtRisk, Tokens, Conns
<1>3. Cardinality({}) = 0 /\ IsFiniteSet({}) /\ Window * 0 = 0 /\ PerMinute * 0 = 0
  BY FS_EmptySet, CapacityType
<1>4. PendingInv
  BY <1>2, <1>3 DEF Init, PendingInv
<1>5. CoveredInv
  BY <1>2, <1>3, CapacityType DEF CoveredInv
<1>6. ChargedInv
  BY <1>2, <1>3, CapacityType DEF Init, ChargedInv
<1>7. RecoversInv
  BY DEF Init, RecoversInv
<1> QED
  BY <1>1, <1>4, <1>5, <1>6, <1>7 DEF AdmissionInv

\* The accept of a TCP connection sets a token aside for it, or turns it away.
LEMMA AcceptTcpKeeps ==
    ASSUME AdmissionInv, NEW c \in Conns, AcceptTcp(c) PROVE AdmissionInv'
<1>0. PICK x \in Addrs : x = AddrOf[c]
  BY AdmissionAssumption DEF AdmissionAssumption
<1>1. /\ UNCHANGED <<now, lastSweep, failures, lastFailure>>
      /\ Look(x) /\ c \in Tcp /\ at[c] = "absent"
  BY <1>0 DEF AcceptTcp, Begin
<1>2. /\ bucket' \in [Addrs -> [tokens : 0..Capacity, at : 0..now] \cup {NoBucket}]
      /\ \A a \in Addrs : Tokens(a)' = Tokens(a)
  BY <1>1, LookEffect DEF AdmissionInv
<1>3. ChargedInv' /\ RecoversInv'
  BY <1>1, <1>2, Harmless
<1>4. c \notin HeldBy(x) /\ c \notin AtRisk(x)
  BY <1>1 DEF HeldBy, Held, AtRisk
<1>5. CASE Begin(x) /\ Goto(c, "unproven")
  <2>1. /\ at' \in [Conns -> Location]
        /\ HeldBy(x)' = HeldBy(x) \cup {c} /\ AtRisk(x)' = AtRisk(x) \cup {c}
        /\ \A a \in Addrs : a # x => HeldBy(a)' = HeldBy(a) /\ AtRisk(a)' = AtRisk(a)
    BY <1>0, <1>1, <1>5, MoveEffect DEF AdmissionInv, Location
  <2>2. pending' = [pending EXCEPT ![x] = pending[x] + 1]
    BY <1>5 DEF Begin
  <2>3. /\ pending' \in [Addrs -> Nat] /\ pending'[x] = pending[x] + 1
        /\ \A a \in Addrs : a # x => pending'[a] = pending[a]
    BY <2>2 DEF AdmissionInv, LimiterInv
  <2>4. /\ IsFiniteSet(HeldBy(x)') /\ Cardinality(HeldBy(x)') = Cardinality(HeldBy(x)) + 1
    BY <1>4, <2>1, FS_AddElement DEF AdmissionInv, PendingInv
  <2>5. PendingInv'
    BY <2>1, <2>3, <2>4 DEF AdmissionInv, PendingInv
  <2>6. CoveredInv'
    <3> SUFFICES ASSUME NEW a \in Addrs, TcpOnly(a)
                 PROVE  Window * Cardinality(AtRisk(a)') <= Tokens(a)'
      BY DEF CoveredInv, TcpOnly
    <3>1. CASE a # x
      BY <1>1, <1>2, <2>1, <3>1, Harmless
    <3>2. CASE a = x
      <4>1. PICK k \in Nat : k = Cardinality(AtRisk(x))
        BY RiskIsHeld DEF AdmissionInv
      <4>2. Cardinality(AtRisk(x)') = k + 1
        <5>1. IsFiniteSet(AtRisk(x))
          BY RiskIsHeld DEF AdmissionInv
        <5>2. Cardinality(AtRisk(x) \cup {c}) = Cardinality(AtRisk(x)) + 1
          BY <1>4, <5>1, FS_AddElement
        <5> QED
          BY <2>1, <4>1, <5>2
      <4>3. k <= pending[x] /\ pending[x] \in Nat
        BY <4>1, RiskIsHeld DEF AdmissionInv
      <4>4. /\ Window * k \in Nat /\ Window * pending[x] \in Nat
            /\ Window * k <= Window * pending[x]
            /\ Window * (k + 1) = Window * k + Window
        BY <4>3, ClockTimes
      <4>5. Tokens(x) - Window * pending[x] >= Window /\ Tokens(x) \in Nat
        BY <1>5, TokensType, CapacityType DEF Begin, Permits, AdmissionInv
      <4>6. Window * (k + 1) <= Tokens(x)
        BY <4>4, <4>5, CapacityType
      <4> QED
        BY <1>2, <3>2, <4>2, <4>6
    <3> QED
      BY <3>1, <3>2
  <2>7. LimiterInv'
    BY <1>1, <1>2, <2>1, <2>3 DEF AdmissionInv, LimiterInv
  <2> QED
    BY <1>3, <2>5, <2>6, <2>7 DEF AdmissionInv
<1>6. CASE Goto(c, "closed") /\ UNCHANGED pending
  <2>1. /\ at' \in [Conns -> Location]
        /\ \A a \in Addrs : HeldBy(a)' = HeldBy(a) /\ AtRisk(a)' = AtRisk(a)
    BY <1>0, <1>1, <1>4, <1>6, MoveEffect DEF AdmissionInv, Location
  <2>2. PendingInv'
    BY <1>6, <2>1 DEF AdmissionInv, PendingInv
  <2>3. CoveredInv'
    BY <1>1, <1>2, <2>1, Harmless DEF CoveredInv, TcpOnly
  <2>4. LimiterInv'
    BY <1>1, <1>2, <1>6, <2>1 DEF AdmissionInv, LimiterInv
  <2> QED
    BY <1>3, <2>2, <2>3, <2>4 DEF AdmissionInv
<1> QED
  BY <1>0, <1>5, <1>6 DEF AcceptTcp

LEMMA AcceptQuicKeeps ==
    ASSUME AdmissionInv, NEW c \in Conns, AcceptQuic(c) PROVE AdmissionInv'
<1>0. PICK x \in Addrs : x = AddrOf[c]
  BY AdmissionAssumption DEF AdmissionAssumption
<1>1. /\ UNCHANGED <<now, pending, lastSweep, failures, lastFailure>>
      /\ Look(x) /\ c \notin Tcp
  BY <1>0, AdmissionAssumption DEF AcceptQuic, AdmissionAssumption
<1>2. PICK l \in Location : Goto(c, l)
  BY DEF AcceptQuic, Location
<1>3. /\ bucket' \in [Addrs -> [tokens : 0..Capacity, at : 0..now] \cup {NoBucket}]
      /\ \A a \in Addrs : Tokens(a)' = Tokens(a)
  BY <1>1, LookEffect DEF AdmissionInv
<1>4. /\ at' \in [Conns -> Location]
      /\ \A a \in Addrs : HeldBy(a)' = HeldBy(a) /\ AtRisk(a)' = AtRisk(a)
  BY <1>0, <1>1, <1>2, MoveEffect DEF AdmissionInv
<1>5. PendingInv'
  BY <1>1, <1>4 DEF AdmissionInv, PendingInv
<1>6. CoveredInv' /\ ChargedInv' /\ RecoversInv'
  BY <1>1, <1>3, <1>4, Harmless DEF CoveredInv, TcpOnly
<1>7. LimiterInv'
  BY <1>1, <1>3, <1>4 DEF AdmissionInv, LimiterInv
<1> QED
  BY <1>5, <1>6, <1>7 DEF AdmissionInv

\* A connection is excused, lets go, or is proven: nothing is charged.
LEMMA LeavingKeeps ==
    ASSUME AdmissionInv, NEW c \in Conns, Excuse(c) \/ LetGo(c) \/ Prove(c)
    PROVE  AdmissionInv'
<1>1. UNCHANGED <<now, bucket, lastSweep, failures, lastFailure>>
  BY DEF Excuse, LetGo, Prove, limiter
<1>2. \A a \in Addrs : Tokens(a)' = Tokens(a)
  BY <1>1, Untouched
<1>3. PICK l \in {"failing", "closed", "proven"} : Goto(c, l)
  BY DEF Excuse, LetGo, Prove
<1>4. /\ l \in Location /\ l # "unproven"
      /\ \A a \in Addrs : AtRisk(a)' \subseteq AtRisk(a)
      /\ at' \in [Conns -> Location]
  <2>1. l \in Location /\ l # "unproven"
    BY DEF Location
  <2>2. \A a \in Addrs : AtRisk(a)' \subseteq AtRisk(a)
    BY <1>3, <2>1, MoveEffect DEF AdmissionInv
  <2>3. at' \in [Conns -> Location]
    BY <1>3, <2>1 DEF Goto, AdmissionInv, LimiterInv
  <2> QED
    BY <2>1, <2>2, <2>3
<1>5. CoveredInv' /\ ChargedInv' /\ RecoversInv'
  BY <1>1, <1>2, <1>4, Harmless DEF CoveredInv, TcpOnly
<1>6. pending' \in [Addrs -> Nat] /\ PendingInv'
  <2>1. CASE Excuse(c)
    <3>1. Goto(c, "failing") /\ "failing" \in Location /\ pending' = pending
          /\ at[c] = "unproven"
      BY <2>1 DEF Excuse, limiter, Location
    <3>2. \A a \in Addrs : c \in Tcp /\ AddrOf[c] = a => c \in HeldBy(a)
      BY <3>1 DEF HeldBy, Held
    <3>3. \A a \in Addrs : HeldBy(a)' = HeldBy(a)
      BY <3>1, <3>2, MoveEffect DEF AdmissionInv
    <3> QED
      BY <3>1, <3>3 DEF AdmissionInv, LimiterInv, PendingInv
  <2>2. CASE LetGo(c)
    BY <2>2, EndEffect DEF LetGo, AdmissionInv
  <2>3. CASE Prove(c)
    BY <2>3, EndEffect DEF Prove, AdmissionInv
  <2> QED
    BY <2>1, <2>2, <2>3
<1>7. LimiterInv'
  BY <1>1, <1>4, <1>6 DEF AdmissionInv, LimiterInv
<1> QED
  BY <1>5, <1>6, <1>7 DEF AdmissionInv

\* A failure is charged to a token the address has, if it comes over TCP only.
LEMMA FailKeeps ==
    ASSUME AdmissionInv, NEW c \in Conns, Fail(c) PROVE AdmissionInv'
<1>0. PICK x \in Addrs : x = AddrOf[c]
  BY AdmissionAssumption DEF AdmissionAssumption
<1>1. /\ now' = now /\ pending' = pending /\ at[c] = "unproven"
      /\ Failed(x) /\ Goto(c, "failing") /\ "failing" \in Location
  BY <1>0 DEF Fail, Location
<1>2. /\ bucket' \in [Addrs -> [tokens : 0..Capacity, at : 0..now] \cup {NoBucket}]
      /\ \A a \in Addrs : a # x => Tokens(a)' = Tokens(a)
      /\ \/ /\ Tokens(x)' = Tokens(x)
            /\ UNCHANGED <<failures, lastFailure>>
         \/ /\ Tokens(x)' = Spent(Tokens(x))
            /\ failures' = [failures EXCEPT ![x] = @ + 1]
            /\ lastFailure' = [lastFailure EXCEPT ![x] = now]
  BY <1>1, FailedEffect DEF AdmissionInv
<1>3. \A a \in Addrs : c \in Tcp /\ AddrOf[c] = a => c \in HeldBy(a) /\ c \in AtRisk(a)
  BY <1>1 DEF HeldBy, Held, AtRisk
<1>4. /\ at' \in [Conns -> Location]
      /\ \A a \in Addrs : HeldBy(a)' = HeldBy(a)
      /\ \A a \in Addrs : a # x => AtRisk(a)' = AtRisk(a)
      /\ c \in Tcp => AtRisk(x)' = AtRisk(x) \ {c}
  BY <1>0, <1>1, <1>3, MoveEffect DEF AdmissionInv
<1>5. PendingInv'
  BY <1>1, <1>4 DEF AdmissionInv, PendingInv
<1>6. LimiterInv'
  <2>1. failures' \in [Addrs -> Nat] /\ lastFailure' \in [Addrs -> {Never} \cup 0..now]
    BY <1>2 DEF AdmissionInv, LimiterInv
  <2> QED
    BY <1>1, <1>2, <1>4, <2>1 DEF AdmissionInv, LimiterInv
\* The address of a connection over TCP that may still fail has a token for it.
<1>7. ASSUME TcpOnly(x)
      PROVE  /\ Cardinality(AtRisk(x)') \in Nat /\ Tokens(x) \in Nat
             /\ Window * Cardinality(AtRisk(x)') \in Nat
             /\ Window * Cardinality(AtRisk(x)') + Window <= Tokens(x)
  <2>1. c \in Tcp
    BY <1>0, <1>7 DEF TcpOnly, Conns
  <2>2. PICK k : k = Cardinality(AtRisk(x)')
    OBVIOUS
  <2>3. k = Cardinality(AtRisk(x)) - 1 /\ IsFiniteSet(AtRisk(x)')
    BY <1>0, <1>3, <1>4, <2>1, <2>2, RiskIsHeld, FS_RemoveElement DEF AdmissionInv
  <2>4. k \in Nat /\ Cardinality(AtRisk(x)) = k + 1
    <3>1. k \in Nat
      BY <2>2, <2>3, FS_CardinalityType
    <3>2. Cardinality(AtRisk(x)) \in Nat
      BY RiskIsHeld DEF AdmissionInv
    <3> QED
      BY <2>3, <3>1, <3>2
  <2>5. Window * (k + 1) = Window * k + Window /\ Window * k \in Nat
    BY <2>4, ClockTimes
  <2>6. Window * (k + 1) <= Tokens(x) /\ Tokens(x) \in Nat
    BY <1>7, <2>4, TokensType, CapacityType DEF AdmissionInv, CoveredInv
  <2> QED
    BY <2>2, <2>4, <2>5, <2>6
<1>8. CoveredInv'
  <2> SUFFICES ASSUME NEW a \in Addrs, TcpOnly(a)
               PROVE  Window * Cardinality(AtRisk(a)') <= Tokens(a)'
    BY DEF CoveredInv, TcpOnly
  <2>1. CASE a # x
    BY <1>2, <1>4, <2>1 DEF AdmissionInv, CoveredInv
  <2>2. CASE a = x
    <3>1. PICK w \in Nat : w = Window * Cardinality(AtRisk(x)')
      BY <1>7, <2>2
    <3>2. w + Window <= Tokens(x) /\ Tokens(x) \in Nat
      BY <1>7, <2>2, <3>1
    <3>3. w <= Tokens(x)'
      BY <1>2, <3>2, CapacityType DEF Spent
    <3> QED
      BY <2>2, <3>1, <3>3
  <2> QED
    BY <2>1, <2>2
<1>9. ChargedInv'
  <2> SUFFICES ASSUME NEW a \in Addrs, TcpOnly(a)
               PROVE  Window * failures'[a] + Tokens(a)' <= Capacity + PerMinute * now
    BY <1>1 DEF ChargedInv, TcpOnly
  <2>1. CASE a # x
    <3>1. failures'[a] = failures[a] /\ Tokens(a)' = Tokens(a)
      BY <1>2, <2>1 DEF AdmissionInv, LimiterInv
    <3> QED
      BY <3>1 DEF AdmissionInv, ChargedInv
  <2>2. CASE a = x /\ UNCHANGED failures /\ Tokens(x)' = Tokens(x)
    BY <2>2 DEF AdmissionInv, ChargedInv
  <2>3. CASE a = x /\ failures' = [failures EXCEPT ![x] = @ + 1]
             /\ Tokens(x)' = Spent(Tokens(x))
    <3>1. Tokens(x) \in Nat /\ Tokens(x) >= Window
      BY <1>7, <2>3, CapacityType
    <3>2. Tokens(x)' = Tokens(x) - Window
      BY <2>3, <3>1, CapacityType DEF Spent
    <3>3. PICK k \in Nat : k = failures[x] /\ failures'[x] = k + 1
      BY <2>3 DEF AdmissionInv, LimiterInv
    <3>4. Window * (k + 1) = Window * k + Window /\ Window * k \in Nat
      BY ClockTimes
    <3>5. PICK p : p = PerMinute * now
      OBVIOUS
    <3>6. p \in Nat
      BY <3>5, RefillType DEF AdmissionInv, LimiterInv
    <3>7. Window * k + Tokens(x) <= Capacity + p
      BY <2>3, <3>3, <3>5 DEF AdmissionInv, ChargedInv
    <3>8. Window * (k + 1) + Tokens(x)' <= Capacity + p
      BY <3>1, <3>2, <3>4, <3>6, <3>7, CapacityType
    <3> QED
      BY <2>3, <3>3, <3>5, <3>8
  <2> QED
    BY <1>2, <2>1, <2>2, <2>3
<1>10. RecoversInv'
  <2> SUFFICES ASSUME NEW a \in Addrs, lastFailure'[a] # Never
               PROVE  Least(PerMinute * (now - lastFailure'[a]), Capacity) <= Tokens(a)'
    BY <1>1 DEF RecoversInv
  <2>1. CASE lastFailure'[a] = lastFailure[a] /\ Tokens(a)' = Tokens(a)
    BY <2>1 DEF AdmissionInv, RecoversInv
  <2>2. CASE a = x /\ lastFailure'[a] = now /\ Tokens(x)' = Spent(Tokens(x))
    <3>1. PerMinute * (now - now) = 0
      BY CapacityType DEF AdmissionInv, LimiterInv
    <3>2. Least(PerMinute * (now - now), Capacity) = 0
      BY <3>1, CapacityType DEF Least
    <3>3. Tokens(x)' >= 0
      BY <2>2, TokensType, CapacityType DEF AdmissionInv, Spent
    <3> QED
      BY <2>2, <3>2, <3>3
  <2>3. \/ lastFailure'[a] = lastFailure[a] /\ Tokens(a)' = Tokens(a)
        \/ a = x /\ lastFailure'[a] = now /\ Tokens(x)' = Spent(Tokens(x))
    BY <1>2 DEF AdmissionInv, LimiterInv
  <2> QED
    BY <2>1, <2>2, <2>3
<1> QED
  BY <1>5, <1>6, <1>8, <1>9, <1>10 DEF AdmissionInv

LEMMA TickKeeps ==
    ASSUME AdmissionInv, Tick PROVE AdmissionInv'
<1>1. /\ now' = now + 1 /\ now \in Nat
      /\ UNCHANGED <<at, bucket, pending, lastSweep, failures, lastFailure>>
  BY DEF Tick, limiter, AdmissionInv, LimiterInv
<1>2. \A a \in Addrs : Tokens(a)' = Least(Tokens(a) + PerMinute, Capacity)
  BY <1>1, TickEffect DEF AdmissionInv
<1>3. \A a \in Addrs : HeldBy(a)' = HeldBy(a) /\ AtRisk(a)' = AtRisk(a)
  BY <1>1 DEF HeldBy, Held, AtRisk
<1>4. LimiterInv'
  <2>1. 0..now \subseteq 0..now'
    BY <1>1
  <2>2. [tokens : 0..Capacity, at : 0..now] \subseteq [tokens : 0..Capacity, at : 0..now']
    BY <2>1
  <2>3. /\ bucket' \in [Addrs -> [tokens : 0..Capacity, at : 0..now'] \cup {NoBucket}]
        /\ lastFailure' \in [Addrs -> {Never} \cup 0..now']
    BY <1>1, <2>1, <2>2 DEF AdmissionInv, LimiterInv
  <2> QED
    BY <1>1, <2>3 DEF AdmissionInv, LimiterInv
<1>5. PendingInv'
  BY <1>1, <1>3 DEF AdmissionInv, PendingInv
<1>6. ASSUME NEW a \in Addrs
      PROVE  /\ Tokens(a) \in 0..Capacity /\ Tokens(a)' >= Tokens(a) /\ Tokens(a)' \in Nat
             /\ Tokens(a)' <= Tokens(a) + PerMinute
             /\ \A t \in Nat : Least(t, Capacity) <= Tokens(a)
                    => Least(t + PerMinute, Capacity) <= Tokens(a)'
  <2>1. Tokens(a) \in 0..Capacity
    BY TokensType DEF AdmissionInv
  <2> QED
    BY <1>2, <2>1, CapacityType DEF Least
<1>7. CoveredInv'
  <2> SUFFICES ASSUME NEW a \in Addrs, TcpOnly(a)
               PROVE  Window * Cardinality(AtRisk(a)') <= Tokens(a)'
    BY DEF CoveredInv, TcpOnly
  <2>1. PICK w : w = Window * Cardinality(AtRisk(a))
    OBVIOUS
  <2>2. w \in Nat /\ w <= Tokens(a)
    BY <2>1, RiskIsHeld, ClockTimes DEF AdmissionInv, CoveredInv
  <2>3. w <= Tokens(a)'
    BY <1>6, <2>2, CapacityType
  <2> QED
    BY <1>3, <2>1, <2>3
<1>8. ChargedInv'
  <2> SUFFICES ASSUME NEW a \in Addrs, TcpOnly(a)
               PROVE  Window * failures[a] + Tokens(a)' <= Capacity + PerMinute * (now + 1)
    BY <1>1 DEF ChargedInv, TcpOnly
  <2>1. PICK w : w = Window * failures[a]
    OBVIOUS
  <2>2. w \in Nat
    BY <2>1, ClockTimes DEF AdmissionInv, LimiterInv
  <2>3. PICK p : p = PerMinute * now
    OBVIOUS
  <2>4. p \in Nat /\ PerMinute * (now + 1) = p + PerMinute
    BY <1>1, <2>3, CapacityType
  <2>5. w + Tokens(a) <= Capacity + p
    BY <2>1, <2>3 DEF AdmissionInv, ChargedInv
  <2>6. w + Tokens(a)' <= Capacity + (p + PerMinute)
    BY <1>6, <2>2, <2>4, <2>5, CapacityType
  <2> QED
    BY <2>1, <2>4, <2>6
<1>9. RecoversInv'
  <2> SUFFICES ASSUME NEW a \in Addrs, lastFailure[a] # Never
               PROVE  Least(PerMinute * (now' - lastFailure[a]), Capacity) <= Tokens(a)'
    BY <1>1 DEF RecoversInv
  <2>1. PICK n \in Nat : n = now - lastFailure[a] /\ now' - lastFailure[a] = n + 1
    <3>1. lastFailure[a] \in 0..now
      BY DEF AdmissionInv, LimiterInv
    <3> QED
      BY <1>1, <3>1
  <2>2. PICK t : t = PerMinute * n
    OBVIOUS
  <2>3. t \in Nat /\ PerMinute * (n + 1) = t + PerMinute
    BY <2>2, CapacityType
  <2>4. Least(t, Capacity) <= Tokens(a)
    BY <2>1, <2>2 DEF AdmissionInv, RecoversInv
  <2>5. Least(t + PerMinute, Capacity) <= Tokens(a)'
    BY <1>6, <2>3, <2>4
  <2> QED
    BY <2>1, <2>3, <2>5
<1> QED
  BY <1>4, <1>5, <1>7, <1>8, <1>9 DEF AdmissionInv

LEMMA AdmissionStep ==
    ASSUME AdmissionInv, [Next]_vars PROVE AdmissionInv'
<1>1. CASE UNCHANGED vars
  <2>1. \A a \in Addrs : Tokens(a)' = Tokens(a) /\ HeldBy(a)' = HeldBy(a)
                         /\ AtRisk(a)' = AtRisk(a)
    BY <1>1, Untouched DEF vars, HeldBy, Held, AtRisk
  <2> QED
    BY <1>1, <2>1
       DEF vars, AdmissionInv, LimiterInv, PendingInv, CoveredInv, ChargedInv, RecoversInv,
           TcpOnly
<1> QED
  BY <1>1, AcceptTcpKeeps, AcceptQuicKeeps, FailKeeps, LeavingKeeps, TickKeeps
     DEF Next, Over

-----------------------------------------------------------------------------
\* Every TCP attempt under way has a token of its own to lose, and what the limiter
\* has set aside is for exactly the connections that hold something (begin, failed and
\* end in server/limiter.rs, and every way out of a handshake).
THEOREM HoldsAreCovered == Spec => []HoldsCovered
<1>1. AdmissionInv => HoldsCovered
  BY DEF AdmissionInv, PendingInv, CoveredInv, HoldsCovered, HeldBy
<1> QED
  BY <1>1, AdmissionInit, AdmissionStep, PTL DEF Spec

\* An address that comes over TCP is charged the limit and what refills, however its
\* attempts overlap and whatever is swept, and one that is refused is let in again one
\* token's time after its last failure.
THEOREM LimitIsExact == Spec => []LimitExact
<1>1. AdmissionInv => LimitExact
  <2> SUFFICES ASSUME AdmissionInv, NEW a \in Addrs
               PROVE  /\ TcpOnly(a) => Window * failures[a] <= Capacity + PerMinute * now
                      /\ /\ pending[a] = 0 /\ lastFailure[a] # Never
                         /\ PerMinute * (now - lastFailure[a]) >= Window
                         => Permits(a)
    BY DEF LimitExact
  <2>1. Tokens(a) \in 0..Capacity
    BY TokensType DEF AdmissionInv
  <2>2. ASSUME TcpOnly(a) PROVE Window * failures[a] <= Capacity + PerMinute * now
    <3>1. PICK w : w = Window * failures[a]
      OBVIOUS
    <3>2. PICK p : p = PerMinute * now
      OBVIOUS
    <3>3. w \in Nat /\ p \in Nat
      BY <3>1, <3>2, ClockTimes, RefillType DEF AdmissionInv, LimiterInv
    <3>4. w + Tokens(a) <= Capacity + p
      BY <2>2, <3>1, <3>2 DEF AdmissionInv, ChargedInv
    <3>5. w <= Capacity + p
      BY <2>1, <3>3, <3>4, CapacityType
    <3> QED
      BY <3>1, <3>2, <3>5
  <2>3. ASSUME pending[a] = 0, lastFailure[a] # Never,
               PerMinute * (now - lastFailure[a]) >= Window
        PROVE  Permits(a)
    <3>1. PICK t : t = PerMinute * (now - lastFailure[a])
      OBVIOUS
    <3>2. now - lastFailure[a] \in Nat
      BY <2>3 DEF AdmissionInv, LimiterInv
    <3>3. t \in Nat /\ t >= Window
      BY <2>3, <3>1, <3>2, RefillType
    <3>4. Least(t, Capacity) <= Tokens(a)
      BY <2>3, <3>1 DEF AdmissionInv, RecoversInv
    <3>5. Tokens(a) >= Window
      BY <2>1, <3>3, <3>4, CapacityType DEF Least
    <3>6. Window * pending[a] = 0
      BY <2>3, CapacityType
    <3> QED
      BY <2>1, <3>5, <3>6, CapacityType DEF Permits
  <2> QED
    BY <2>2, <2>3
<1> QED
  BY <1>1, AdmissionInit, AdmissionStep, PTL DEF Spec
=============================================================================
