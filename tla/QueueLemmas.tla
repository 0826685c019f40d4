---------------------------- MODULE QueueLemmas ----------------------------
(***************************************************************************)
(* What the proofs about message queues need: which message of a kind is   *)
(* the last in a queue, how many of a kind there are, and what appending,  *)
(* taking the head and putting two queues one after the other do to these. *)
(***************************************************************************)
EXTENDS Integers, Sequences, FiniteSets, FiniteSetTheorems, SequenceTheorems, TLAPS

\* The queue has a message of T, and the last of them is in G.
Lasts(q, T, G) ==
    \E i \in DOMAIN q : q[i] \in G /\ \A j \in DOMAIN q : j > i => q[j] \notin T
Lacks(q, T) == \A i \in DOMAIN q : q[i] \notin T

Spots(q, T) == {i \in DOMAIN q : q[i] \in T}
HowMany(q, T) == Cardinality(Spots(q, T))

-----------------------------------------------------------------------------
\* The elements of a queue that grows by one, and of one that loses its head.
LEMMA AppendIs ==
    ASSUME NEW E, NEW q \in Seq(E), NEW e \in E
    PROVE  /\ Append(q, e) \in Seq(E) /\ Len(q) \in Nat
           /\ DOMAIN q = 1..Len(q) /\ DOMAIN Append(q, e) = 1..(Len(q) + 1)
           /\ Append(q, e)[Len(q) + 1] = e
           /\ \A i \in 1..Len(q) : Append(q, e)[i] = q[i]
OBVIOUS

\* A queue that loses its head.
LEMMA TailIs ==
    ASSUME NEW E, NEW q \in Seq(E), q # <<>>
    PROVE  /\ Tail(q) \in Seq(E) /\ Head(q) \in E /\ Head(q) = q[1]
           /\ Len(q) \in Nat /\ Len(q) >= 1
           /\ DOMAIN q = 1..Len(q) /\ DOMAIN Tail(q) = 1..(Len(q) - 1)
           /\ \A i \in 1..(Len(q) - 1) : Tail(q)[i] = q[i + 1]
OBVIOUS

\* Two queues, one after the other.
LEMMA ConcatIs ==
    ASSUME NEW E, NEW q \in Seq(E), NEW r \in Seq(E)
    PROVE  /\ q \o r \in Seq(E) /\ Len(q) \in Nat /\ Len(r) \in Nat
           /\ DOMAIN q = 1..Len(q) /\ DOMAIN r = 1..Len(r)
           /\ DOMAIN (q \o r) = 1..(Len(q) + Len(r))
           /\ \A i \in 1..Len(q) : (q \o r)[i] = q[i]
           /\ \A i \in 1..Len(r) : (q \o r)[Len(q) + i] = r[i]
<1>1. q \o r \in Seq(E) /\ Len(q \o r) = Len(q) + Len(r)
  BY ConcatProperties
<1>2. Len(q) \in Nat /\ Len(r) \in Nat /\ DOMAIN q = 1..Len(q) /\ DOMAIN r = 1..Len(r)
  OBVIOUS
<1>3. DOMAIN (q \o r) = 1..(Len(q) + Len(r))
  BY <1>1
<1>4. \A i \in 1..(Len(q) + Len(r)) :
          (q \o r)[i] = IF i <= Len(q) THEN q[i] ELSE r[i - Len(q)]
  BY ConcatProperties
<1>5. \A i \in 1..Len(q) : (q \o r)[i] = q[i]
  BY <1>2, <1>4
<1>6. ASSUME NEW i \in 1..Len(r) PROVE (q \o r)[Len(q) + i] = r[i]
  <2>1. Len(q) + i \in 1..(Len(q) + Len(r)) /\ ~(Len(q) + i <= Len(q)) /\ Len(q) + i - Len(q) = i
    BY <1>2
  <2>2. QED
    BY <1>4, <2>1
<1>7. QED
  BY <1>1, <1>2, <1>3, <1>5, <1>6

\* What is first in the first of two queues is first in the two.
LEMMA TailConcat ==
    ASSUME NEW E, NEW q \in Seq(E), NEW r \in Seq(E), q # <<>>
    PROVE  q \o r # <<>> /\ Head(q \o r) = Head(q) /\ Tail(q \o r) = Tail(q) \o r
<1>1. /\ q \o r \in Seq(E) /\ Len(q) \in Nat /\ Len(r) \in Nat
      /\ Len(q \o r) = Len(q) + Len(r) /\ Len(q) >= 1
      /\ \A i \in 1..Len(q) : (q \o r)[i] = q[i]
      /\ \A i \in 1..Len(r) : (q \o r)[Len(q) + i] = r[i]
  BY ConcatIs, ConcatProperties, TailIs
<1>2. q \o r # <<>> /\ Head(q \o r) = (q \o r)[1]
  BY <1>1
<1>3. Tail(q) \in Seq(E) /\ Len(Tail(q)) = Len(q) - 1 /\ Tail(q \o r) \in Seq(E)
      /\ Len(Tail(q \o r)) = Len(q) + Len(r) - 1
  BY <1>1, <1>2, HeadTailProperties
<1>4. Tail(q) \o r \in Seq(E) /\ Len(Tail(q) \o r) = Len(q) + Len(r) - 1
  BY <1>1, <1>3, ConcatProperties
<1>5. ASSUME NEW i \in 1..(Len(q) + Len(r) - 1) PROVE Tail(q \o r)[i] = (Tail(q) \o r)[i]
  <2>1. Tail(q \o r)[i] = (q \o r)[i + 1]
    BY <1>1, <1>2, TailIs
  <2>2. CASE i < Len(q)
    <3>1. i \in 1..Len(Tail(q)) /\ i + 1 \in 1..Len(q) /\ i \in 1..(Len(q) - 1)
      BY <1>1, <1>3, <2>2
    <3>2. (Tail(q) \o r)[i] = Tail(q)[i] /\ Tail(q)[i] = q[i + 1]
      BY <1>3, <3>1, ConcatIs, TailIs
    <3>3. QED
      BY <1>1, <2>1, <3>1, <3>2
  <2>3. CASE i >= Len(q)
    <3> DEFINE k == i - (Len(q) - 1)
    <3>1. k \in 1..Len(r) /\ i = Len(Tail(q)) + k /\ i + 1 = Len(q) + k
      BY <1>1, <1>3, <2>3
    <3> HIDE DEF k
    <3>2. (Tail(q) \o r)[i] = r[k]
      BY <1>3, <3>1, ConcatIs
    <3>3. QED
      BY <1>1, <2>1, <3>1, <3>2
  <2>4. QED
    BY <1>1, <2>2, <2>3
<1>6. Tail(q \o r) = Tail(q) \o r
  BY <1>3, <1>4, <1>5, SeqEqual
<1>7. QED
  BY <1>1, <1>2, <1>6

\* What is last in the second of two queues is last in the two.
LEMMA AppendConcat ==
    ASSUME NEW E, NEW q \in Seq(E), NEW r \in Seq(E), NEW e \in E
    PROVE  q \o Append(r, e) = Append(q \o r, e)
<1>1. <<e>> \in Seq(E) /\ q \o r \in Seq(E)
  BY ConcatProperties
<1>2. Append(r, e) = r \o <<e>> /\ Append(q \o r, e) = (q \o r) \o <<e>>
  BY <1>1, AppendIsConcat
<1>3. q \o (r \o <<e>>) = (q \o r) \o <<e>>
  BY <1>1, ConcatAssociative
<1> QED
  BY <1>2, <1>3

-----------------------------------------------------------------------------
\* An empty queue has nothing of any kind.
LEMMA LastsEmpty == \A T, G : ~Lasts(<<>>, T, G) /\ Lacks(<<>>, T)
<1>1. DOMAIN <<>> = {}
  OBVIOUS
<1>2. QED
  BY <1>1 DEF Lasts, Lacks

\* A message is appended: one that is in G is the last, one that is not in T changes
\* nothing.
LEMMA LastsAppend ==
    ASSUME NEW E, NEW q \in Seq(E), NEW e \in E, NEW T, NEW G
    PROVE  /\ e \in G => Lasts(Append(q, e), T, G)
           /\ e \notin T /\ Lasts(q, T, G) => Lasts(Append(q, e), T, G)
           /\ e \notin T /\ Lacks(q, T) => Lacks(Append(q, e), T)
           /\ Lacks(Append(q, e), T) => e \notin T /\ Lacks(q, T)
<1> DEFINE a == Append(q, e)
<1>1. /\ Len(q) \in Nat /\ DOMAIN q = 1..Len(q) /\ DOMAIN a = 1..(Len(q) + 1)
      /\ a[Len(q) + 1] = e /\ \A i \in 1..Len(q) : a[i] = q[i]
  BY AppendIs
<1> HIDE DEF a
<1>2. e \in G => Lasts(a, T, G)
  BY <1>1 DEF Lasts
<1>3. ASSUME e \notin T, Lasts(q, T, G) PROVE Lasts(a, T, G)
  <2>1. PICK i \in DOMAIN q : q[i] \in G /\ \A j \in DOMAIN q : j > i => q[j] \notin T
    BY <1>3 DEF Lasts
  <2>2. i \in DOMAIN a /\ a[i] \in G
    BY <1>1, <2>1
  <2>3. \A j \in DOMAIN a : j > i => a[j] \notin T
    BY <1>1, <1>3, <2>1
  <2>4. QED
    BY <2>2, <2>3 DEF Lasts
<1>4. e \notin T /\ Lacks(q, T) => Lacks(a, T)
  BY <1>1 DEF Lacks
<1>5. Lacks(a, T) => e \notin T /\ Lacks(q, T)
  BY <1>1 DEF Lacks
<1>6. QED
  BY <1>2, <1>3, <1>4, <1>5 DEF a

\* A message of another kind changes nothing.
LEMMA LastsPassed ==
    ASSUME NEW E, NEW q \in Seq(E), NEW e \in E, NEW T, e \notin T, NEW r, r = Append(q, e), NEW G
    PROVE  /\ Lasts(q, T, G) => Lasts(r, T, G)
           /\ Lacks(q, T) => Lacks(r, T)
BY LastsAppend

\* The head is taken: it was the last, or the last is still there.
LEMMA LastsTail ==
    ASSUME NEW E, NEW q \in Seq(E), q # <<>>, NEW T, NEW G
    PROVE  /\ Lasts(q, T, G) => Lasts(Tail(q), T, G) \/ (Head(q) \in G /\ Lacks(Tail(q), T))
           /\ Lacks(q, T) <=> Head(q) \notin T /\ Lacks(Tail(q), T)
<1> DEFINE t == Tail(q)
<1>1. /\ Head(q) = q[1] /\ Len(q) \in Nat /\ Len(q) >= 1
      /\ DOMAIN q = 1..Len(q) /\ DOMAIN t = 1..(Len(q) - 1)
      /\ \A i \in 1..(Len(q) - 1) : t[i] = q[i + 1]
  BY TailIs
<1> HIDE DEF t
<1>2. ASSUME Lasts(q, T, G) PROVE Lasts(t, T, G) \/ (Head(q) \in G /\ Lacks(t, T))
  <2>1. PICK i \in DOMAIN q : q[i] \in G /\ \A j \in DOMAIN q : j > i => q[j] \notin T
    BY <1>2 DEF Lasts
  <2>2. CASE i = 1
    <3>1. ASSUME NEW j \in DOMAIN t PROVE t[j] \notin T
      <4>1. j + 1 \in DOMAIN q /\ j + 1 > i /\ t[j] = q[j + 1]
        BY <1>1, <2>2
      <4>2. QED
        BY <2>1, <4>1
    <3>2. QED
      BY <1>1, <2>1, <2>2, <3>1 DEF Lacks
  <2>3. CASE i # 1
    <3>1. i - 1 \in DOMAIN t /\ t[i - 1] = q[i]
      <4>1. i - 1 \in 1..(Len(q) - 1) /\ (i - 1) + 1 = i
        BY <1>1, <2>3
      <4>2. QED
        BY <1>1, <4>1
    <3>2. ASSUME NEW j \in DOMAIN t, j > i - 1 PROVE t[j] \notin T
      <4>1. j + 1 \in DOMAIN q /\ j + 1 > i /\ t[j] = q[j + 1]
        BY <1>1, <3>2
      <4>2. QED
        BY <2>1, <4>1
    <3>3. QED
      BY <2>1, <3>1, <3>2 DEF Lasts
  <2>4. QED
    BY <2>2, <2>3
<1>3. ASSUME Lacks(q, T) PROVE Head(q) \notin T /\ Lacks(t, T)
  <2>1. ASSUME NEW j \in DOMAIN t PROVE t[j] \notin T
    <3>1. j + 1 \in DOMAIN q /\ t[j] = q[j + 1]
      BY <1>1
    <3>2. QED
      BY <1>3, <3>1 DEF Lacks
  <2>2. QED
    BY <1>1, <1>3, <2>1 DEF Lacks
<1>4. ASSUME Head(q) \notin T, Lacks(t, T), NEW i \in DOMAIN q PROVE q[i] \notin T
  <2>1. CASE i = 1
    BY <1>1, <1>4, <2>1
  <2>2. CASE i # 1
    <3>1. i - 1 \in DOMAIN t /\ (i - 1) + 1 = i
      BY <1>1, <2>2
    <3>2. t[i - 1] = q[i]
      BY <1>1, <3>1
    <3>3. QED
      BY <1>4, <3>1, <3>2 DEF Lacks
  <2>3. QED
    BY <2>1, <2>2
<1>5. QED
  BY <1>2, <1>3, <1>4 DEF Lacks, t

\* Two queues one after the other.
LEMMA LastsConcat ==
    ASSUME NEW E, NEW q \in Seq(E), NEW r \in Seq(E), NEW T, NEW G
    PROVE  /\ Lasts(r, T, G) => Lasts(q \o r, T, G)
           /\ Lacks(r, T) /\ Lasts(q, T, G) => Lasts(q \o r, T, G)
           /\ Lacks(q \o r, T) <=> Lacks(q, T) /\ Lacks(r, T)
<1> DEFINE c == q \o r
<1>1. /\ Len(q) \in Nat /\ Len(r) \in Nat /\ DOMAIN q = 1..Len(q) /\ DOMAIN r = 1..Len(r)
      /\ DOMAIN c = 1..(Len(q) + Len(r))
      /\ \A i \in 1..Len(q) : c[i] = q[i]
      /\ \A i \in 1..Len(r) : c[Len(q) + i] = r[i]
  BY ConcatIs
<1> HIDE DEF c
<1>2. ASSUME NEW j \in DOMAIN c
      PROVE  \/ j \in DOMAIN q /\ c[j] = q[j]
             \/ j - Len(q) \in DOMAIN r /\ c[j] = r[j - Len(q)]
  <2>1. CASE j <= Len(q)
    BY <1>1, <2>1
  <2>2. CASE j > Len(q)
    <3>1. j - Len(q) \in DOMAIN r /\ Len(q) + (j - Len(q)) = j
      BY <1>1, <2>2
    <3>2. c[Len(q) + (j - Len(q))] = r[j - Len(q)]
      BY <1>1, <3>1
    <3>3. QED
      BY <3>1, <3>2
  <2>3. QED
    BY <1>1, <2>1, <2>2
<1>3. ASSUME Lasts(r, T, G) PROVE Lasts(c, T, G)
  <2>1. PICK i \in DOMAIN r : r[i] \in G /\ \A j \in DOMAIN r : j > i => r[j] \notin T
    BY <1>3 DEF Lasts
  <2>2. Len(q) + i \in DOMAIN c /\ c[Len(q) + i] \in G
    BY <1>1, <2>1
  <2>3. ASSUME NEW j \in DOMAIN c, j > Len(q) + i PROVE c[j] \notin T
    <3>1. j - Len(q) \in DOMAIN r /\ j - Len(q) > i /\ Len(q) + (j - Len(q)) = j
      BY <1>1, <2>3
    <3>2. c[j] = r[j - Len(q)]
      BY <1>1, <3>1
    <3>3. QED
      BY <2>1, <3>1, <3>2
  <2>4. QED
    BY <2>2, <2>3 DEF Lasts
<1>4. ASSUME Lacks(r, T), Lasts(q, T, G) PROVE Lasts(c, T, G)
  <2>1. PICK i \in DOMAIN q : q[i] \in G /\ \A j \in DOMAIN q : j > i => q[j] \notin T
    BY <1>4 DEF Lasts
  <2>2. i \in DOMAIN c /\ c[i] \in G
    BY <1>1, <2>1
  <2>3. \A j \in DOMAIN c : j > i => c[j] \notin T
    BY <1>2, <1>4, <2>1 DEF Lacks
  <2>4. QED
    BY <2>2, <2>3 DEF Lasts
<1>5. Lacks(q, T) /\ Lacks(r, T) => Lacks(c, T)
  BY <1>2 DEF Lacks
<1>6. ASSUME Lacks(c, T) PROVE Lacks(q, T) /\ Lacks(r, T)
  <2>1. \A i \in DOMAIN q : q[i] \notin T
    BY <1>1, <1>6 DEF Lacks
  <2>2. ASSUME NEW i \in DOMAIN r PROVE r[i] \notin T
    <3>1. Len(q) + i \in DOMAIN c /\ c[Len(q) + i] = r[i]
      BY <1>1
    <3>2. QED
      BY <1>6, <3>1 DEF Lacks
  <2>3. QED
    BY <2>1, <2>2 DEF Lacks
<1>7. QED
  BY <1>3, <1>4, <1>5, <1>6 DEF c

\* A message of T that is good is one the queue does not lack.
LEMMA LastsIsThere ==
    ASSUME NEW q, NEW T, NEW G, Lasts(q, T, G), \A x : x \in G => x \in T
    PROVE  ~Lacks(q, T)
BY DEF Lasts, Lacks

\* The last of T, when it is of a smaller kind, is the last of that.
LEMMA LastsNarrows ==
    ASSUME NEW q, NEW T, NEW G, NEW U, Lasts(q, T, G), \A x : x \in U => x \in T
    PROVE  Lasts(q, U, G)
BY DEF Lasts

\* What counts as good may grow, as far as what is in the queue goes.
LEMMA LastsWidens ==
    ASSUME NEW q, NEW T, NEW G, NEW H, \A i \in DOMAIN q : q[i] \in G => q[i] \in H,
           Lasts(q, T, G)
    PROVE  Lasts(q, T, H)
BY DEF Lasts

-----------------------------------------------------------------------------
\* As many of a kind as the first queue and the second have between them.
LEMMA SpotsFinite ==
    ASSUME NEW E, NEW q \in Seq(E), NEW T
    PROVE  IsFiniteSet(Spots(q, T)) /\ HowMany(q, T) \in Nat
<1>1. DOMAIN q = 1..Len(q) /\ Len(q) \in Nat
  OBVIOUS
<1>2. IsFiniteSet(1..Len(q)) /\ Spots(q, T) \in SUBSET (1..Len(q))
  BY <1>1, FS_Interval DEF Spots
<1> QED
  BY <1>2, FS_Subset, FS_CardinalityType DEF HowMany

\* None is what a queue without any has.
LEMMA HowManyNone ==
    ASSUME NEW E, NEW q \in Seq(E), NEW T
    PROVE  HowMany(q, T) = 0 <=> Lacks(q, T)
<1>1. HowMany(q, T) = 0 <=> Spots(q, T) = {}
  BY SpotsFinite, FS_EmptySet DEF HowMany
<1>2. Spots(q, T) = {} <=> Lacks(q, T)
  BY DEF Spots, Lacks
<1> QED
  BY <1>1, <1>2

\* One is what a queue has with one place for it.
LEMMA HowManyOne ==
    ASSUME NEW q, NEW T, NEW i \in DOMAIN q, q[i] \in T, \A j \in DOMAIN q : j # i => q[j] \notin T
    PROVE  HowMany(q, T) = 1
<1>1. Spots(q, T) = {i}
  BY DEF Spots
<1> QED
  BY <1>1, FS_Singleton DEF HowMany

\* A set of numbers moved along has as many.
LEMMA Shifted ==
    ASSUME NEW S \in SUBSET Int, IsFiniteSet(S), NEW k \in Int
    PROVE  /\ IsFiniteSet({k + i : i \in S})
           /\ Cardinality({k + i : i \in S}) = Cardinality(S)
<1> DEFINE M == {k + i : i \in S}
           f == [i \in S |-> k + i]
<1>1. f \in [S -> M] /\ \A i \in S : f[i] = k + i
  OBVIOUS
<1>2. \A i, j \in S : f[i] = f[j] => i = j
  BY <1>1
<1>3. \A m \in M : \E i \in S : f[i] = m
  BY <1>1
<1>4. f \in Bijection(S, M)
  BY <1>1, <1>2, <1>3 DEF Bijection, Injection, Surjection, IsInjective
<1>5. ExistsBijection(S, M)
  BY <1>4 DEF ExistsBijection
<1> QED
  BY <1>5, FS_Bijection

\* Two queues have what each has.
LEMMA HowManyConcat ==
    ASSUME NEW E, NEW q \in Seq(E), NEW r \in Seq(E), NEW T
    PROVE  HowMany(q \o r, T) = HowMany(q, T) + HowMany(r, T)
<1> DEFINE c == q \o r
           M == {Len(q) + i : i \in Spots(r, T)}
<1>1. /\ Len(q) \in Nat /\ Len(r) \in Nat /\ DOMAIN q = 1..Len(q) /\ DOMAIN r = 1..Len(r)
      /\ DOMAIN c = 1..(Len(q) + Len(r))
      /\ \A i \in 1..Len(q) : c[i] = q[i]
      /\ \A i \in 1..Len(r) : c[Len(q) + i] = r[i]
  BY ConcatIs
<1>2. IsFiniteSet(Spots(q, T)) /\ IsFiniteSet(Spots(r, T)) /\ HowMany(q, T) \in Nat
      /\ HowMany(r, T) \in Nat
  BY SpotsFinite
<1>3. Spots(r, T) \in SUBSET Int /\ Len(q) \in Int
  BY <1>1 DEF Spots
<1>4. IsFiniteSet(M) /\ Cardinality(M) = Cardinality(Spots(r, T))
  BY <1>2, <1>3, Shifted
<1> HIDE DEF c
<1>5. ASSUME NEW j \in Spots(c, T) PROVE j \in Spots(q, T) \cup M
  <2>1. j \in 1..(Len(q) + Len(r)) /\ c[j] \in T
    BY <1>1 DEF Spots
  <2>2. CASE j <= Len(q)
    BY <1>1, <2>1, <2>2 DEF Spots
  <2>3. CASE j > Len(q)
    <3>1. PICK i \in 1..Len(r) : j = Len(q) + i
      <4>1. j - Len(q) \in 1..Len(r) /\ j = Len(q) + (j - Len(q))
        BY <1>1, <2>1, <2>3
      <4> QED
        BY <4>1
    <3>2. i \in Spots(r, T)
      BY <1>1, <2>1, <3>1 DEF Spots
    <3> QED
      BY <3>1, <3>2
  <2> QED
    BY <1>1, <2>1, <2>2, <2>3
<1>6. ASSUME NEW j \in Spots(q, T) PROVE j \in Spots(c, T)
  BY <1>1 DEF Spots
<1>7. ASSUME NEW i \in Spots(r, T) PROVE Len(q) + i \in Spots(c, T) /\ Len(q) + i \notin Spots(q, T)
  BY <1>1 DEF Spots
<1>8. Spots(c, T) = Spots(q, T) \cup M /\ Spots(q, T) \cap M = {}
  BY <1>5, <1>6, <1>7
<1> HIDE DEF M
<1>9. Cardinality(Spots(c, T)) = Cardinality(Spots(q, T)) + Cardinality(M) - Cardinality({})
  BY <1>2, <1>4, <1>8, FS_Union
<1> QED
  BY <1>2, <1>4, <1>9, FS_EmptySet DEF HowMany, c

\* A queue of one message has it or not.
LEMMA HowManySingle ==
    ASSUME NEW e, NEW T
    PROVE  HowMany(<<e>>, T) = IF e \in T THEN 1 ELSE 0
<1>1. Spots(<<e>>, T) = IF e \in T THEN {1} ELSE {}
  BY DEF Spots
<1> QED
  BY <1>1, FS_Singleton, FS_EmptySet DEF HowMany

\* A message that is appended is one more, if it is of the kind, ...
LEMMA HowManyAppend ==
    ASSUME NEW E, NEW q \in Seq(E), NEW e \in E, NEW T
    PROVE  HowMany(Append(q, e), T) = HowMany(q, T) + (IF e \in T THEN 1 ELSE 0)
<1>1. Append(q, e) = q \o <<e>> /\ <<e>> \in Seq(E)
  BY AppendIsConcat
<1>2. HowMany(q \o <<e>>, T) = HowMany(q, T) + HowMany(<<e>>, T)
  BY <1>1, HowManyConcat
<1> QED
  BY <1>1, <1>2, HowManySingle

\* ... and one that is taken one less.
LEMMA HowManyTail ==
    ASSUME NEW E, NEW q \in Seq(E), q # <<>>, NEW T
    PROVE  HowMany(q, T) = HowMany(Tail(q), T) + (IF Head(q) \in T THEN 1 ELSE 0)
<1>1. PICK h, t : h = Head(q) /\ t = Tail(q)
  OBVIOUS
<1>2. h \in E /\ t \in Seq(E) /\ <<h>> \in Seq(E) /\ q = <<h>> \o t
  BY <1>1, TailIs
<1>3. HowMany(q, T) = HowMany(<<h>>, T) + HowMany(t, T)
  BY <1>2, HowManyConcat
<1>4. HowMany(t, T) \in Nat
  BY <1>2, SpotsFinite
<1> QED
  BY <1>1, <1>3, <1>4, HowManySingle
=============================================================================
