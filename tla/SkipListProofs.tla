--------------------------- MODULE SkipListProofs ---------------------------
(***************************************************************************)
(* Proofs about SkipList for every order of keys, every number of levels,  *)
(* every number of entries, whatever heights are drawn for them.           *)
(***************************************************************************)
EXTENDS SkipList, NumberLemmas

CONSTANTS Keys,     \* the keys that are inserted and searched for
          Values

\* A list has a level, and the order of the keys is strict and total (Ord of the key type).
Ordered ==
  /\ MAX_HEIGHT \in Nat \ {0}
  /\ \A a \in Keys : ~Before(a, a)
  /\ \A a, b, c \in Keys : Before(a, b) /\ Before(b, c) => Before(a, c)
  /\ \A a, b \in Keys : a = b \/ Before(a, b) \/ Before(b, a)

----------------------------------------------------------------------------
(* Lists *)

NodeSet == [key : Keys \cup {NoKey}, value : Values \cup {<<>>}, next : Seq(Nat)]

ListSet == [nodes : Seq(NodeSet), height : 1..MAX_HEIGHT]

\* The head is in every level, another node in no more than are in use.
Shape(l) ==
  /\ l \in ListSet
  /\ Len(l.nodes) > 0
  /\ Len(l.nodes[HEAD].next) = MAX_HEIGHT
  /\ \A n \in 2..Len(l.nodes) :
       l.nodes[n].key \in Keys /\ Len(l.nodes[n].next) \in 1..l.height

Sound(l) == Shape(l) /\ WellFormed(l)

\* The nodes of a level whose key is before key, and the head.
Short(l, key, level) ==
  {HEAD} \cup {n \in OnLevel(l, level) : Before(l.nodes[n].key, key)}

\* The last of them.
IsPrev(l, key, level, p) ==
  p \in Short(l, key, level) /\ \A n \in Short(l, key, level) \ {p} : Ahead(l, n, p)

\* The nodes of a list are in a strict and total order, the head before all others.
LEMMA AheadOrder ==
  ASSUME Ordered, NEW l, Shape(l)
  PROVE  LET Nodes == 1..Len(l.nodes)
         IN /\ \A m \in Nodes : ~Ahead(l, m, m)
            /\ \A m, n, p \in Nodes : Ahead(l, m, n) /\ Ahead(l, n, p) => Ahead(l, m, p)
            /\ \A m, n \in Nodes : m = n \/ Ahead(l, m, n) \/ Ahead(l, n, m)
<1> DEFINE Nodes == 1..Len(l.nodes)
<1>1. \A n \in Nodes : n \in Nat /\ (n = HEAD \/ l.nodes[n].key \in Keys)
  BY DEF Shape, ListSet, HEAD
<1> DEFINE K(n) == l.nodes[n].key
<1>2. \A m, n : Ahead(l, m, n) <=>
        \/ m = HEAD /\ n # HEAD
        \/ m # HEAD /\ n # HEAD /\ (Before(K(m), K(n)) \/ (K(m) = K(n) /\ n < m))
  BY DEF Ahead
<1>3. \A m, n \in Nodes : m # n => m < n \/ n < m
  BY <1>1
<1> HIDE DEF K
<1>a. \A n \in Nodes : n \in Nat /\ (n = HEAD \/ K(n) \in Keys)
  BY <1>1 DEF K
<1>4. \A m \in Nodes : ~Ahead(l, m, m)
  BY <1>a, <1>2 DEF Ordered
<1>5. ASSUME NEW m \in Nodes, NEW n \in Nodes, NEW p \in Nodes, Ahead(l, m, n), Ahead(l, n, p)
      PROVE  Ahead(l, m, p)
  <2>1. CASE m = HEAD
    BY <2>1, <1>5, <1>2
  <2>2. CASE m # HEAD
    <3>1. m # HEAD /\ n # HEAD /\ p # HEAD
      BY <2>2, <1>5, <1>2
    <3>2. K(m) \in Keys /\ K(n) \in Keys /\ K(p) \in Keys
      BY <3>1, <1>a
    <3>3. Before(K(m), K(n)) \/ (K(m) = K(n) /\ n < m)
      BY <3>1, <1>5, <1>2
    <3>4. Before(K(n), K(p)) \/ (K(n) = K(p) /\ p < n)
      BY <3>1, <1>5, <1>2
    <3>5. Before(K(m), K(p)) \/ (K(m) = K(p) /\ p < m)
      <4>1. CASE n < m /\ p < n /\ K(m) = K(n) /\ K(n) = K(p)
        BY <4>1, <1>a
      <4>2. CASE Before(K(m), K(n)) /\ Before(K(n), K(p))
        BY <4>2, <3>2 DEF Ordered
      <4> QED BY <4>1, <4>2, <3>3, <3>4
    <3> QED BY <3>1, <3>5, <1>2
  <2> QED BY <2>1, <2>2
<1>6. ASSUME NEW m \in Nodes, NEW n \in Nodes, m # n
      PROVE  Ahead(l, m, n) \/ Ahead(l, n, m)
  <2>1. CASE m = HEAD \/ n = HEAD
    BY <2>1, <1>6, <1>2
  <2>2. CASE m # HEAD /\ n # HEAD
    <3>1. K(m) = K(n) \/ Before(K(m), K(n)) \/ Before(K(n), K(m))
      BY <2>2, <1>a DEF Ordered
    <3> QED BY <3>1, <2>2, <1>2, <1>3, <1>6
  <2> QED BY <2>1, <2>2
<1> QED BY <1>4, <1>5, <1>6

\* What the links of a level lead to.
LEMMA Links ==
  ASSUME Ordered, NEW l, Sound(l), NEW level \in 1..MAX_HEIGHT, NEW m \in OnLevel(l, level) \cup {HEAD}
  PROVE  LET next == l.nodes[m].next[level]
             behind == {n \in OnLevel(l, level) : Ahead(l, m, n)}
         IN /\ m \in 1..Len(l.nodes)
            /\ IF behind = {} THEN next = NIL
               ELSE next \in behind /\ \A n \in behind \ {next} : Ahead(l, next, n)
            /\ next # NIL <=> behind # {}
<1>1. m \in 1..Len(l.nodes) /\ NIL \notin OnLevel(l, level)
  BY DEF OnLevel, Sound, Shape, ListSet, HEAD, NIL
<1> QED BY <1>1 DEF Sound, WellFormed, IsFirst

\* A stride leads to a node of the level whose key is before key as well, or ends the walk.
LEMMA StrideForward ==
  ASSUME Ordered, NEW l, Sound(l), NEW key \in Keys, NEW level \in 1..MAX_HEIGHT,
         NEW cur \in Short(l, key, level)
  PROVE  LET to == Stride(l, key, level, cur)
         IN /\ to \in Short(l, key, level)
            /\ to # cur => Ahead(l, cur, to)
            /\ to = cur => IsPrev(l, key, level, cur)
<1> DEFINE next == l.nodes[cur].next[level]
           behind == {n \in OnLevel(l, level) : Ahead(l, cur, n)}
           to == Stride(l, key, level, cur)
<1>1. cur \in OnLevel(l, level) \cup {HEAD}
  BY DEF Short
<1>2. /\ cur \in 1..Len(l.nodes)
      /\ IF behind = {} THEN next = NIL
         ELSE next \in behind /\ \A n \in behind \ {next} : Ahead(l, next, n)
      /\ next # NIL <=> behind # {}
  BY <1>1, Links
<1>3. to = IF next # NIL /\ Before(l.nodes[next].key, key) THEN next ELSE cur
  BY DEF Stride
<1>4. OnLevel(l, level) \subseteq 2..Len(l.nodes)
  BY DEF OnLevel
<1>5. Shape(l)
  BY DEF Sound
<1>a. HEAD \in 1..Len(l.nodes) /\ HEAD \notin OnLevel(l, level) /\ 2..Len(l.nodes) \subseteq 1..Len(l.nodes)
  BY <1>5 DEF Shape, ListSet, HEAD, OnLevel
<1> HIDE DEF next, to
<1>6. CASE next # NIL /\ Before(l.nodes[next].key, key)
  <2>1. to = next /\ next \in behind
    BY <1>6, <1>2, <1>3
  <2>2. to \in Short(l, key, level)
    BY <1>6, <2>1 DEF Short
  <2>3. Ahead(l, cur, to)
    BY <2>1
  <2>4. to # cur
    BY <2>3, <1>2, <1>5, AheadOrder
  <2> QED BY <2>2, <2>3, <2>4 DEF to
<1>7. CASE ~(next # NIL /\ Before(l.nodes[next].key, key))
  <2>1. to = cur
    BY <1>7, <1>3
  <2>2. ASSUME NEW n \in Short(l, key, level), n # cur, ~Ahead(l, n, cur)
        PROVE  FALSE
    <3>1. n \in OnLevel(l, level) \cup {HEAD} /\ n \in 1..Len(l.nodes)
      BY <1>4, <1>a DEF Short
    <3>2. Ahead(l, cur, n)
      BY <3>1, <2>2, <1>2, <1>5, AheadOrder
    <3>3. n # HEAD
      BY <3>2, <2>2 DEF Ahead
    <3>4. n \in behind /\ Before(l.nodes[n].key, key)
      BY <3>1, <3>2, <3>3, <2>2 DEF Short
    <3>5. next # NIL /\ next \in behind
      BY <3>4, <1>2
    <3>6. ~Before(l.nodes[next].key, key)
      BY <3>5, <1>7
    <3>7. n # next /\ Ahead(l, next, n) /\ next # HEAD
      BY <3>4, <3>5, <3>6, <1>2, <1>a
    <3>8. l.nodes[next].key \in Keys /\ l.nodes[n].key \in Keys
      BY <3>4, <3>5, <1>4, <1>5 DEF Shape
    <3>9. Before(l.nodes[next].key, l.nodes[n].key) \/ l.nodes[next].key = l.nodes[n].key
      BY <3>7 DEF Ahead
    <3> QED BY <3>4, <3>6, <3>8, <3>9 DEF Ordered
  <2>3. IsPrev(l, key, level, cur)
    BY <2>2 DEF IsPrev
  <2> QED BY <2>1, <2>3 DEF to
<1> QED BY <1>6, <1>7

----------------------------------------------------------------------------
(* The walk *)

\* A node has fewer nodes ahead of it than one that it is ahead of.
LEMMA PassedGrows ==
  ASSUME Ordered, NEW l, Shape(l), NEW m \in 1..Len(l.nodes), NEW n \in 1..Len(l.nodes), Ahead(l, m, n)
  PROVE  LET Passed(c) == {p \in 1..Len(l.nodes) : Ahead(l, p, c)}
         IN /\ Cardinality(Passed(m)) \in Nat /\ Cardinality(Passed(n)) \in Nat
            /\ Cardinality(Passed(m)) < Cardinality(Passed(n))
            /\ Cardinality(Passed(n)) < Len(l.nodes)
<1> DEFINE Passed(c) == {p \in 1..Len(l.nodes) : Ahead(l, p, c)}
           N == Len(l.nodes)
<1>1. N \in Nat
  BY DEF Shape, ListSet
<1>2. IsFiniteSet(1..N) /\ Cardinality(1..N) = N
  <2> HIDE DEF N
  <2>1. Cardinality(1..N) = IF 1 > N THEN 0 ELSE N - 1 + 1
    BY <1>1, FS_Interval
  <2> QED BY <2>1, <1>1, FS_Interval
<1>3. Passed(m) \subseteq Passed(n) /\ m \in Passed(n) /\ m \notin Passed(m)
  BY AheadOrder
<1>4. Passed(n) \subseteq 1..N /\ n \in 1..N /\ n \notin Passed(n)
  BY AheadOrder
<1>5. IsFiniteSet(Passed(n)) /\ Cardinality(Passed(n)) <= N /\ Cardinality(Passed(n)) # N
  <2> HIDE DEF Passed, N
  <2> QED BY <1>2, <1>4, FS_Subset
<1>6. /\ IsFiniteSet(Passed(m)) /\ Cardinality(Passed(m)) <= Cardinality(Passed(n))
      /\ Cardinality(Passed(m)) # Cardinality(Passed(n))
  <2> HIDE DEF Passed, N
  <2> QED BY <1>5, <1>3, FS_Subset
<1>7. Cardinality(Passed(m)) \in Nat /\ Cardinality(Passed(n)) \in Nat
  <2> HIDE DEF Passed, N
  <2> QED BY <1>5, <1>6, FS_CardinalityType
<1> HIDE DEF Passed
<1> QED BY <1>1, <1>5, <1>6, <1>7 DEF Passed

\* The loop on a level, stride for stride.
LEMMA WalkTakesStrides ==
  ASSUME Ordered, NEW l, Sound(l), NEW key \in Keys, NEW level \in 1..MAX_HEIGHT,
         NEW start \in Short(l, key, level)
  PROVE  \E at : /\ Walk(l, key, level, start) = at[Len(l.nodes)]
                 /\ at[0] = start
                 /\ \A n \in 1..Len(l.nodes) : at[n] = Stride(l, key, level, at[n - 1])
<1> DEFINE N == Len(l.nodes)
           S == Short(l, key, level)
           to == [c \in S |-> Stride(l, key, level, c)]
           step == [i \in 1..N |-> to]
           Body(f) == [n \in 0..N |-> IF n = 0 THEN start ELSE Stride(l, key, level, f[n - 1])]
           at == CHOOSE f : f = Body(f)
<1>1. N \in Nat
  BY DEF Sound, Shape, ListSet
<1>2. to \in [S -> S]
  BY StrideForward
<1>3. step \in [1..N -> [S -> S]]
  BY <1>2
<1>4. PICK f \in [0..N -> S] : Recursive(f, N, start, step)
  <2> HIDE DEF N, S, step
  <2> QED BY <1>1, <1>3, RecursionExists DEF S
<1>5. f = Body(f)
  <2>1. \A n \in 1..N : n - 1 \in 0..N
    BY <1>1
  <2>2. \A n \in 1..N : f[n] = Stride(l, key, level, f[n - 1])
    <3>1. \A n \in 1..N : f[n] = step[n][f[n - 1]] /\ f[n - 1] \in S
      BY <1>4, <2>1 DEF Recursive
    <3> QED BY <3>1
  <2>3. f[0] = start
    BY <1>4 DEF Recursive
  <2>4. \A n \in 0..N : n = 0 \/ n \in 1..N
    BY <1>1
  <2> HIDE DEF N, S
  <2> QED BY <1>4, <2>2, <2>3, <2>4
<1>6. at = Body(at)
  <2> HIDE DEF Body
  <2> QED BY <1>5
<1>7. Walk(l, key, level, start) = at[N]
  BY DEF Walk
<1>8. PICK g : Walk(l, key, level, start) = g[N] /\ g = Body(g)
  <2> HIDE DEF at, Body
  <2> QED BY <1>6, <1>7
<1>9. PICK h : h = g /\ h = Body(g)
  <2> HIDE DEF Body
  <2> QED BY <1>8
<1>10. \A n \in 0..N : h[n] = IF n = 0 THEN start ELSE Stride(l, key, level, g[n - 1])
  <2>1. h = Body(g)
    BY <1>9
  <2> QED BY <2>1
<1>11. g[0] = start /\ \A n \in 1..N : g[n] = Stride(l, key, level, g[n - 1])
  <2>1. 0 \in 0..N /\ \A n \in 1..N : n \in 0..N /\ n # 0
    BY <1>1
  <2>2. h = g
    BY <1>9
  <2> HIDE DEF N
  <2> QED BY <1>10, <2>1, <2>2
<1> QED BY <1>8, <1>11

\* It ends at the last node of the level whose key is before key, wherever among these it
\* started.
LEMMA WalkEnds ==
  ASSUME Ordered, NEW l, Sound(l), NEW key \in Keys, NEW level \in 1..MAX_HEIGHT,
         NEW start \in Short(l, key, level)
  PROVE  IsPrev(l, key, level, Walk(l, key, level, start))
<1> DEFINE N == Len(l.nodes)
           S == Short(l, key, level)
           Passed(c) == {p \in 1..N : Ahead(l, p, c)}
           To(c) == Stride(l, key, level, c)
<1>1. N \in Nat /\ Shape(l)
  BY DEF Sound, Shape, ListSet
<1>2. S \subseteq 1..N
  BY <1>1 DEF Short, OnLevel, Shape, HEAD
<1>3. PICK at : /\ Walk(l, key, level, start) = at[N]
                /\ at[0] = start
                /\ \A n \in 1..N : at[n] = To(at[n - 1])
  BY WalkTakesStrides
<1> DEFINE A == {n \in 0..N : at[n] \in S /\ (To(at[n]) = at[n] \/ Cardinality(Passed(at[n])) >= n)}
<1>4. \A c \in S : /\ To(c) \in S
                   /\ To(c) # c => Ahead(l, c, To(c))
                   /\ To(c) = c => IsPrev(l, key, level, c)
  BY StrideForward
<1>5. \A c \in S : Cardinality(Passed(c)) \in Nat
  <2> SUFFICES ASSUME NEW c \in S PROVE Cardinality(Passed(c)) \in Nat
    OBVIOUS
  <2>1. IsFiniteSet(1..N)
    BY <1>1, FS_Interval
  <2> QED BY <2>1, FS_Subset, FS_CardinalityType
<1>6. \A c, d \in S : Ahead(l, c, d) =>
        /\ Cardinality(Passed(c)) < Cardinality(Passed(d))
        /\ Cardinality(Passed(d)) < N
  BY <1>1, <1>2, PassedGrows
<1> HIDE DEF Passed, To, N, S
<1>7. 0 \in A
  BY <1>1, <1>3, <1>5 DEF S
<1>8. ASSUME NEW n \in 1..N, n - 1 \in A
      PROVE  n \in A
  <2>1. at[n - 1] \in S /\ at[n] = To(at[n - 1]) /\ n \in 0..N
    BY <1>8, <1>3, <1>1
  <2>2. CASE To(at[n - 1]) = at[n - 1]
    BY <2>1, <2>2
  <2>3. CASE To(at[n - 1]) # at[n - 1]
    <3>1. Cardinality(Passed(at[n - 1])) >= n - 1
      BY <1>8, <2>3
    <3>2. at[n] \in S /\ Ahead(l, at[n - 1], at[n])
      BY <2>1, <2>3, <1>4
    <3>3. Cardinality(Passed(at[n - 1])) < Cardinality(Passed(at[n]))
      BY <3>2, <2>1, <1>6
    <3>4. Cardinality(Passed(at[n])) >= n
      BY <3>1, <3>2, <3>3, <2>1, <1>5, <1>1
    <3> QED BY <2>1, <3>2, <3>4
  <2> QED BY <2>2, <2>3
<1>9. N \in A
  <2> HIDE DEF A
  <2>1. 0..N \subseteq A
    BY <1>1, <1>7, <1>8, CountingUp
  <2> QED BY <1>1, <2>1
<1>10. To(at[N]) = at[N]
  <2> SUFFICES ASSUME To(at[N]) # at[N] PROVE FALSE
    OBVIOUS
  <2>1. at[N] \in S /\ Cardinality(Passed(at[N])) >= N
    BY <1>9
  <2>2. To(at[N]) \in S /\ Ahead(l, at[N], To(at[N]))
    BY <2>1, <1>4
  <2>3. /\ Cardinality(Passed(at[N])) < Cardinality(Passed(To(at[N])))
        /\ Cardinality(Passed(To(at[N]))) < N
    BY <2>1, <2>2, <1>6
  <2> QED BY <2>1, <2>2, <2>3, <1>5, <1>1
<1>11. at[N] \in S
  BY <1>9
<1> QED BY <1>3, <1>4, <1>10, <1>11

\* Every node of a level is on the level below; above the levels in use is only the head.
LEMMA LevelsNest ==
  ASSUME Ordered, NEW l, Shape(l), NEW key, NEW level \in 1..MAX_HEIGHT + 1
  PROVE  /\ HEAD \in Short(l, key, level)
         /\ level <= MAX_HEIGHT => Short(l, key, level + 1) \subseteq Short(l, key, level)
         /\ level > l.height => Short(l, key, level) = {HEAD}
<1>1. \A n \in 2..Len(l.nodes) :
        /\ l.nodes[n].next \in Seq(Nat)
        /\ DOMAIN l.nodes[n].next = 1..Len(l.nodes[n].next)
        /\ Len(l.nodes[n].next) \in 1..l.height
  <2> SUFFICES ASSUME NEW n \in 2..Len(l.nodes)
               PROVE  l.nodes[n].next \in Seq(Nat) /\ Len(l.nodes[n].next) \in 1..l.height
    OBVIOUS
  <2>1. n \in 1..Len(l.nodes) /\ l.nodes \in Seq(NodeSet)
    BY DEF Shape, ListSet
  <2>2. l.nodes[n] \in NodeSet
    BY <2>1
  <2> QED BY <2>2 DEF NodeSet, Shape
<1>2. l.height \in 1..MAX_HEIGHT /\ MAX_HEIGHT \in Nat
  BY DEF Shape, ListSet, Ordered
<1>3. HEAD \in Short(l, key, level)
  BY DEF Short
<1>4. level <= MAX_HEIGHT => Short(l, key, level + 1) \subseteq Short(l, key, level)
  <2> SUFFICES ASSUME NEW n \in OnLevel(l, level + 1)
               PROVE  n \in OnLevel(l, level)
    BY DEF Short
  <2>1. n \in 2..Len(l.nodes) /\ level + 1 \in 1..Len(l.nodes[n].next)
    BY <1>1 DEF OnLevel
  <2>2. level \in 1..Len(l.nodes[n].next)
    BY <2>1, <1>1, <1>2
  <2> QED BY <2>1, <2>2, <1>1 DEF OnLevel
<1>5. level > l.height => Short(l, key, level) = {HEAD}
  <2> SUFFICES ASSUME level > l.height, NEW n \in OnLevel(l, level)
               PROVE  FALSE
    BY DEF Short
  <2>1. n \in 2..Len(l.nodes) /\ level \in 1..Len(l.nodes[n].next)
    BY <1>1 DEF OnLevel
  <2> QED BY <2>1, <1>1, <1>2, <1>5
<1> QED BY <1>3, <1>4, <1>5

\* The loop over the levels, turn for turn.
LEMMA FindPrevGoesDown ==
  ASSUME Ordered, NEW l, Sound(l), NEW key \in Keys
  PROVE  LET prev == FindPrev(l, key)
         IN \A level \in 1..MAX_HEIGHT + 1 :
              prev[level] = IF level > l.height THEN HEAD ELSE Walk(l, key, level, prev[level + 1])
<1> DEFINE M == MAX_HEIGHT
           Nodes == 1..Len(l.nodes)
           Down(level, c) == IF level > l.height THEN HEAD ELSE Walk(l, key, level, c)
           to(level) == [c \in Nodes |-> IF c \in Short(l, key, level) THEN Down(level, c) ELSE HEAD]
           step == [i \in 1..M |-> to(M + 1 - i)]
           Body(f) == [level \in 1..M + 1 |->
                         IF level > l.height THEN HEAD ELSE Walk(l, key, level, f[level + 1])]
           prev == CHOOSE f : f = Body(f)
<1>1. M \in Nat /\ l.height \in 1..M /\ Shape(l) /\ HEAD \in Nodes
  BY DEF Sound, Shape, ListSet, HEAD, Ordered
<1>2. \A level \in 1..M + 1 : Short(l, key, level) \subseteq Nodes
  BY <1>1 DEF Short, OnLevel
<1>3. \A level \in 1..M, c \in Nodes :
        c \in Short(l, key, level) => Down(level, c) \in Short(l, key, level)
  <2> SUFFICES ASSUME NEW level \in 1..M, NEW c \in Nodes, c \in Short(l, key, level)
               PROVE  Down(level, c) \in Short(l, key, level)
    OBVIOUS
  <2>1. HEAD \in Short(l, key, level)
    BY DEF Short
  <2>2. Walk(l, key, level, c) \in Short(l, key, level)
    BY WalkEnds DEF IsPrev
  <2> QED BY <2>1, <2>2
<1>4. \A level \in 1..M : to(level) \in [Nodes -> Nodes]
  <2> HIDE DEF Down, Nodes
  <2> QED BY <1>1, <1>2, <1>3
<1>5. step \in [1..M -> [Nodes -> Nodes]]
  <2>1. \A i \in 1..M : M + 1 - i \in 1..M
    BY <1>1
  <2> HIDE DEF to, Nodes
  <2> QED BY <2>1, <1>4
<1>6. PICK f \in [0..M -> Nodes] : Recursive(f, M, HEAD, step)
  <2> HIDE DEF step, Nodes
  <2> QED BY <1>1, <1>5, RecursionExists
<1>7. f[0] = HEAD /\ \A i \in 1..M : f[i] = to(M + 1 - i)[f[i - 1]]
  <2> HIDE DEF to
  <2> QED BY <1>6 DEF Recursive
<1>8. \A i \in 1..M : f[i - 1] \in Short(l, key, M + 1 - i) => f[i] = Down(M + 1 - i, f[i - 1])
  <2>1. \A i \in 1..M : i - 1 \in 0..M
    BY <1>1
  <2>2. \A i \in 1..M : f[i - 1] \in Nodes
    BY <2>1
  <2> HIDE DEF Down, Nodes
  <2> QED BY <2>2, <1>7
<1> DEFINE A == {i \in 0..M : f[i] \in Short(l, key, M + 1 - i)}
<1> HIDE DEF Down
<1>9. 0..M \subseteq A
  <2>1. 0 \in A
    BY <1>1, <1>7 DEF Short
  <2>2. ASSUME NEW i \in 1..M, i - 1 \in A
        PROVE  i \in A
    <3>1. M + 1 - i \in 1..M /\ M + 1 - i \in 1..M + 1 /\ i \in 0..M /\ i - 1 \in 0..M
      BY <1>1
    <3>2. f[i - 1] \in Short(l, key, M + 1 - (i - 1)) /\ M + 1 - (i - 1) = (M + 1 - i) + 1
      BY <2>2, <1>1
    <3>3. f[i - 1] \in Short(l, key, (M + 1 - i) + 1)
      BY <3>2
    <3>4. Short(l, key, (M + 1 - i) + 1) \subseteq Short(l, key, M + 1 - i)
      BY <3>1, <1>1, LevelsNest
    <3>5. f[i - 1] \in Short(l, key, M + 1 - i) /\ f[i - 1] \in Nodes
      BY <3>3, <3>4, <3>1
    <3> QED BY <3>5, <3>1, <1>3, <1>8
  <2> HIDE DEF A
  <2> QED BY <1>1, <2>1, <2>2, CountingUp
<1> DEFINE g == [level \in 1..M + 1 |-> f[M + 1 - level]]
<1>10. \A level \in 1..M + 1 :
         g[level] = IF level > l.height THEN HEAD ELSE Walk(l, key, level, g[level + 1])
  <2> SUFFICES ASSUME NEW level \in 1..M + 1
               PROVE  g[level] = IF level > l.height THEN HEAD ELSE Walk(l, key, level, g[level + 1])
    OBVIOUS
  <2>1. CASE level = M + 1
    BY <2>1, <1>1, <1>7
  <2>2. CASE level # M + 1
    <3> DEFINE i == M + 1 - level
    <3>1. i \in 1..M /\ i \in 0..M /\ i - 1 \in 0..M /\ level \in 1..M /\ level + 1 \in 1..M + 1
      BY <2>2, <1>1
    <3>2. M + 1 - i = level /\ M + 1 - (level + 1) = i - 1 /\ M + 1 - (i - 1) = level + 1
      BY <3>1, <1>1
    <3>3. g[level] = f[i] /\ g[level + 1] = f[i - 1]
      BY <3>1, <3>2
    <3>4. f[i - 1] \in Short(l, key, level + 1)
      BY <3>1, <3>2, <1>9
    <3>5. f[i - 1] \in Short(l, key, level)
      BY <3>1, <3>4, <1>1, LevelsNest
    <3> HIDE DEF g, i
    <3>6. f[i] = Down(level, f[i - 1])
      BY <3>1, <3>2, <3>5, <1>8
    <3> QED BY <3>3, <3>6 DEF Down
  <2> QED BY <2>1, <2>2
<1>11. g = Body(g)
  <2>1. g = [level \in 1..M + 1 |-> g[level]]
    OBVIOUS
  <2> HIDE DEF g
  <2> QED BY <2>1, <1>10
<1>12. prev = Body(prev)
  <2> HIDE DEF Body, g
  <2> QED BY <1>11
<1>13. FindPrev(l, key) = prev
  BY DEF FindPrev
<1>14. PICK p : p = FindPrev(l, key) /\ p = Body(p)
  <2> HIDE DEF Body, prev
  <2> QED BY <1>12, <1>13
<1>15. PICK h : h = p /\ h = Body(p)
  <2> HIDE DEF Body
  <2> QED BY <1>14
<1>16. \A level \in 1..M + 1 :
         h[level] = IF level > l.height THEN HEAD ELSE Walk(l, key, level, p[level + 1])
  <2>1. h = Body(p)
    BY <1>15
  <2> QED BY <2>1
<1>17. h = p /\ p = FindPrev(l, key)
  BY <1>14, <1>15
<1> HIDE DEF Body
<1> QED BY <1>16, <1>17

\* The predecessors are the last nodes of their levels whose keys are before key.
LEMMA FindPrevFinds ==
  ASSUME Ordered, NEW l, Sound(l), NEW key \in Keys
  PROVE  \A level \in 1..MAX_HEIGHT : IsPrev(l, key, level, FindPrev(l, key)[level])
<1> DEFINE M == MAX_HEIGHT
<1>1. M \in Nat /\ l.height \in 1..M /\ Shape(l)
  BY DEF Sound, Shape, ListSet, Ordered
<1>2. PICK prev :
        /\ prev = FindPrev(l, key)
        /\ \A level \in 1..M + 1 :
             prev[level] = IF level > l.height THEN HEAD ELSE Walk(l, key, level, prev[level + 1])
  BY FindPrevGoesDown
<1>3. ASSUME NEW level \in 1..M, prev[level + 1] \in Short(l, key, level + 1)
      PROVE  IsPrev(l, key, level, prev[level])
  <2>1. level \in 1..M + 1
    BY <1>1
  <2>2. CASE level > l.height
    <3>1. prev[level] = HEAD /\ Short(l, key, level) = {HEAD}
      BY <2>1, <2>2, <1>1, <1>2, LevelsNest
    <3> QED BY <3>1 DEF IsPrev
  <2>3. CASE ~(level > l.height)
    <3>1. prev[level] = Walk(l, key, level, prev[level + 1])
      BY <2>1, <2>3, <1>2
    <3>2. prev[level + 1] \in Short(l, key, level)
      BY <2>1, <1>1, <1>3, LevelsNest
    <3> QED BY <3>1, <3>2, WalkEnds
  <2> QED BY <2>2, <2>3
<1> DEFINE A == {i \in 0..M : prev[M + 1 - i] \in Short(l, key, M + 1 - i)}
<1>4. 0..M \subseteq A
  <2>1. 0 \in A
    <3>1. M + 1 \in 1..M + 1 /\ M + 1 > l.height /\ M + 1 - 0 = M + 1 /\ 0 \in 0..M
      BY <1>1
    <3>2. prev[M + 1] = HEAD
      BY <3>1, <1>2
    <3> QED BY <3>1, <3>2 DEF Short
  <2>2. ASSUME NEW i \in 1..M, i - 1 \in A
        PROVE  i \in A
    <3>1. M + 1 - i \in 1..M /\ M + 1 - (i - 1) = (M + 1 - i) + 1 /\ i \in 0..M
      BY <1>1
    <3>2. prev[(M + 1 - i) + 1] \in Short(l, key, (M + 1 - i) + 1)
      BY <2>2, <3>1
    <3>3. IsPrev(l, key, M + 1 - i, prev[M + 1 - i])
      BY <3>1, <3>2, <1>3
    <3> QED BY <3>1, <3>3 DEF IsPrev
  <2> HIDE DEF A
  <2> QED BY <1>1, <2>1, <2>2, CountingUp
<1>5. ASSUME NEW level \in 1..M
      PROVE  prev[level + 1] \in Short(l, key, level + 1)
  <2>1. M - level \in 0..M /\ M + 1 - (M - level) = level + 1
    BY <1>1
  <2> QED BY <2>1, <1>4
<1> QED BY <1>2, <1>3, <1>5

\* Behind the predecessor are the nodes of the level whose key is not before key.
LEMMA BehindPrev ==
  ASSUME Ordered, NEW l, Sound(l), NEW key \in Keys, NEW level \in 1..MAX_HEIGHT, NEW p,
         IsPrev(l, key, level, p)
  PROVE  \A n \in OnLevel(l, level) : Ahead(l, p, n) <=> ~Before(l.nodes[n].key, key)
<1> SUFFICES ASSUME NEW n \in OnLevel(l, level)
             PROVE  Ahead(l, p, n) <=> ~Before(l.nodes[n].key, key)
  OBVIOUS
<1>1. Shape(l) /\ HEAD \in 1..Len(l.nodes) /\ \A m \in OnLevel(l, level) : m \in 2..Len(l.nodes)
  BY DEF Sound, Shape, ListSet, HEAD, OnLevel
<1>2. n \in 1..Len(l.nodes) /\ n # HEAD /\ l.nodes[n].key \in Keys
  BY <1>1 DEF Shape, HEAD
<1>3. p \in 1..Len(l.nodes) /\ p \in Short(l, key, level)
  BY <1>1 DEF IsPrev, Short
<1>4. CASE Before(l.nodes[n].key, key)
  <2>1. n \in Short(l, key, level)
    BY <1>4 DEF Short
  <2>2. n = p \/ Ahead(l, n, p)
    BY <2>1 DEF IsPrev
  <2>3. ~Ahead(l, p, n)
    BY <2>2, <1>1, <1>2, <1>3, AheadOrder
  <2> QED BY <2>3, <1>4
<1>5. CASE ~Before(l.nodes[n].key, key)
  <2>1. CASE p = HEAD
    BY <2>1, <1>2, <1>5 DEF Ahead
  <2>2. CASE p # HEAD
    <3>1. l.nodes[p].key \in Keys /\ Before(l.nodes[p].key, key)
      BY <2>2, <1>1, <1>3 DEF Short, Shape
    <3>2. ~Before(l.nodes[n].key, l.nodes[p].key) /\ l.nodes[n].key # l.nodes[p].key
      BY <3>1, <1>2, <1>5 DEF Ordered
    <3>3. Before(l.nodes[p].key, l.nodes[n].key)
      BY <3>1, <3>2, <1>2 DEF Ordered
    <3> QED BY <3>3, <1>2, <1>5, <2>2 DEF Ahead
  <2> QED BY <2>1, <2>2
<1> QED BY <1>4, <1>5

----------------------------------------------------------------------------
(* Searching *)

\* Every node with an entry is on the lowest level.
LEMMA LowestLevel ==
  ASSUME Ordered, NEW l, Shape(l)
  PROVE  OnLevel(l, 1) = 2..Len(l.nodes) /\ 1 \in 1..MAX_HEIGHT
<1>1. 1 \in 1..MAX_HEIGHT
  BY DEF Ordered
<1>2. ASSUME NEW n \in 2..Len(l.nodes) PROVE 1 \in DOMAIN l.nodes[n].next
  <2>1. n \in 1..Len(l.nodes) /\ l.nodes \in Seq(NodeSet)
    BY DEF Shape, ListSet
  <2>2. l.nodes[n] \in NodeSet
    BY <2>1
  <2>3. l.nodes[n].next \in Seq(Nat) /\ Len(l.nodes[n].next) \in 1..l.height
    BY <2>2 DEF NodeSet, Shape
  <2>4. DOMAIN l.nodes[n].next = 1..Len(l.nodes[n].next)
    BY <2>3
  <2> QED BY <2>3, <2>4
<1> QED BY <1>1, <1>2 DEF OnLevel

\* lower_bound returns the first entry whose key is not before the one asked for, of
\* entries with equal keys the latest, and None where there is none, however far the links
\* of the higher levels reach (SkipList::lower_bound).
THEOREM LowerBoundIsFirst ==
  ASSUME Ordered, NEW l, Sound(l), NEW key \in Keys
  PROVE  IsFirst(l, LowerBound(l, key),
                 {n \in 2..Len(l.nodes) : ~Before(l.nodes[n].key, key)})
<1> DEFINE p == FindPrev(l, key)[1]
<1>1. Shape(l) /\ OnLevel(l, 1) = 2..Len(l.nodes) /\ 1 \in 1..MAX_HEIGHT
  BY LowestLevel DEF Sound
<1>2. IsPrev(l, key, 1, p)
  BY <1>1, FindPrevFinds
<1>3. \A n \in OnLevel(l, 1) : Ahead(l, p, n) <=> ~Before(l.nodes[n].key, key)
  BY <1>1, <1>2, BehindPrev
<1>4. p \in OnLevel(l, 1) \cup {HEAD}
  BY <1>2 DEF IsPrev, Short
<1>5. IsFirst(l, l.nodes[p].next[1], {n \in OnLevel(l, 1) : Ahead(l, p, n)})
  BY <1>1, <1>4 DEF Sound, WellFormed
<1>6. LowerBound(l, key) = l.nodes[p].next[1]
  BY DEF LowerBound
<1>7. {n \in OnLevel(l, 1) : Ahead(l, p, n)}
        = {n \in 2..Len(l.nodes) : ~Before(l.nodes[n].key, key)}
  BY <1>1, <1>3
<1> QED BY <1>5, <1>6, <1>7

\* get returns the latest entry with the key, and None where there is none
\* (SkipList::get).
THEOREM FindsLatest ==
  ASSUME Ordered, NEW l, Sound(l), NEW key \in Keys
  PROVE  LET has == {n \in 2..Len(l.nodes) : l.nodes[n].key = key}
         IN IF has = {} THEN Find(l, key) = NIL
            ELSE Find(l, key) \in has /\ \A n \in has : n <= Find(l, key)
<1> DEFINE has == {n \in 2..Len(l.nodes) : l.nodes[n].key = key}
           from == {n \in 2..Len(l.nodes) : ~Before(l.nodes[n].key, key)}
           first == LowerBound(l, key)
<1>1. IF from = {} THEN first = NIL ELSE first \in from /\ \A n \in from \ {first} : Ahead(l, first, n)
  BY LowerBoundIsFirst DEF IsFirst
<1>2. Find(l, key) = IF first # NIL /\ l.nodes[first].key = key THEN first ELSE NIL
  BY DEF Find
<1>3. \A n \in 2..Len(l.nodes) : n \in Nat /\ n # NIL /\ n # HEAD /\ l.nodes[n].key \in Keys
  BY DEF Sound, Shape, NIL, HEAD
<1>4. \A n \in has : n \in from
  BY <1>3 DEF Ordered
<1> HIDE DEF first
<1>5. CASE has = {}
  BY <1>5, <1>1, <1>2, <1>3
<1>6. CASE has # {}
  <2>1. first \in from /\ first # NIL /\ first \in 2..Len(l.nodes)
    BY <1>6, <1>1, <1>3, <1>4
  <2>2. PICK n \in has : TRUE
    BY <1>6
  <2>3. l.nodes[first].key = key
    <3>1. n = first \/ Ahead(l, first, n)
      BY <2>2, <1>1, <1>4, <2>1
    <3>2. Before(l.nodes[first].key, key) \/ l.nodes[first].key = key
      BY <3>1, <2>1, <2>2, <1>3 DEF Ahead
    <3> QED BY <3>2, <2>1
  <2>4. Find(l, key) = first /\ first \in has
    BY <2>1, <2>3, <1>2
  <2>5. ASSUME NEW m \in has PROVE m <= first
    <3>1. m = first \/ Ahead(l, first, m)
      BY <1>1, <1>4, <2>1
    <3>2. m \in Nat /\ first \in Nat /\ m # HEAD /\ first # HEAD /\ key \in Keys
      BY <1>3, <2>1
    <3>3. m = first \/ m < first
      BY <3>1, <3>2, <2>3 DEF Ahead, Ordered
    <3> QED BY <3>2, <3>3
  <2> QED BY <2>4, <2>5, <1>6
<1> QED BY <1>5, <1>6

----------------------------------------------------------------------------
(* Inserting *)

\* A new list.
LEMMA EmptySound == Ordered => Sound(EmptyList)
<1> SUFFICES ASSUME Ordered PROVE Sound(EmptyList)
  OBVIOUS
<1> DEFINE next == [level \in 1..MAX_HEIGHT |-> NIL]
<1>1. MAX_HEIGHT \in Nat \ {0}
  BY DEF Ordered
<1>2. next \in Seq(Nat) /\ Len(next) = MAX_HEIGHT
  BY <1>1 DEF NIL
<1> HIDE DEF next
<1>3. EmptyList = [nodes |-> <<Node(NoKey, <<>>, next)>>, height |-> 1]
  BY DEF EmptyList, next
<1>4. Node(NoKey, <<>>, next) \in NodeSet
  BY <1>2 DEF Node, NodeSet
<1>5. PICK node : node = Node(NoKey, <<>>, next) /\ node \in NodeSet /\ node.next = next
  BY <1>4 DEF Node
<1>6. EmptyList.nodes = <<node>> /\ EmptyList.height = 1 /\ EmptyList \in ListSet
  BY <1>1, <1>3, <1>5 DEF ListSet
<1>7. Len(EmptyList.nodes) = 1 /\ EmptyList.nodes[1] = node /\ 2..1 = {}
  BY <1>6
<1>8. Shape(EmptyList)
  BY <1>2, <1>5, <1>6, <1>7 DEF Shape, HEAD
<1>9. WellFormed(EmptyList)
  <2>1. \A level \in 1..MAX_HEIGHT : OnLevel(EmptyList, level) = {}
    BY <1>7 DEF OnLevel
  <2>2. \A level \in 1..MAX_HEIGHT : EmptyList.nodes[HEAD].next[level] = NIL
    BY <1>5, <1>7 DEF HEAD, next
  <2> QED BY <2>1, <2>2 DEF WellFormed, IsFirst
<1> QED BY <1>8, <1>9 DEF Sound

\* What insert makes of the nodes of l, linking the new one behind those of prev.
IsInserted(l, key, value, height, prev, k) ==
  /\ Shape(k) /\ Len(l.nodes) \in Nat /\ Len(k.nodes) = Len(l.nodes) + 1
  /\ \A n \in 1..Len(l.nodes) :
       /\ k.nodes[n].key = l.nodes[n].key /\ k.nodes[n].value = l.nodes[n].value
       /\ DOMAIN k.nodes[n].next = DOMAIN l.nodes[n].next
       /\ \A level \in DOMAIN l.nodes[n].next :
            k.nodes[n].next[level] =
              IF level <= height /\ prev[level] = n THEN Len(l.nodes) + 1 ELSE l.nodes[n].next[level]
  /\ k.nodes[Len(l.nodes) + 1].key = key /\ k.nodes[Len(l.nodes) + 1].value = value
  /\ DOMAIN k.nodes[Len(l.nodes) + 1].next = 1..height
  /\ \A level \in 1..height :
       k.nodes[Len(l.nodes) + 1].next[level] = l.nodes[prev[level]].next[level]

LEMMA Inserted ==
  ASSUME Ordered, NEW l, Sound(l), NEW key \in Keys, NEW value \in Values, NEW height \in 1..MAX_HEIGHT
  PROVE  IsInserted(l, key, value, height, FindPrev(l, key), Insert(l, key, value, height))
<1> DEFINE N == Len(l.nodes)
           M == MAX_HEIGHT
<1>1. PICK prev : prev = FindPrev(l, key)
  OBVIOUS
<1> DEFINE relink(old, i) == [level \in DOMAIN old |->
                                IF level <= height /\ prev[level] = i THEN N + 1 ELSE old[level]]
           linked == [i \in DOMAIN l.nodes |-> [l.nodes[i] EXCEPT !.next = relink(l.nodes[i].next, i)]]
           next == [level \in 1..height |-> l.nodes[prev[level]].next[level]]
           tall == IF height > l.height THEN height ELSE l.height
           k == [nodes |-> Append(linked, Node(key, value, next)), height |-> tall]
<1>2. Insert(l, key, value, height) = k
  BY <1>1 DEF Insert
<1>3. Shape(l) /\ N \in Nat /\ N > 0 /\ l.nodes \in Seq(NodeSet) /\ l.height \in 1..M /\ M \in Nat
  BY DEF Sound, Shape, ListSet, Ordered
<1>4. /\ DOMAIN l.nodes = 1..N
      /\ \A n \in 1..N : l.nodes[n] \in NodeSet
  BY <1>3
<1>5. \A n \in 1..N :
        /\ l.nodes[n].next \in Seq(Nat)
        /\ Len(l.nodes[n].next) \in Nat
        /\ DOMAIN l.nodes[n].next = 1..Len(l.nodes[n].next)
        /\ \A level \in DOMAIN l.nodes[n].next : l.nodes[n].next[level] \in Nat
  <2> SUFFICES ASSUME NEW n \in 1..N PROVE l.nodes[n].next \in Seq(Nat)
    OBVIOUS
  <2> QED BY <1>4 DEF NodeSet
<1>6. \A n \in 1..N :
        /\ relink(l.nodes[n].next, n) \in Seq(Nat)
        /\ Len(relink(l.nodes[n].next, n)) = Len(l.nodes[n].next)
  <2> SUFFICES ASSUME NEW n \in 1..N
               PROVE  /\ relink(l.nodes[n].next, n) \in Seq(Nat)
                      /\ Len(relink(l.nodes[n].next, n)) = Len(l.nodes[n].next)
    OBVIOUS
  <2>1. PICK old : old = l.nodes[n].next
    OBVIOUS
  <2>2. /\ old \in Seq(Nat) /\ Len(old) \in Nat /\ DOMAIN old = 1..Len(old)
        /\ \A level \in DOMAIN old : old[level] \in Nat
    BY <2>1, <1>5
  <2>3. N + 1 \in Nat
    BY <1>3
  <2>4. relink(old, n) \in [1..Len(old) -> Nat]
    <3> HIDE DEF N
    <3> QED BY <2>2, <2>3
  <2>5. relink(old, n) \in Seq(Nat) /\ Len(relink(old, n)) = Len(old)
    <3> HIDE DEF relink
    <3> QED BY <2>2, <2>4
  <2> QED BY <2>1, <2>5
<1>7. \A n \in 1..N :
        /\ linked[n].key = l.nodes[n].key /\ linked[n].value = l.nodes[n].value
        /\ linked[n].next = relink(l.nodes[n].next, n)
        /\ linked[n] \in NodeSet
  <2> SUFFICES ASSUME NEW n \in 1..N
               PROVE  /\ linked[n].key = l.nodes[n].key /\ linked[n].value = l.nodes[n].value
                      /\ linked[n].next = relink(l.nodes[n].next, n)
                      /\ linked[n] \in NodeSet
    OBVIOUS
  <2>1. PICK node \in NodeSet : node = l.nodes[n]
    BY <1>4
  <2>2. PICK new \in Seq(Nat) : new = relink(l.nodes[n].next, n)
    BY <1>6
  <2>3. linked[n] = [node EXCEPT !.next = new]
    <3> HIDE DEF relink, N
    <3> QED BY <1>4, <2>1, <2>2
  <2>4. /\ [node EXCEPT !.next = new] \in NodeSet
        /\ [node EXCEPT !.next = new].key = node.key
        /\ [node EXCEPT !.next = new].value = node.value
        /\ [node EXCEPT !.next = new].next = new
    BY DEF NodeSet
  <2> QED BY <2>1, <2>2, <2>3, <2>4
<1>8. linked \in Seq(NodeSet) /\ Len(linked) = N
  <2>1. linked \in [1..N -> NodeSet]
    <3>1. DOMAIN linked = 1..N /\ linked = [i \in 1..N |-> linked[i]]
      BY <1>4
    <3> HIDE DEF linked
    <3> QED BY <3>1, <1>7
  <2> HIDE DEF linked
  <2> QED BY <1>3, <2>1
<1>9. next \in Seq(Nat) /\ Len(next) = height /\ DOMAIN next = 1..height
  <2>1. ASSUME NEW level \in 1..height
        PROVE  l.nodes[prev[level]].next[level] \in Nat
    <3>1. level \in 1..M
      BY <1>3
    <3>2. IsPrev(l, key, level, prev[level])
      BY <3>1, <1>1, FindPrevFinds
    <3>3. prev[level] \in OnLevel(l, level) \cup {HEAD}
      BY <3>2 DEF IsPrev, Short
    <3>4. prev[level] \in 1..N /\ level \in DOMAIN l.nodes[prev[level]].next
      <4>1. CASE prev[level] = HEAD
        BY <4>1, <3>1, <1>3, <1>5 DEF HEAD, Shape
      <4>2. CASE prev[level] \in OnLevel(l, level)
        BY <4>2, <1>3 DEF OnLevel
      <4> QED BY <3>3, <4>1, <4>2
    <3> QED BY <3>4, <1>5
  <2>2. height \in Nat
    BY <1>3
  <2>3. next \in [1..height -> Nat]
    BY <2>1
  <2> HIDE DEF next
  <2> QED BY <2>2, <2>3
<1> HIDE DEF relink, linked, next
<1>10. PICK node : node = Node(key, value, next) /\ node \in NodeSet
  <2>1. key \in Keys \cup {NoKey} /\ value \in Values \cup {<<>>} /\ next \in Seq(Nat)
    BY <1>9
  <2>2. Node(key, value, next) \in NodeSet
    BY <2>1 DEF Node, NodeSet
  <2> QED BY <2>2
<1>11. node.key = key /\ node.value = value /\ node.next = next
  BY <1>10 DEF Node
<1>12. k.nodes = Append(linked, node) /\ k.height = tall /\ tall \in 1..M
  BY <1>10, <1>3
<1>13. /\ k.nodes \in Seq(NodeSet) /\ Len(k.nodes) = N + 1
       /\ \A n \in 1..N : k.nodes[n] = linked[n]
       /\ k.nodes[N + 1] = node
  <2> HIDE DEF k, N
  <2> QED BY <1>8, <1>10, <1>12, <1>3
<1>14. Shape(k)
  <2>1. k \in ListSet
    <3>1. k = [nodes |-> k.nodes, height |-> k.height]
      OBVIOUS
    <3> HIDE DEF k, tall
    <3> QED BY <3>1, <1>12, <1>13 DEF ListSet
  <2>2. \A n \in 1..N : k.nodes[n].key = l.nodes[n].key /\ Len(k.nodes[n].next) = Len(l.nodes[n].next)
    <3> HIDE DEF k, N
    <3> QED BY <1>13, <1>7, <1>6
  <2>3. 1 \in 1..N /\ Len(k.nodes) > 0
    <3> HIDE DEF k, N
    <3> QED BY <1>3, <1>13
  <2>4. Len(k.nodes[HEAD].next) = M
    <3> HIDE DEF k, N
    <3> QED BY <2>2, <2>3, <1>3 DEF Shape, HEAD
  <2>5. k.height >= l.height /\ k.height >= height /\ k.height \in Nat
    <3> HIDE DEF k
    <3> QED BY <1>12, <1>3
  <2>6. ASSUME NEW n \in 2..(N + 1)
        PROVE  k.nodes[n].key \in Keys /\ Len(k.nodes[n].next) \in 1..k.height
    <3> HIDE DEF k
    <3>1. CASE n = N + 1
      <4>1. k.nodes[n].key = key /\ k.nodes[n].next = next
        BY <3>1, <1>11, <1>13
      <4> QED BY <4>1, <1>9, <2>5
    <3>2. CASE n # N + 1
      <4>1. n \in 2..N /\ n \in 1..N
        BY <3>2, <1>3
      <4>2. l.nodes[n].key \in Keys /\ Len(l.nodes[n].next) \in 1..l.height
        BY <4>1, <1>3 DEF Shape
      <4>3. k.nodes[n].key = l.nodes[n].key /\ Len(k.nodes[n].next) = Len(l.nodes[n].next)
        BY <4>1, <2>2
      <4> QED BY <4>2, <4>3, <2>5, <1>3
    <3> QED BY <3>1, <3>2
  <2> HIDE DEF k, N
  <2> QED BY <2>1, <2>3, <2>4, <2>6, <1>13 DEF Shape
<1>15. \A n \in 1..N :
         /\ k.nodes[n].key = l.nodes[n].key /\ k.nodes[n].value = l.nodes[n].value
         /\ DOMAIN k.nodes[n].next = DOMAIN l.nodes[n].next
         /\ \A level \in DOMAIN l.nodes[n].next :
              k.nodes[n].next[level] =
                IF level <= height /\ prev[level] = n THEN N + 1 ELSE l.nodes[n].next[level]
  <2> HIDE DEF k
  <2> SUFFICES ASSUME NEW n \in 1..N
               PROVE  /\ k.nodes[n].key = l.nodes[n].key /\ k.nodes[n].value = l.nodes[n].value
                      /\ DOMAIN k.nodes[n].next = DOMAIN l.nodes[n].next
                      /\ \A level \in DOMAIN l.nodes[n].next :
                           k.nodes[n].next[level] =
                             IF level <= height /\ prev[level] = n THEN N + 1 ELSE l.nodes[n].next[level]
    OBVIOUS
  <2>1. /\ k.nodes[n].key = l.nodes[n].key /\ k.nodes[n].value = l.nodes[n].value
        /\ k.nodes[n].next = relink(l.nodes[n].next, n)
    BY <1>7, <1>13
  <2> QED BY <2>1 DEF relink
<1>16. /\ k.nodes[N + 1].key = key /\ k.nodes[N + 1].value = value
       /\ k.nodes[N + 1].next = next
  BY <1>11, <1>13
<1>17. \A level \in 1..height : next[level] = l.nodes[prev[level]].next[level]
  BY DEF next
<1> HIDE DEF k
<1>18. IsInserted(l, key, value, height, prev, k)
  BY <1>3, <1>9, <1>13, <1>14, <1>15, <1>16, <1>17 DEF IsInserted
<1> QED BY <1>1, <1>2, <1>18

\* Whatever height is drawn, insert leaves every level in order, with exactly the nodes that
\* reach it (SkipList::insert).
THEOREM InsertKeepsOrder ==
  ASSUME Ordered, NEW l, Sound(l), NEW key \in Keys, NEW value \in Values, NEW height \in 1..MAX_HEIGHT
  PROVE  Sound(Insert(l, key, value, height))
<1> DEFINE N == Len(l.nodes)
           M == MAX_HEIGHT
<1>1. PICK prev, k :
        /\ prev = FindPrev(l, key) /\ k = Insert(l, key, value, height)
        /\ Shape(k) /\ N \in Nat /\ Len(k.nodes) = N + 1
        /\ \A n \in 1..N :
             /\ k.nodes[n].key = l.nodes[n].key
             /\ DOMAIN k.nodes[n].next = DOMAIN l.nodes[n].next
             /\ \A level \in DOMAIN l.nodes[n].next :
                  k.nodes[n].next[level] =
                    IF level <= height /\ prev[level] = n THEN N + 1 ELSE l.nodes[n].next[level]
        /\ k.nodes[N + 1].key = key
        /\ DOMAIN k.nodes[N + 1].next = 1..height
        /\ \A level \in 1..height :
             k.nodes[N + 1].next[level] = l.nodes[prev[level]].next[level]
  BY Inserted DEF IsInserted
<1>2. Shape(l) /\ N > 0 /\ M \in Nat /\ Len(l.nodes[HEAD].next) = M /\ HEAD \in 1..N
  BY <1>1 DEF Sound, Shape, HEAD, Ordered
<1>3. DOMAIN l.nodes[HEAD].next = 1..M
  <2>1. l.nodes \in Seq(NodeSet)
    BY <1>2 DEF Shape, ListSet
  <2>2. l.nodes[HEAD] \in NodeSet
    BY <2>1, <1>2
  <2>3. l.nodes[HEAD].next \in Seq(Nat)
    BY <2>2 DEF NodeSet
  <2> QED BY <2>3, <1>2
<1>4. \A n \in 2..N : l.nodes[n].key \in Keys /\ n \in 1..N /\ n # HEAD /\ n # N + 1
  BY <1>1, <1>2 DEF Shape, HEAD
<1>5. N + 1 # HEAD /\ N + 1 \in 2..(N + 1) /\ N + 1 \notin 1..N /\ \A n \in 2..(N + 1) : n \in 2..N \/ n = N + 1
  BY <1>1, <1>2 DEF HEAD
\* The order of the nodes: the new one is behind the entries whose key is before its own.
<1>6. \A m, n \in 1..N : Ahead(k, m, n) <=> Ahead(l, m, n)
  <2> HIDE DEF N
  <2> QED BY <1>1 DEF Ahead
<1>7. Ahead(k, HEAD, N + 1) /\ ~Ahead(k, N + 1, N + 1)
  <2> HIDE DEF N
  <2>1. Ahead(k, HEAD, N + 1)
    BY <1>5 DEF Ahead
  <2>2. ~Ahead(k, N + 1, N + 1)
    BY <1>1, <1>5 DEF Ahead, Ordered
  <2> QED BY <2>1, <2>2
<1>a. \A n \in 2..N :
        /\ k.nodes[n].key = l.nodes[n].key /\ k.nodes[N + 1].key = key
        /\ n # HEAD /\ N + 1 # HEAD /\ n < N + 1 /\ ~(N + 1 < n) /\ l.nodes[n].key \in Keys
  BY <1>1, <1>4, <1>5
<1>b. ASSUME NEW n \in 2..N, Before(l.nodes[n].key, key)
      PROVE  Ahead(k, n, N + 1) /\ ~Ahead(k, N + 1, n)
  <2> HIDE DEF N
  <2>1. ~Before(key, l.nodes[n].key) /\ key # l.nodes[n].key
    BY <1>a, <1>b DEF Ordered
  <2> QED BY <1>a, <1>b, <2>1 DEF Ahead
<1>c. ASSUME NEW n \in 2..N, ~Before(l.nodes[n].key, key)
      PROVE  ~Ahead(k, n, N + 1) /\ Ahead(k, N + 1, n)
  <2> HIDE DEF N
  <2>1. Before(key, l.nodes[n].key) \/ key = l.nodes[n].key
    BY <1>a, <1>c DEF Ordered
  <2> QED BY <1>a, <1>c, <2>1 DEF Ahead
<1>8. ASSUME NEW level \in 1..M, NEW m \in OnLevel(k, level) \cup {HEAD}
      PROVE  IsFirst(k, k.nodes[m].next[level], {n \in OnLevel(k, level) : Ahead(k, m, n)})
  <2> DEFINE p == prev[level]
             old == OnLevel(l, level)
             Behind(c) == {n \in old : Ahead(l, c, n)}
  <2>1. IsPrev(l, key, level, p)
    BY <1>1, FindPrevFinds
  <2>2. \A n \in old : n \in 2..N /\ level \in DOMAIN l.nodes[n].next
    BY DEF OnLevel
  <2>3. p \in old \cup {HEAD} /\ p \in Short(l, key, level)
    BY <2>1 DEF IsPrev, Short
  <2>4. /\ \A n \in old : n \in OnLevel(k, level)
        /\ \A n \in OnLevel(k, level) : n \in old \/ (n = N + 1 /\ level <= height)
        /\ level <= height => N + 1 \in OnLevel(k, level)
    <3> HIDE DEF N
    <3>1. \A n : n \in OnLevel(k, level) <=> n \in 2..(N + 1) /\ level \in DOMAIN k.nodes[n].next
      BY <1>1 DEF OnLevel
    <3>2. \A n : n \in old <=> n \in 2..N /\ level \in DOMAIN l.nodes[n].next
      BY DEF OnLevel, N
    <3>3. \A n \in 2..N : DOMAIN k.nodes[n].next = DOMAIN l.nodes[n].next /\ n \in 2..(N + 1)
      BY <1>1, <1>4
    <3>4. level \in DOMAIN k.nodes[N + 1].next <=> level <= height
      BY <1>1
    <3> HIDE DEF old
    <3> QED BY <3>1, <3>2, <3>3, <3>4, <1>5
  <2>5. \A c \in old \cup {HEAD} :
          /\ c \in 1..N
          /\ IF Behind(c) = {} THEN l.nodes[c].next[level] = NIL
             ELSE /\ l.nodes[c].next[level] \in Behind(c)
                  /\ \A n \in Behind(c) \ {l.nodes[c].next[level]} : Ahead(l, l.nodes[c].next[level], n)
    BY Links DEF Sound
  <2>6. \A n \in old : Ahead(l, p, n) <=> ~Before(l.nodes[n].key, key)
    BY <2>1, BehindPrev
  <2>7. \A c \in old \cup {HEAD} : k.nodes[c].next[level] =
          IF level <= height /\ p = c THEN N + 1 ELSE l.nodes[c].next[level]
    <3>1. \A c \in old \cup {HEAD} : c \in 1..N /\ level \in DOMAIN l.nodes[c].next
      BY <2>2, <1>2, <1>3, <1>4
    <3> HIDE DEF N, old
    <3> QED BY <3>1, <1>1
  <2> DEFINE new == OnLevel(k, level)
             Next == k.nodes[m].next[level]
             BehindNow == {n \in new : Ahead(k, m, n)}
  <2>a. \A n \in old : n \in 2..N /\ n \in 1..N /\ n # HEAD /\ n # N + 1
    BY <2>2, <1>4
  <2> HIDE DEF p, old, new, Next, N
  <2>8. CASE level > height
    <3>1. new = old
      <4>1. \A n \in new : n \in old
        BY <2>4, <2>8 DEF new
      <4>2. \A n \in old : n \in new
        BY <2>4 DEF new
      <4> QED BY <4>1, <4>2
    <3>2. m \in old \cup {HEAD} /\ m \in 1..N
      BY <3>1, <2>5 DEF new
    <3>3. Next = l.nodes[m].next[level]
      BY <3>2, <2>7, <2>8 DEF Next
    <3>4. BehindNow = Behind(m)
      BY <3>1, <3>2, <2>a, <1>6
    <3>5. IF BehindNow = {} THEN Next = NIL
          ELSE Next \in BehindNow /\ \A n \in BehindNow \ {Next} : Ahead(k, Next, n)
      <4>1. \A n \in BehindNow : n \in 1..N
        BY <3>1, <2>a
      <4>2. IF Behind(m) = {} THEN Next = NIL
            ELSE Next \in Behind(m) /\ \A n \in Behind(m) \ {Next} : Ahead(l, Next, n)
        BY <3>2, <3>3, <2>5
      <4> HIDE DEF BehindNow, Behind
      <4> QED BY <4>1, <4>2, <3>4, <1>6
    <3> QED BY <3>5 DEF IsFirst, Next, new
  <2>9. CASE level <= height
    <3>1. \A n : n \in new <=> n \in old \/ n = N + 1
      BY <2>4, <2>9 DEF new
    <3>2. CASE m = N + 1
      <4>1. Next = l.nodes[p].next[level]
        <5>1. level \in 1..height
          BY <2>9
        <5>2. k.nodes[N + 1].next[level] = l.nodes[prev[level]].next[level]
          BY <5>1, <1>1
        <5> QED BY <5>2, <3>2 DEF Next, p
      <4>2. BehindNow = Behind(p)
        <5>1. \A n \in old : Ahead(k, m, n) <=> Ahead(l, p, n)
          BY <3>2, <2>a, <2>6, <1>7, <1>b, <1>c
        <5>2. ~Ahead(k, m, N + 1)
          BY <3>2, <1>7, <1>b, <1>c
        <5> QED BY <5>1, <5>2, <3>1
      <4>3. \A n \in BehindNow : n \in 1..N
        BY <4>2, <2>a
      <4>4. IF Behind(p) = {} THEN Next = NIL
            ELSE Next \in Behind(p) /\ \A n \in Behind(p) \ {Next} : Ahead(l, Next, n)
        BY <4>1, <2>3, <2>5
      <4>5. IF BehindNow = {} THEN Next = NIL
            ELSE Next \in BehindNow /\ \A n \in BehindNow \ {Next} : Ahead(k, Next, n)
        <5> HIDE DEF BehindNow, Behind
        <5> QED BY <4>2, <4>3, <4>4, <1>6
      <4> QED BY <4>5 DEF IsFirst, Next, new
    <3>3. CASE m = p
      <4>1. Next = N + 1
        BY <3>3, <2>3, <2>7, <2>9 DEF Next
      <4>2. Ahead(k, m, N + 1)
        <5>1. CASE p = HEAD
          BY <5>1, <3>3, <1>7, <1>b, <1>c
        <5>2. CASE p # HEAD
          <6>1. p \in old /\ Before(l.nodes[p].key, key)
            BY <5>2, <2>3 DEF Short, old
          <6> QED BY <6>1, <3>3, <2>a, <1>7, <1>b, <1>c
        <5> QED BY <5>1, <5>2
      <4>3. \A n \in BehindNow \ {N + 1} : Ahead(k, N + 1, n)
        <5> SUFFICES ASSUME NEW n \in old, Ahead(k, m, n) PROVE Ahead(k, N + 1, n)
          BY <3>1
        <5>1. Ahead(l, p, n)
          BY <3>3, <2>3, <2>5, <2>a, <1>6
        <5> QED BY <5>1, <2>6, <2>a, <1>7, <1>b, <1>c
      <4>4. N + 1 \in BehindNow
        BY <4>2, <3>1
      <4> QED BY <4>1, <4>3, <4>4 DEF IsFirst, Next, new
    <3>4. CASE m # p /\ m # N + 1
      <4>1. m \in old \cup {HEAD} /\ m \in 1..N /\ p \in 1..N
        BY <3>1, <3>4, <2>3, <2>5 DEF new
      <4>2. Next = l.nodes[m].next[level]
        BY <3>4, <4>1, <2>7 DEF Next
      <4>3. IF Behind(m) = {} THEN Next = NIL
            ELSE Next \in Behind(m) /\ \A n \in Behind(m) \ {Next} : Ahead(l, Next, n)
        BY <4>1, <4>2, <2>5
      <4>4. \A n \in old : Ahead(k, m, n) <=> Ahead(l, m, n)
        BY <4>1, <2>a, <1>6
      <4>5. CASE m \in Short(l, key, level)
        <5>1. Ahead(l, m, p)
          BY <4>5, <3>4, <2>1 DEF IsPrev
        <5>2. p # HEAD
          BY <5>1 DEF Ahead
        <5>3. p \in Behind(m)
          BY <5>1, <5>2, <2>3
        <5>4. Next \in Behind(m) /\ (Next = p \/ Ahead(l, Next, p))
          BY <5>3, <4>3
        <5>5. Next \in old /\ Next \in 1..N
          BY <5>4, <2>a
        <5>6. ~Ahead(l, p, Next)
          BY <5>4, <5>5, <4>1, <1>2, AheadOrder DEF N
        <5>7. Ahead(k, Next, N + 1)
          BY <5>5, <5>6, <2>6, <2>a, <1>7, <1>b, <1>c
        <5>8. Next \in BehindNow
          BY <5>4, <5>5, <3>1, <4>4
        <5>9. ASSUME NEW n \in BehindNow, n # Next PROVE Ahead(k, Next, n)
          <6>1. CASE n = N + 1
            BY <6>1, <5>7
          <6>2. CASE n # N + 1
            <7>1. n \in old /\ n \in Behind(m)
              BY <6>2, <5>9, <3>1, <4>4
            <7>2. Ahead(l, Next, n) /\ n \in 1..N
              BY <7>1, <5>9, <4>3, <2>a
            <7> QED BY <7>2, <5>5, <1>6
          <6> QED BY <6>1, <6>2
        <5> QED BY <5>8, <5>9 DEF IsFirst, Next, new
      <4>6. CASE m \notin Short(l, key, level)
        <5>1. m \in old /\ ~Before(l.nodes[m].key, key)
          BY <4>6, <4>1 DEF Short, old
        <5>2. ~Ahead(k, m, N + 1)
          BY <5>1, <2>a, <1>7, <1>b, <1>c
        <5>3. BehindNow = Behind(m)
          BY <5>2, <3>1, <4>4
        <5>4. \A n \in BehindNow : n \in 1..N
          BY <5>3, <2>a
        <5>5. IF BehindNow = {} THEN Next = NIL
              ELSE Next \in BehindNow /\ \A n \in BehindNow \ {Next} : Ahead(k, Next, n)
          <6> HIDE DEF BehindNow, Behind
          <6> QED BY <5>3, <5>4, <4>3, <1>6
        <5> QED BY <5>5 DEF IsFirst, Next, new
      <4> QED BY <4>5, <4>6
    <3> QED BY <3>2, <3>3, <3>4
  <2>10. level > height \/ level <= height
    BY <1>2
  <2> QED BY <2>8, <2>9, <2>10
<1>9. WellFormed(k)
  BY <1>8 DEF WellFormed
<1> QED BY <1>1, <1>9 DEF Sound

----------------------------------------------------------------------------
(* Iterating *)

\* The lowest level, node for node.
LEMMA AlongFollows ==
  ASSUME Ordered, NEW l, Sound(l)
  PROVE  LET at == Along(l)
         IN at[0] = HEAD /\ \A n \in 1..Len(l.nodes) : at[n] = Follow(l, at[n - 1])
<1> DEFINE N == Len(l.nodes)
           S == {NIL} \cup 1..N
           to == [c \in S |-> Follow(l, c)]
           step == [i \in 1..N |-> to]
           Body(f) == [n \in 0..N |-> IF n = 0 THEN HEAD ELSE Follow(l, f[n - 1])]
           at == CHOOSE f : f = Body(f)
<1>1. Shape(l) /\ N \in Nat /\ HEAD \in 1..N /\ OnLevel(l, 1) = 2..N /\ 1 \in 1..MAX_HEIGHT
  BY LowestLevel DEF Sound, Shape, ListSet, HEAD
<1>2. \A c \in S : Follow(l, c) \in S
  <2> SUFFICES ASSUME NEW c \in S, c # NIL PROVE Follow(l, c) \in S
    BY DEF Follow
  <2>1. c \in OnLevel(l, 1) \cup {HEAD} /\ Follow(l, c) = l.nodes[c].next[1]
    BY <1>1 DEF Follow, HEAD
  <2>2. l.nodes[c].next[1] = NIL \/ l.nodes[c].next[1] \in OnLevel(l, 1)
    BY <1>1, <2>1, Links
  <2> QED BY <1>1, <2>1, <2>2
<1>3. to \in [S -> S] /\ HEAD \in S
  BY <1>1, <1>2
<1>4. step \in [1..N -> [S -> S]]
  BY <1>3
<1>5. PICK f \in [0..N -> S] : Recursive(f, N, HEAD, step)
  <2> HIDE DEF N, S, step
  <2> QED BY <1>1, <1>3, <1>4, RecursionExists
<1>6. f = Body(f)
  <2>1. \A n \in 1..N : n - 1 \in 0..N
    BY <1>1
  <2>2. \A n \in 1..N : f[n] = Follow(l, f[n - 1])
    <3>1. \A n \in 1..N : f[n] = step[n][f[n - 1]] /\ f[n - 1] \in S
      BY <1>5, <2>1 DEF Recursive
    <3> HIDE DEF S
    <3> QED BY <3>1
  <2>3. f[0] = HEAD
    BY <1>5 DEF Recursive
  <2>4. \A n \in 0..N : n = 0 \/ n \in 1..N
    BY <1>1
  <2> HIDE DEF N, S
  <2> QED BY <1>5, <2>2, <2>3, <2>4
<1>7. at = Body(at)
  <2> HIDE DEF Body
  <2> QED BY <1>6
<1>8. Along(l) = at
  BY DEF Along
<1>9. PICK g : g = Along(l) /\ g = Body(g)
  <2> HIDE DEF Body, at
  <2> QED BY <1>7, <1>8
<1>10. PICK h : h = g /\ h = Body(g)
  <2> HIDE DEF Body
  <2> QED BY <1>9
<1>11. \A n \in 0..N : h[n] = IF n = 0 THEN HEAD ELSE Follow(l, g[n - 1])
  <2>1. h = Body(g)
    BY <1>10
  <2> QED BY <2>1
<1>12. g[0] = HEAD /\ \A n \in 1..N : g[n] = Follow(l, g[n - 1])
  <2>1. 0 \in 0..N /\ \A n \in 1..N : n \in 0..N /\ n # 0
    BY <1>1
  <2>2. h = g
    BY <1>10
  <2> HIDE DEF N
  <2> QED BY <1>11, <2>1, <2>2
<1>13. g = Along(l)
  BY <1>9
<1> HIDE DEF Body
<1> QED BY <1>12, <1>13

\* iter shows every entry once, in the order of the keys (SkipList::iter).
THEOREM IterShowsAll ==
  ASSUME Ordered, NEW l, Sound(l)
  PROVE  LET size == Len(l.nodes) - 1
         IN \E order \in [1..size -> 2..Len(l.nodes)] :
              /\ \A n \in 2..Len(l.nodes) : \E i \in 1..size : order[i] = n
              /\ \A i, j \in 1..size : i < j => Ahead(l, order[i], order[j])
              /\ Iter(l) = [i \in 1..size |-> [key |-> l.nodes[order[i]].key,
                                              value |-> l.nodes[order[i]].value]]
<1> DEFINE N == Len(l.nodes)
           Passed(c) == {p \in 1..N : Ahead(l, p, c)}
           Rank(c) == Cardinality(Passed(c))
<1>1. Shape(l) /\ N \in Nat /\ N > 0 /\ OnLevel(l, 1) = 2..N /\ 1 \in 1..MAX_HEIGHT
  BY LowestLevel DEF Sound, Shape, ListSet
<1>2. PICK at : at = Along(l) /\ at[0] = HEAD /\ \A n \in 1..N : at[n] = Follow(l, at[n - 1])
  BY AlongFollows
<1>3. NIL \notin 1..N /\ HEAD \in 1..N /\ HEAD \notin 2..N /\ \A n \in 1..N : n = HEAD \/ n \in 2..N
  BY <1>1 DEF NIL, HEAD
<1>4. IsFiniteSet(1..N) /\ Cardinality(1..N) = N
  <2> HIDE DEF N
  <2>1. Cardinality(1..N) = IF 1 > N THEN 0 ELSE N - 1 + 1
    BY <1>1, FS_Interval
  <2> QED BY <2>1, <1>1, FS_Interval
<1>5. \A c \in 1..N : IsFiniteSet(Passed(c)) /\ Rank(c) \in Nat /\ c \notin Passed(c)
  <2> SUFFICES ASSUME NEW c \in 1..N PROVE IsFiniteSet(Passed(c)) /\ Rank(c) \in Nat /\ c \notin Passed(c)
    OBVIOUS
  <2>1. c \notin Passed(c)
    BY <1>1, AheadOrder
  <2> QED BY <2>1, <1>4, FS_Subset, FS_CardinalityType
\* A link of the lowest level leads to the node of the next rank.
<1>6. ASSUME NEW c \in 1..N
      PROVE  LET to == Follow(l, c)
             IN IF Rank(c) = N - 1 THEN to = NIL
                ELSE to \in 2..N /\ Ahead(l, c, to) /\ Rank(to) = Rank(c) + 1 /\ Rank(c) + 1 <= N - 1
  <2> DEFINE behind == {n \in 2..N : Ahead(l, c, n)}
             upTo == Passed(c) \cup {c}
  <2>1. PICK to : /\ to = Follow(l, c)
                  /\ IF behind = {} THEN to = NIL
                     ELSE to \in behind /\ \A n \in behind \ {to} : Ahead(l, to, n)
    <3>1. c \in OnLevel(l, 1) \cup {HEAD} /\ Follow(l, c) = l.nodes[c].next[1]
      BY <1>1, <1>3 DEF Follow
    <3> QED BY <3>1, <1>1, Links
  <2>2. IsFiniteSet(upTo) /\ Cardinality(upTo) = Rank(c) + 1 /\ upTo \subseteq 1..N
    <3>1. upTo \subseteq 1..N
      OBVIOUS
    <3> HIDE DEF Passed, N
    <3> QED BY <3>1, <1>5, FS_AddElement
  <2>3. behind = (1..N) \ upTo
    <3>1. \A n \in 2..N : n \in 1..N
      BY <1>1
    <3>2. ASSUME NEW n \in 1..N, n \notin upTo PROVE n \in behind
      <4>1. n # c /\ ~Ahead(l, n, c)
        BY <3>2
      <4>2. Ahead(l, c, n)
        BY <4>1, <1>1, AheadOrder
      <4>3. n # HEAD
        BY <4>2 DEF Ahead
      <4> QED BY <4>2, <4>3, <1>3
    <3>3. ASSUME NEW n \in behind PROVE n \in 1..N /\ n \notin upTo
      BY <3>1, <1>1, AheadOrder
    <3> HIDE DEF upTo, behind
    <3> QED BY <3>2, <3>3
  <2>4. Rank(c) + 1 <= N /\ (Rank(c) + 1 = N <=> upTo = 1..N)
    <3> HIDE DEF upTo, Passed, N
    <3> QED BY <2>2, <1>4, FS_Subset
  <2>5. Rank(c) \in Nat
    BY <1>5
  <2>6. CASE Rank(c) = N - 1
    <3>1. upTo = 1..N
      <4> HIDE DEF upTo, Rank, N
      <4> QED BY <2>4, <2>5, <2>6, <1>1
    <3>2. behind = {}
      <4> HIDE DEF upTo, behind
      <4> QED BY <3>1, <2>3
    <3> HIDE DEF behind, Rank
    <3> QED BY <3>2, <2>1, <2>6
  <2>7. CASE Rank(c) # N - 1
    <3>1. upTo # 1..N /\ Rank(c) + 1 <= N - 1
      <4> HIDE DEF upTo, Rank, N
      <4> QED BY <2>4, <2>5, <2>7, <1>1
    <3>2. behind # {}
      <4> HIDE DEF upTo, behind
      <4> QED BY <3>1, <2>2, <2>3
    <3>3. to \in behind /\ \A n \in behind \ {to} : Ahead(l, to, n)
      <4> HIDE DEF behind
      <4> QED BY <3>2, <2>1
    <3>4. Passed(to) = upTo
      <4>1. to \in 1..N
        BY <3>3, <1>1
      <4>2. ASSUME NEW p \in 1..N, Ahead(l, p, to) PROVE p \in upTo
        <5>1. p \notin behind
          BY <4>1, <4>2, <3>3, <1>1, AheadOrder
        <5> HIDE DEF behind, upTo
        <5> QED BY <5>1, <2>3
      <4>3. ASSUME NEW p \in upTo PROVE p \in 1..N /\ Ahead(l, p, to)
        BY <4>1, <3>3, <1>1, AheadOrder
      <4> HIDE DEF upTo
      <4> QED BY <4>2, <4>3
    <3>5. Rank(to) = Rank(c) + 1
      <4> HIDE DEF upTo, Passed
      <4> QED BY <3>4, <2>2
    <3>6. to \in 2..N /\ Ahead(l, c, to)
      BY <3>3
    <3> HIDE DEF behind, Rank
    <3> QED BY <3>1, <3>5, <3>6, <2>1, <2>7
  <2> HIDE DEF Rank
  <2> QED BY <2>6, <2>7
<1>7. \A c, d \in 1..N : Ahead(l, c, d) => Rank(c) < Rank(d) /\ Rank(d) < N
  BY <1>1, PassedGrows
<1>8. Rank(HEAD) = 0
  <2>1. Passed(HEAD) = {}
    BY DEF Ahead
  <2> HIDE DEF Passed
  <2> QED BY <2>1, FS_EmptySet
<1> HIDE DEF Rank, N
<1> DEFINE A == {n \in 0..N : IF n <= N - 1 THEN at[n] \in 1..N /\ Rank(at[n]) = n ELSE at[n] = NIL}
<1>9. 0..N \subseteq A
  <2>1. 0 \in A
    BY <1>1, <1>2, <1>3, <1>8
  <2>2. ASSUME NEW n \in 1..N, n - 1 \in A PROVE n \in A
    <3>1. at[n - 1] \in 1..N /\ Rank(at[n - 1]) = n - 1 /\ at[n] = Follow(l, at[n - 1]) /\ n \in 0..N
      BY <2>2, <1>1, <1>2
    <3>2. CASE n = N
      <4>1. at[n] = NIL
        BY <3>1, <3>2, <1>6
      <4> QED BY <4>1, <3>1, <3>2, <1>1
    <3>3. CASE n # N
      <4>1. at[n] \in 2..N /\ Rank(at[n]) = (n - 1) + 1
        BY <3>1, <3>3, <1>1, <1>6
      <4>2. at[n] \in 1..N /\ Rank(at[n]) = n /\ n <= N - 1
        BY <4>1, <3>3, <1>1
      <4> QED BY <4>2, <3>1
    <3> QED BY <3>2, <3>3
  <2> HIDE DEF A
  <2> QED BY <1>1, <2>1, <2>2, CountingUp
<1>10. \A n \in 0..N - 1 : at[n] \in 1..N /\ Rank(at[n]) = n
  <2>1. \A n \in 0..N - 1 : n \in 0..N /\ n <= N - 1
    BY <1>1
  <2> QED BY <2>1, <1>9
<1>11. at[N] = NIL
  <2>1. N \in 0..N /\ ~(N <= N - 1)
    BY <1>1
  <2> QED BY <2>1, <1>9
<1> HIDE DEF A
<1>12. \A c, d \in 1..N : Rank(c) < Rank(d) => Ahead(l, c, d)
  <2> SUFFICES ASSUME NEW c \in 1..N, NEW d \in 1..N, Rank(c) < Rank(d) PROVE Ahead(l, c, d)
    OBVIOUS
  <2>1. Rank(c) \in Nat /\ Rank(d) \in Nat
    BY <1>5 DEF Rank
  <2>2. c # d /\ ~Ahead(l, d, c)
    BY <2>1, <1>7
  <2> QED BY <2>2, <1>1, AheadOrder DEF N
<1>13. \A c, d \in 1..N : Rank(c) = Rank(d) => c = d
  <2> SUFFICES ASSUME NEW c \in 1..N, NEW d \in 1..N, Rank(c) = Rank(d) PROVE c = d
    OBVIOUS
  <2>1. Rank(c) \in Nat /\ Rank(d) \in Nat
    BY <1>5 DEF Rank
  <2>2. ~Ahead(l, c, d) /\ ~Ahead(l, d, c)
    BY <2>1, <1>7
  <2> QED BY <2>2, <1>1, AheadOrder DEF N
<1> DEFINE size == N - 1
           order == [i \in 1..size |-> at[i]]
<1>14. \A i \in 1..size : /\ i \in 0..N - 1 /\ i \in 1..N /\ order[i] = at[i]
                          /\ at[i] \in 2..N /\ Rank(at[i]) = i /\ at[i] # NIL
  <2> SUFFICES ASSUME NEW i \in 1..size
               PROVE  /\ i \in 0..N - 1 /\ i \in 1..N
                      /\ at[i] \in 2..N /\ Rank(at[i]) = i /\ at[i] # NIL
    OBVIOUS
  <2>1. i \in 0..N - 1 /\ i \in 1..N /\ i # 0
    BY <1>1
  <2>2. at[i] \in 1..N /\ Rank(at[i]) = i
    BY <2>1, <1>10
  <2>3. at[i] # HEAD
    BY <2>1, <2>2, <1>8
  <2> QED BY <2>1, <2>2, <2>3, <1>3
<1>15. order \in [1..size -> 2..N]
  BY <1>14
<1>16. ASSUME NEW n \in 2..N PROVE \E i \in 1..size : order[i] = n
  <2>1. n \in 1..N /\ n # HEAD
    BY <1>1, <1>3 DEF HEAD
  <2>2. Ahead(l, HEAD, n)
    BY <2>1 DEF Ahead
  <2>3. Rank(n) \in Nat /\ 0 < Rank(n) /\ Rank(n) < N
    <3>1. Rank(n) \in Nat
      BY <2>1, <1>5 DEF Rank
    <3> QED BY <3>1, <2>1, <2>2, <1>3, <1>7, <1>8
  <2>4. Rank(n) \in 1..size
    BY <2>3, <1>1
  <2>5. order[Rank(n)] = n
    BY <2>1, <2>4, <1>13, <1>14, <1>1
  <2> QED BY <2>4, <2>5
<1>17. ASSUME NEW i \in 1..size, NEW j \in 1..size, i < j PROVE Ahead(l, order[i], order[j])
  <2>1. order[i] \in 1..N /\ order[j] \in 1..N /\ Rank(order[i]) = i /\ Rank(order[j]) = j
    BY <1>14, <1>1
  <2> HIDE DEF order
  <2> QED BY <2>1, <1>17, <1>12
<1>18. Cardinality({n \in 1..N : at[n] # NIL}) = size
  <2>1. {n \in 1..N : at[n] # NIL} = 1..size
    <3>1. \A n \in 1..N : n = N \/ n \in 1..size
      BY <1>1
    <3> QED BY <3>1, <1>11, <1>14
  <2>2. Cardinality(1..size) = IF 1 > size THEN 0 ELSE size - 1 + 1
    BY <1>1, FS_Interval
  <2>3. Cardinality(1..size) = size
    BY <2>2, <1>1
  <2> QED BY <2>1, <2>3
<1>19. Iter(l) = [i \in 1..size |-> [key |-> l.nodes[order[i]].key, value |-> l.nodes[order[i]].value]]
  <2>1. Iter(l) = [i \in 1..Cardinality({n \in 1..N : at[n] # NIL}) |->
                     [key |-> l.nodes[at[i]].key, value |-> l.nodes[at[i]].value]]
    BY <1>2 DEF Iter, N
  <2>2. Iter(l) = [i \in 1..size |-> [key |-> l.nodes[at[i]].key, value |-> l.nodes[at[i]].value]]
    BY <2>1, <1>18
  <2> QED BY <2>2, <1>14
<1> HIDE DEF order
<1> QED BY <1>15, <1>16, <1>17, <1>19 DEF N

----------------------------------------------------------------------------
(* The memtable *)

\* A list that is only ever inserted into, as the memtable's is.
VARIABLE memtable

SkipInit == memtable = EmptyList

SkipNext ==
  \E key \in Keys, value \in Values, height \in 1..MAX_HEIGHT :
    memtable' = Insert(memtable, key, value, height)

SkipSpec == SkipInit /\ [][SkipNext]_memtable

\* An entry is never changed, moved or lost, and the one that is inserted is found from then
\* on until another with its key is.
EntriesStay ==
  [][/\ Len(memtable'.nodes) = Len(memtable.nodes) + 1
     /\ \A n \in 2..Len(memtable.nodes) :
          /\ memtable'.nodes[n].key = memtable.nodes[n].key
          /\ memtable'.nodes[n].value = memtable.nodes[n].value
     /\ LET key == memtable'.nodes[Len(memtable.nodes) + 1].key
        IN Find(memtable', key) = Len(memtable.nodes) + 1]_memtable

\* Every list that insert makes is well formed, so that what lower_bound, get and iter are
\* shown to return of such a list, they return of every memtable (SkipList::insert).
THEOREM MemtableStaysWellFormed == Ordered => (SkipSpec => []WellFormed(memtable))
<1> SUFFICES ASSUME Ordered PROVE SkipSpec => []WellFormed(memtable)
  OBVIOUS
<1>1. SkipInit => Sound(memtable)
  BY EmptySound DEF SkipInit
<1>2. Sound(memtable) /\ [SkipNext]_memtable => Sound(memtable)'
  BY InsertKeepsOrder DEF SkipNext
<1>3. Sound(memtable) => WellFormed(memtable)
  BY DEF Sound
<1> QED BY <1>1, <1>2, <1>3, PTL DEF SkipSpec

\* Nothing is lost from a memtable, and what was inserted last is found at once
\* (SkipList::insert, get).
THEOREM InsertedIsFound == Ordered => (SkipSpec => EntriesStay)
<1> SUFFICES ASSUME Ordered PROVE SkipSpec => EntriesStay
  OBVIOUS
<1> DEFINE Stay ==
      /\ Len(memtable'.nodes) = Len(memtable.nodes) + 1
      /\ \A n \in 2..Len(memtable.nodes) :
           /\ memtable'.nodes[n].key = memtable.nodes[n].key
           /\ memtable'.nodes[n].value = memtable.nodes[n].value
      /\ LET key == memtable'.nodes[Len(memtable.nodes) + 1].key
         IN Find(memtable', key) = Len(memtable.nodes) + 1
<1>1. SkipInit => Sound(memtable)
  BY EmptySound DEF SkipInit
<1>2. Sound(memtable) /\ [SkipNext]_memtable => Sound(memtable)'
  BY InsertKeepsOrder DEF SkipNext
<1>3. Sound(memtable) /\ [SkipNext]_memtable => [Stay]_memtable
  <2> SUFFICES ASSUME Sound(memtable), SkipNext PROVE Stay
    OBVIOUS
  <2>1. PICK key \in Keys, value \in Values, height \in 1..MAX_HEIGHT :
          memtable' = Insert(memtable, key, value, height)
    BY DEF SkipNext
  <2>2. PICK l, k, N : l = memtable /\ k = memtable' /\ N = Len(l.nodes)
    OBVIOUS
  <2>3. Sound(l) /\ Sound(k) /\ k = Insert(l, key, value, height)
    BY <2>1, <2>2, InsertKeepsOrder
  <2>4. /\ N \in Nat /\ Len(k.nodes) = N + 1
        /\ \A n \in 1..N : k.nodes[n].key = l.nodes[n].key /\ k.nodes[n].value = l.nodes[n].value
        /\ k.nodes[N + 1].key = key
    <3>1. IsInserted(l, key, value, height, FindPrev(l, key), k)
      BY <2>3, Inserted
    <3> QED BY <3>1, <2>2 DEF IsInserted
  <2>5. N > 0
    BY <2>2, <2>3 DEF Sound, Shape
  <2>6. Find(k, key) = N + 1
    <3> DEFINE has == {n \in 2..Len(k.nodes) : k.nodes[n].key = key}
    <3>1. N + 1 \in has
      BY <2>4, <2>5
    <3>2. Find(k, key) \in has /\ \A n \in has : n <= Find(k, key)
      BY <2>3, <3>1, FindsLatest
    <3>3. Find(k, key) \in 2..(N + 1) /\ N + 1 <= Find(k, key)
      BY <2>4, <3>1, <3>2
    <3> QED BY <3>3, <2>4
  <2>7. \A n \in 2..N : n \in 1..N
    BY <2>4
  <2> QED BY <2>2, <2>4, <2>6, <2>7
<1> HIDE DEF Stay
<1>4. SkipSpec => [][Stay]_memtable
  BY <1>1, <1>2, <1>3, PTL DEF SkipSpec
<1> QED BY <1>4 DEF Stay, EntriesStay
=============================================================================
