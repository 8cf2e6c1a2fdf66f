----------------------------- MODULE LightIR_proofs -----------------------------
(***************************************************************************)
(* Facts the proofs about the passes share: about dominance, in every      *)
(* graph whose edges stay inside it, and about the def-use data of LightIR *)
(* and what the operations do to them.                                     *)
(***************************************************************************)
EXTENDS Dominance, LightIR, Functions, FiniteSetTheorems, SequenceTheorems,
        WellFoundedInduction, TLAPS

EdgesInside(g) ==
  /\ Entry(g) \in Blocks(g)
  /\ \A b \in Blocks(g) : SuccOf(g, b) \subseteq Blocks(g)

AllReached(g) ==
  \A X \in SUBSET Blocks(g) :
    Entry(g) \in X /\ (\A b \in X : SuccOf(g, b) \subseteq X) => X = Blocks(g)

\* The blocks in every set around d: what d dominates is outside.
ReachedAround(g, d) ==
  {b \in Blocks(g) \ {d} : \A X \in SUBSET Blocks(g) : Around(g, d, X) => b \in X}

\* The least set around d is one of them, so it alone decides what d dominates.
LEMMA ReachedIsAround ==
  ASSUME NEW g, EdgesInside(g), NEW d \in Blocks(g)
  PROVE  /\ Around(g, d, ReachedAround(g, d))
         /\ \A b \in Blocks(g) : Dominates(g, d, b) => b \notin ReachedAround(g, d)
<1> DEFINE R == ReachedAround(g, d)
<1>1. R \subseteq Blocks(g) \ {d}
  BY DEF ReachedAround
<1>2. Entry(g) \in R \cup {d}
  BY DEF ReachedAround, Around, EdgesInside
<1>3. ASSUME NEW b \in R, NEW s \in SuccOf(g, b), s # d
      PROVE  s \in R
  <2>1. s \in Blocks(g)
    BY <1>1 DEF EdgesInside
  <2>2. ASSUME NEW X \in SUBSET Blocks(g), Around(g, d, X) PROVE s \in X
    <3>1. b \in X
      BY <2>2 DEF ReachedAround
    <3> QED BY <1>3, <2>2, <3>1 DEF Around
  <2> QED BY <1>3, <2>1, <2>2 DEF ReachedAround
<1>4. Around(g, d, R)
  BY <1>1, <1>2, <1>3 DEF Around
<1>5. \A b \in Blocks(g) : Dominates(g, d, b) => b \notin R
  BY DEF Dominates, ReachedAround
<1> QED BY <1>4, <1>5

LEMMA DominatesReflexive ==
  ASSUME NEW g, EdgesInside(g), NEW d \in Blocks(g)
  PROVE  Dominates(g, d, d)
<1>1. Around(g, d, ReachedAround(g, d)) /\ d \notin ReachedAround(g, d)
  BY ReachedIsAround DEF ReachedAround
<1>2. ReachedAround(g, d) \in SUBSET Blocks(g)
  BY DEF ReachedAround
<1> QED BY <1>1, <1>2 DEF Dominates

LEMMA DominatesTransitive ==
  ASSUME NEW g, NEW d, NEW e, NEW n, Dominates(g, d, e), Dominates(g, e, n)
  PROVE  Dominates(g, d, n)
<1>1. PICK X \in SUBSET Blocks(g) : Around(g, d, X) /\ e \notin X
  BY DEF Dominates
<1>2. PICK Y \in SUBSET Blocks(g) : Around(g, e, Y) /\ n \notin Y
  BY DEF Dominates
<1>3. Around(g, d, X \cap Y)
  BY <1>1, <1>2 DEF Around
<1> QED BY <1>2, <1>3 DEF Dominates

LEMMA DominatesAntisymmetric ==
  ASSUME NEW g, AllReached(g), NEW d \in Blocks(g), NEW n \in Blocks(g),
         Dominates(g, d, n), Dominates(g, n, d)
  PROVE  d = n
<1> SUFFICES ASSUME d # n PROVE FALSE
  OBVIOUS
<1>1. PICK X \in SUBSET Blocks(g) : Around(g, d, X) /\ n \notin X
  BY DEF Dominates
<1>2. PICK Y \in SUBSET Blocks(g) : Around(g, n, Y) /\ d \notin Y
  BY DEF Dominates
<1>3. Entry(g) \in X \cap Y /\ \A b \in X \cap Y : SuccOf(g, b) \subseteq X \cap Y
  BY <1>1, <1>2 DEF Around
<1>4. X \cap Y = Blocks(g)
  BY <1>3 DEF AllReached
<1> QED BY <1>1, <1>4

\* Who strictly dominates a block dominates what leads to it.
LEMMA DominatesPreds ==
  ASSUME NEW g, NEW d, NEW n, StrictlyDominates(g, d, n), NEW p \in PredsOf(g, n)
  PROVE  Dominates(g, d, p)
<1>1. PICK X \in SUBSET Blocks(g) : Around(g, d, X) /\ n \notin X
  BY DEF Dominates, StrictlyDominates
<1>2. p \notin X
  BY <1>1 DEF Around, PredsOf, StrictlyDominates
<1> QED BY <1>1, <1>2 DEF Dominates

\* What dominates the only predecessor of a block strictly dominates the block.
LEMMA OnePred ==
  ASSUME NEW g, EdgesInside(g), AllReached(g), NEW n \in Blocks(g), n # Entry(g),
         NEW p, PredsOf(g, n) = {p}, NEW d, Dominates(g, d, p)
  PROVE  StrictlyDominates(g, d, n)
<1>1. PICK X \in SUBSET Blocks(g) : Around(g, d, X) /\ p \notin X
  BY DEF Dominates
<1>2. Around(g, d, X \ {n})
  BY <1>1 DEF Around, PredsOf
<1>3. d # n
  <2> SUFFICES ASSUME d = n PROVE FALSE
    OBVIOUS
  <2>1. Entry(g) \in X /\ \A b \in X : SuccOf(g, b) \subseteq X
    BY <1>1 DEF Around, PredsOf
  <2>2. X = Blocks(g)
    BY <2>1 DEF AllReached
  <2> QED BY <1>1, <2>2 DEF PredsOf
<1> QED BY <1>2, <1>3 DEF Dominates, StrictlyDominates

\* Two blocks that dominate a third are one above the other.
LEMMA Comparable ==
  ASSUME NEW g, AllReached(g), NEW d \in Blocks(g), NEW e \in Blocks(g), NEW n \in Blocks(g),
         Dominates(g, d, n), Dominates(g, e, n)
  PROVE  Dominates(g, d, e) \/ Dominates(g, e, d)
<1> SUFFICES ASSUME ~Dominates(g, d, e), ~Dominates(g, e, d) PROVE FALSE
  OBVIOUS
<1>1. PICK X \in SUBSET Blocks(g) : Around(g, d, X) /\ n \notin X
  BY DEF Dominates
<1>2. PICK Y \in SUBSET Blocks(g) : Around(g, e, Y) /\ n \notin Y
  BY DEF Dominates
<1>3. e \in X /\ d \in Y
  BY <1>1, <1>2 DEF Dominates
<1>4. Entry(g) \in X \cup Y /\ \A b \in X \cup Y : SuccOf(g, b) \subseteq X \cup Y
  BY <1>1, <1>2, <1>3 DEF Around
<1>5. X \cup Y = Blocks(g)
  BY <1>4 DEF AllReached
<1> QED BY <1>1, <1>2, <1>5

\* A set of natural numbers has a least one.
LEMMA Least ==
  ASSUME NEW T \in SUBSET Nat, T # {}
  PROVE  \E m \in T : \A n \in T : m <= n
<1>1. IsWellFoundedOn(OpToRel(<, Nat), Nat)
  BY NatLessThanWellFounded
<1>2. PICK m \in T : \A n \in T : ~(<<n, m>> \in OpToRel(<, Nat))
  BY <1>1, WFMin, Zenon
<1>3. \A n \in T : ~(n < m)
  BY <1>2 DEF OpToRel
<1> QED BY <1>3

\* Below what dominates a block and is not the block there is one it is the immediate
\* dominator of, and which dominates the block.
LEMMA ChildOf ==
  ASSUME NEW g, EdgesInside(g), AllReached(g), IsFiniteSet(Blocks(g)),
         NEW b \in Blocks(g), NEW n \in Blocks(g), StrictlyDominates(g, b, n)
  PROVE  \E c \in Blocks(g) : IsIdom(g, b, c) /\ Dominates(g, c, n)
<1> DEFINE D == {c \in Blocks(g) : StrictlyDominates(g, b, c) /\ Dominates(g, c, n)}
           Above(c) == {e \in Blocks(g) : Dominates(g, e, c)}
           T == {Cardinality(Above(c)) : c \in D}
<1>1. n \in D
  BY DominatesReflexive
<1>2. \A c : IsFiniteSet(Above(c)) /\ Cardinality(Above(c)) \in Nat
  <2>1. \A c : Above(c) \subseteq Blocks(g)
    OBVIOUS
  <2> HIDE DEF Above
  <2> QED BY <2>1, FS_Subset, FS_CardinalityType
<1>3. PICK c \in D : \A e \in D : Cardinality(Above(c)) <= Cardinality(Above(e))
  <2> HIDE DEF Above, D
  <2>1. T \in SUBSET Nat /\ T # {}
    BY <1>1, <1>2
  <2>2. PICK m \in T : \A k \in T : m <= k
    BY <2>1, Least
  <2> QED BY <2>2
<1>4. c \in Blocks(g) /\ StrictlyDominates(g, b, c) /\ Dominates(g, c, n)
  OBVIOUS
<1>5. ASSUME NEW e \in Blocks(g), StrictlyDominates(g, e, c) PROVE Dominates(g, e, b)
  <2> SUFFICES ASSUME ~Dominates(g, e, b) PROVE FALSE
    OBVIOUS
  <2>1. Dominates(g, b, e) /\ b # e
    BY <1>4, <1>5, Comparable, DominatesReflexive DEF StrictlyDominates
  <2>2. e \in D
    BY <1>4, <1>5, <2>1, DominatesTransitive DEF StrictlyDominates
  <2>3. Above(e) \subseteq Above(c) \ {c}
    <3>1. \A d \in Above(e) : d \in Above(c)
      BY <1>5, DominatesTransitive DEF StrictlyDominates
    <3>2. c \notin Above(e)
      BY <1>4, <1>5, DominatesAntisymmetric DEF StrictlyDominates
    <3> QED BY <3>1, <3>2
  <2>4. c \in Above(c)
    BY <1>4, DominatesReflexive
  <2> HIDE DEF Above, D
  <2>5. Cardinality(Above(c) \ {c}) = Cardinality(Above(c)) - 1 /\ IsFiniteSet(Above(c) \ {c})
    BY <1>2, <2>4, FS_RemoveElement
  <2>6. Cardinality(Above(e)) <= Cardinality(Above(c) \ {c})
    BY <2>3, <2>5, FS_Subset
  <2> QED BY <1>2, <1>3, <2>2, <2>5, <2>6
<1> QED BY <1>4, <1>5 DEF IsIdom

\* A block has one closest strict dominator at most.
LEMMA IdomUnique ==
  ASSUME NEW g, AllReached(g), NEW n, NEW d \in Blocks(g), NEW e \in Blocks(g),
         IsIdom(g, d, n), IsIdom(g, e, n)
  PROVE  d = e
<1>1. Dominates(g, d, e) /\ Dominates(g, e, d)
  BY DEF IsIdom
<1> QED BY <1>1, DominatesAntisymmetric

-----------------------------------------------------------------------------
\* The places of the elements that stay, ranked, are numbered without a gap.
LEMMA Ranks ==
  ASSUME NEW left, NEW m \in Nat, left \subseteq 1..m
  PROVE  /\ Cardinality(left) \in Nat
         /\ \A i \in left : Cardinality({j \in left : j <= i}) \in 1..Cardinality(left)
         /\ \A i, k \in left : i < k =>
              Cardinality({j \in left : j <= i}) < Cardinality({j \in left : j <= k})
         /\ \A n \in 1..Cardinality(left) : \E i \in left : Cardinality({j \in left : j <= i}) = n
<1> DEFINE upTo(i) == {j \in left : j <= i}
           N == Cardinality(left)
           rank == [i \in left |-> Cardinality(upTo(i))]
<1>1. IsFiniteSet(left) /\ N \in Nat
  <2>1. IsFiniteSet(1..m)
    BY FS_Interval
  <2>2. IsFiniteSet(left)
    BY <2>1, FS_Subset
  <2> QED BY <2>2, FS_CardinalityType
<1>2. \A i \in left : /\ IsFiniteSet(upTo(i)) /\ Cardinality(upTo(i)) \in Nat
                      /\ Cardinality(upTo(i)) <= N /\ Cardinality(upTo(i)) # 0
  <2> TAKE i \in left
  <2>1. upTo(i) \in SUBSET left /\ i \in upTo(i)
    OBVIOUS
  <2>2. IsFiniteSet(upTo(i)) /\ Cardinality(upTo(i)) <= N
    BY <1>1, <2>1, FS_Subset
  <2>3. Cardinality(upTo(i)) \in Nat
    BY <2>2, FS_CardinalityType
  <2>4. Cardinality(upTo(i)) # 0
    BY <2>1, <2>2, FS_EmptySet
  <2> QED BY <2>2, <2>3, <2>4
<1>3. ASSUME NEW i \in left, NEW k \in left, i < k PROVE Cardinality(upTo(i)) < Cardinality(upTo(k))
  <2>1. k <= k /\ ~(k <= i) /\ \A j \in left : j <= i => j <= k
    BY <1>3
  <2>2. upTo(i) \in SUBSET upTo(k) /\ k \in upTo(k) /\ k \notin upTo(i)
    BY <2>1, Zenon
  <2>3. Cardinality(upTo(i)) <= Cardinality(upTo(k)) /\ Cardinality(upTo(i)) # Cardinality(upTo(k))
    BY <1>2, <2>2, FS_Subset
  <2> QED BY <1>2, <2>3
<1>4. rank \in [left -> 1..N]
  <2> HIDE DEF upTo, N
  <2>1. \A i \in left : Cardinality(upTo(i)) \in 1..N
    BY <1>1, <1>2
  <2> QED BY <2>1
<1>5. \A i, k \in left : rank[i] = rank[k] => i = k
  <2> SUFFICES ASSUME NEW i \in left, NEW k \in left, rank[i] = rank[k] PROVE ~(i < k)
    OBVIOUS
  <2> QED BY <1>2, <1>3
<1>6. rank \in Injection(left, 1..N)
  BY <1>4, <1>5 DEF Injection, IsInjective
<1>7. IsFiniteSet(1..N) /\ Cardinality(1..N) = N
  BY <1>1, FS_Interval
<1>8. rank \in Surjection(left, 1..N)
  BY <1>6, <1>7, FS_Injection
<1>9. \A n \in 1..N : \E i \in left : rank[i] = n
  BY <1>8 DEF Surjection
<1> QED BY <1>1, <1>3, <1>4, <1>9

\* Without keeps what is not in S, each element once if the list has each once, and
\* in the order of the list.
LEMMA WithoutKeeps ==
  ASSUME NEW T, NEW s \in Seq(T), NEW S
  PROVE  /\ Without(s, S) \in Seq(T)
         /\ Range(Without(s, S)) = Range(s) \ S
         /\ IsInjective(s) => IsInjective(Without(s, S))
         /\ \A m, n \in DOMAIN Without(s, S) : m < n =>
              \E i, k \in DOMAIN s : i < k /\ Without(s, S)[m] = s[i] /\ Without(s, S)[n] = s[k]
<1> DEFINE left == {i \in DOMAIN s : s[i] \notin S}
           rank(i) == Cardinality({j \in left : j <= i})
           place(n) == CHOOSE i \in left : rank(i) = n
           N == Cardinality(left)
<1>1. Len(s) \in Nat /\ DOMAIN s = 1..Len(s) /\ left \subseteq 1..Len(s)
  OBVIOUS
<1>2. /\ N \in Nat
      /\ \A i \in left : rank(i) \in 1..N
      /\ \A i, k \in left : i < k => rank(i) < rank(k)
      /\ \A n \in 1..N : \E i \in left : rank(i) = n
  <2> HIDE DEF left
  <2> QED BY <1>1, Ranks
<1> HIDE DEF rank, N
<1>3. \A n \in 1..N : place(n) \in left /\ rank(place(n)) = n
  BY <1>2
<1>4. \A i \in left : place(rank(i)) = i
  <2> TAKE i \in left
  <2>1. rank(i) \in 1..N /\ place(rank(i)) \in left /\ rank(place(rank(i))) = rank(i)
    BY <1>2, <1>3
  <2>2. \A j, k \in left : rank(j) = rank(k) => j = k
    <3> SUFFICES ASSUME NEW j \in left, NEW k \in left, rank(j) = rank(k) PROVE ~(j < k)
      BY <1>1
    <3> QED BY <1>2
  <2> QED BY <2>1, <2>2
<1> HIDE DEF place
<1>5. Without(s, S) = [n \in 1..N |-> s[place(n)]]
  BY Zenon DEF Without, place, rank, N
<1>6. \A n \in 1..N : place(n) \in DOMAIN s /\ s[place(n)] \in T /\ s[place(n)] \in Range(s) \ S
  BY <1>3 DEF Range
<1>7. Without(s, S) \in Seq(T)
  BY <1>2, <1>5, <1>6
<1>8. Range(Without(s, S)) = Range(s) \ S
  <2>1. ASSUME NEW x \in Range(s) \ S PROVE x \in Range(Without(s, S))
    <3>1. PICK i \in DOMAIN s : x = s[i]
      BY DEF Range
    <3>2. i \in left
      BY <2>1, <3>1
    <3>3. rank(i) \in 1..N /\ place(rank(i)) = i
      BY <1>2, <1>4, <3>2
    <3> QED BY <1>5, <3>1, <3>3 DEF Range
  <2>2. ASSUME NEW x \in Range(Without(s, S)) PROVE x \in Range(s) \ S
    BY <1>5, <1>6 DEF Range
  <2> QED BY <2>1, <2>2
<1>9. \A m, n \in 1..N : m < n => place(m) < place(n)
  <2> SUFFICES ASSUME NEW m \in 1..N, NEW n \in 1..N, m < n, ~(place(m) < place(n)) PROVE FALSE
    OBVIOUS
  <2>1. place(m) \in left /\ place(n) \in left /\ rank(place(m)) = m /\ rank(place(n)) = n
    BY <1>3
  <2>2. place(n) < place(m) \/ place(n) = place(m)
    BY <1>1, <2>1
  <2>3. ~(place(n) < place(m))
    BY <1>2, <2>1
  <2> QED BY <1>2, <2>1, <2>2, <2>3
<1>10. IsInjective(s) => IsInjective(Without(s, S))
  <2> SUFFICES ASSUME IsInjective(s), NEW m \in 1..N, NEW n \in 1..N, s[place(m)] = s[place(n)]
               PROVE  m = n
    BY <1>5 DEF IsInjective
  <2>1. place(m) = place(n)
    BY <1>6 DEF IsInjective
  <2> QED BY <1>3, <2>1
<1>11. DOMAIN Without(s, S) = 1..N
  BY <1>5
<1>12. \A m, n \in DOMAIN Without(s, S) : m < n =>
         \E i, k \in DOMAIN s : i < k /\ Without(s, S)[m] = s[i] /\ Without(s, S)[n] = s[k]
  BY <1>5, <1>6, <1>9, <1>11
<1> QED BY <1>7, <1>8, <1>10, <1>12

-----------------------------------------------------------------------------
\* The fields of the def-use data of a function.
IsData(g) == g = [code |-> g.code, operands |-> g.operands, use_list |-> g.use_list]

\* The use list of v names the operands of the instructions in P that are v.
Exact(g, P, v) == g.use_list[v] = UNION {UsesIn(x, g.operands[x], v) : x \in P}

LEMMA ExactMeans ==
  ASSUME NEW g, NEW P, NEW v
  PROVE  Exact(g, P, v) <=>
           /\ \A u \in g.use_list[v] : \E x \in P : \E i \in DOMAIN g.operands[x] :
                u = <<x, i>> /\ g.operands[x][i] = v
           /\ \A x \in P : \A i \in DOMAIN g.operands[x] :
                g.operands[x][i] = v => <<x, i>> \in g.use_list[v]
<1> DEFINE uses == UNION {UsesIn(x, g.operands[x], v) : x \in P}
<1>1. \A x, u : u \in UsesIn(x, g.operands[x], v) <=>
        \E i \in DOMAIN g.operands[x] : u = <<x, i>> /\ g.operands[x][i] = v
  BY DEF UsesIn
<1>2. \A u : u \in uses <=> \E x \in P : u \in UsesIn(x, g.operands[x], v)
  BY Zenon
<1> HIDE DEF uses
<1>3. \A u : u \in uses <=> \E x \in P : \E i \in DOMAIN g.operands[x] : u = <<x, i>> /\ g.operands[x][i] = v
  BY <1>1, <1>2
<1>4. g.use_list[v] = uses <=> \A u : u \in g.use_list[v] <=> u \in uses
  BY Zenon
<1>5. (\A u : u \in g.use_list[v] <=> u \in uses) <=>
           /\ \A u \in g.use_list[v] : \E x \in P : \E i \in DOMAIN g.operands[x] :
                u = <<x, i>> /\ g.operands[x][i] = v
           /\ \A x \in P : \A i \in DOMAIN g.operands[x] :
                g.operands[x][i] = v => <<x, i>> \in g.use_list[v]
  BY <1>3
<1> QED BY <1>4, <1>5, Zenon DEF Exact, uses

\* What replace_all_use_with does to each part.
LEMMA Replaced ==
  ASSUME NEW g, IsData(g), NEW old, NEW new, NEW h, h = ReplaceAllUseWith(g, old, new)
  PROVE  /\ IsData(h) /\ h.code = g.code
         /\ DOMAIN h.operands = DOMAIN g.operands /\ DOMAIN h.use_list = DOMAIN g.use_list
         /\ \A x \in DOMAIN g.operands : \A T : g.operands[x] \in Seq(T) => h.operands[x] \in Seq(T \cup {new})
         /\ \A x \in DOMAIN g.operands : DOMAIN h.operands[x] = DOMAIN g.operands[x]
         /\ \A x \in DOMAIN g.operands : \A i \in DOMAIN g.operands[x] :
              /\ <<x, i>> \in g.use_list[old] => h.operands[x][i] = new
              /\ <<x, i>> \notin g.use_list[old] => h.operands[x][i] = g.operands[x][i]
         /\ \A v \in DOMAIN g.use_list :
              /\ v = new => h.use_list[v] = g.use_list[v] \cup g.use_list[old]
              /\ v # new => h.use_list[v] = g.use_list[v]
<1> DEFINE ops == [u \in DOMAIN g.operands |-> [i \in DOMAIN g.operands[u] |->
                    IF <<u, i>> \in g.use_list[old] THEN new ELSE g.operands[u][i]]]
           lists == [g.use_list EXCEPT ![new] = @ \cup g.use_list[old]]
<1>1. h = [code |-> g.code, operands |-> ops, use_list |-> lists]
  <2> HIDE DEF ops
  <2>1. h = [g EXCEPT !.operands = ops, !.use_list[new] = @ \cup g.use_list[old]]
    BY Zenon DEF ReplaceAllUseWith, ops
  <2> QED BY <2>1 DEF IsData
<1>2. h.code = g.code /\ h.operands = ops /\ h.use_list = lists
  BY <1>1
<1>3. IsData(h)
  <2> HIDE DEF ops, lists
  <2> QED BY <1>1, <1>2 DEF IsData
<1>4. DOMAIN h.operands = DOMAIN g.operands /\ DOMAIN h.use_list = DOMAIN g.use_list
  BY <1>2
<1>5. \A x \in DOMAIN g.operands : DOMAIN h.operands[x] = DOMAIN g.operands[x]
  BY <1>2
<1>6. \A x \in DOMAIN g.operands : \A i \in DOMAIN g.operands[x] :
        /\ <<x, i>> \in g.use_list[old] => h.operands[x][i] = new
        /\ <<x, i>> \notin g.use_list[old] => h.operands[x][i] = g.operands[x][i]
  BY <1>2
<1>7. \A v \in DOMAIN g.use_list :
        /\ v = new => h.use_list[v] = g.use_list[v] \cup g.use_list[old]
        /\ v # new => h.use_list[v] = g.use_list[v]
  BY <1>2
<1>8. ASSUME NEW x \in DOMAIN g.operands, NEW T, g.operands[x] \in Seq(T)
      PROVE  h.operands[x] \in Seq(T \cup {new})
  <2> DEFINE e(i) == IF <<x, i>> \in g.use_list[old] THEN new ELSE g.operands[x][i]
             n == Len(g.operands[x])
  <2>1. n \in Nat /\ DOMAIN g.operands[x] = 1..n /\ \A i \in 1..n : g.operands[x][i] \in T
    BY <1>8
  <2>2. h.operands[x] = [i \in 1..n |-> e(i)]
    <3>1. h.operands[x] = [i \in DOMAIN g.operands[x] |-> e(i)] BY <1>2, Zenon
    <3>2. DOMAIN g.operands[x] = 1..n BY <2>1
    <3> HIDE DEF e, n
    <3> QED BY <3>1, <3>2, Zenon
  <2>3. \A i \in 1..n : e(i) \in T \cup {new}
    BY <2>1
  <2> QED
    <3> HIDE DEF e, n
    <3> QED BY <2>1, <2>2, <2>3
<1> QED BY <1>2, <1>3, <1>4, <1>5, <1>6, <1>7, <1>8, Zenon

\* What delete_instr does to each part.
LEMMA Deletion ==
  ASSUME NEW g, IsData(g), NEW b, NEW S, NEW h, h = DeleteInstrs(g, b, S)
  PROVE  /\ IsData(h) /\ h.operands = g.operands
         /\ DOMAIN h.code = DOMAIN g.code /\ DOMAIN h.use_list = DOMAIN g.use_list
         /\ \A c \in DOMAIN g.code : /\ c # b => h.code[c] = g.code[c]
                                     /\ c = b => h.code[c] = Without(g.code[c], S)
         /\ \A v \in DOMAIN g.use_list : h.use_list[v] \subseteq g.use_list[v]
         /\ \A v \in DOMAIN g.use_list : \A x, j :
              <<x, j>> \in h.use_list[v] <=>
                /\ <<x, j>> \in g.use_list[v]
                /\ ~(x \in S /\ \E i \in DOMAIN g.operands[x] : g.operands[x][i] = v)
<1> DEFINE s == Without(g.code[b], S)
           k == [g EXCEPT !.code[b] = s]
           lists == [v \in DOMAIN k.use_list |->
             {u \in k.use_list[v] :
                u[1] \notin {x \in S : \E i \in DOMAIN k.operands[x] : k.operands[x][i] = v}}]
<1> HIDE DEF s
<1>1. k = [code |-> [g.code EXCEPT ![b] = s], operands |-> g.operands, use_list |-> g.use_list]
  BY DEF IsData
<1>2. k.code = [g.code EXCEPT ![b] = s] /\ k.operands = g.operands /\ k.use_list = g.use_list
  BY <1>1
<1>3. h = [k EXCEPT !.use_list = lists]
  <2> HIDE DEF k
  <2>1. h = RemoveUseOfOps(k, S)
    BY Zenon DEF DeleteInstrs, k, s
  <2> QED BY <2>1, Zenon DEF RemoveUseOfOps
<1>4. h = [code |-> k.code, operands |-> k.operands, use_list |-> lists]
  <2> HIDE DEF lists
  <2> QED BY <1>1, <1>3
<1>5. h.code = k.code /\ h.operands = k.operands /\ h.use_list = lists
  <2> HIDE DEF lists, k
  <2> QED BY <1>4
<1>6. IsData(h)
  <2> HIDE DEF lists, k
  <2> QED BY <1>4, <1>5 DEF IsData
<1>7. /\ h.operands = g.operands /\ DOMAIN h.code = DOMAIN g.code
      /\ DOMAIN h.use_list = DOMAIN g.use_list
      /\ \A c \in DOMAIN g.code : (c # b => h.code[c] = g.code[c]) /\ (c = b => h.code[c] = s)
  BY <1>2, <1>5
<1>8. /\ \A v \in DOMAIN g.use_list : h.use_list[v] \subseteq g.use_list[v]
      /\ \A v \in DOMAIN g.use_list : \A x, n :
           <<x, n>> \in h.use_list[v] <=>
             /\ <<x, n>> \in g.use_list[v]
             /\ ~(x \in S /\ \E i \in DOMAIN g.operands[x] : g.operands[x][i] = v)
  BY <1>2, <1>5
<1> QED BY <1>6, <1>7, <1>8 DEF s

\* replace_all_use_with keeps the use lists exact but that of the value replaced.
LEMMA ReplacedExact ==
  ASSUME NEW g, IsData(g), NEW old, NEW new, NEW h, h = ReplaceAllUseWith(g, old, new),
         NEW P, P \subseteq DOMAIN g.operands, Exact(g, P, old), old # new,
         NEW v \in DOMAIN g.use_list, Exact(g, P, v), v # old
  PROVE  Exact(h, P, v)
<1>1. /\ \A x \in DOMAIN g.operands : DOMAIN h.operands[x] = DOMAIN g.operands[x]
      /\ \A x \in DOMAIN g.operands : \A i \in DOMAIN g.operands[x] :
           /\ <<x, i>> \in g.use_list[old] => h.operands[x][i] = new
           /\ <<x, i>> \notin g.use_list[old] => h.operands[x][i] = g.operands[x][i]
      /\ v = new => h.use_list[v] = g.use_list[v] \cup g.use_list[old]
      /\ v # new => h.use_list[v] = g.use_list[v]
  BY Replaced
<1>2. \A x \in P : \A i \in DOMAIN g.operands[x] :
        <<x, i>> \in g.use_list[old] <=> g.operands[x][i] = old
  BY ExactMeans
<1>3. \A u \in g.use_list[old] : \E x \in P : \E i \in DOMAIN g.operands[x] :
        u = <<x, i>> /\ g.operands[x][i] = old
  BY ExactMeans
<1>4. \A x \in P : /\ DOMAIN h.operands[x] = DOMAIN g.operands[x]
                   /\ \A i \in DOMAIN g.operands[x] :
                        h.operands[x][i] = IF g.operands[x][i] = old THEN new ELSE g.operands[x][i]
  BY <1>1, <1>2
<1>5. \A u \in g.use_list[v] : \E x \in P : \E i \in DOMAIN g.operands[x] :
        u = <<x, i>> /\ g.operands[x][i] = v
  BY ExactMeans
<1>6. \A x \in P : \A i \in DOMAIN g.operands[x] :
        g.operands[x][i] = v => <<x, i>> \in g.use_list[v]
  BY ExactMeans
<1>8. \A u \in h.use_list[v] : \E x \in P : \E i \in DOMAIN h.operands[x] :
        u = <<x, i>> /\ h.operands[x][i] = v
  <2> TAKE u \in h.use_list[v]
  <2>1. CASE u \in g.use_list[v]
    BY <1>4, <1>5, <2>1
  <2>2. CASE v = new /\ u \in g.use_list[old]
    BY <1>3, <1>4, <2>2
  <2> QED BY <1>1, <2>1, <2>2
<1>9. \A x \in P : \A i \in DOMAIN h.operands[x] :
        h.operands[x][i] = v => <<x, i>> \in h.use_list[v]
  <2> TAKE x \in P
  <2> TAKE i \in DOMAIN h.operands[x]
  <2> HAVE h.operands[x][i] = v
  <2>1. CASE g.operands[x][i] = old
    BY <1>2, <1>4, <1>1, <2>1
  <2>2. CASE g.operands[x][i] # old
    BY <1>4, <1>6, <1>1, <2>2
  <2> QED BY <2>1, <2>2
<1> QED BY <1>8, <1>9, ExactMeans

\* delete_instr takes the instructions in S out of exact use lists.
LEMMA DeletedExact ==
  ASSUME NEW g, IsData(g), NEW b, NEW S, NEW h, h = DeleteInstrs(g, b, S),
         NEW P, NEW v \in DOMAIN g.use_list, Exact(g, P, v)
  PROVE  Exact(h, P \ S, v)
<1>1. h.operands = g.operands
  BY Deletion
<1>2. /\ \A u \in g.use_list[v] : \E x \in P : \E i \in DOMAIN g.operands[x] :
           u = <<x, i>> /\ g.operands[x][i] = v
      /\ \A x \in P : \A i \in DOMAIN g.operands[x] :
           g.operands[x][i] = v => <<x, i>> \in g.use_list[v]
  BY ExactMeans
<1>3. /\ h.use_list[v] \subseteq g.use_list[v]
      /\ \A x, j : <<x, j>> \in h.use_list[v] <=>
           /\ <<x, j>> \in g.use_list[v]
           /\ ~(x \in S /\ \E i \in DOMAIN g.operands[x] : g.operands[x][i] = v)
  BY Deletion
<1>4. \A u \in h.use_list[v] : \E x \in P \ S : \E i \in DOMAIN h.operands[x] :
        u = <<x, i>> /\ h.operands[x][i] = v
  <2> TAKE u \in h.use_list[v]
  <2>1. PICK x \in P : \E i \in DOMAIN g.operands[x] : u = <<x, i>> /\ g.operands[x][i] = v
    BY <1>2, <1>3
  <2> QED BY <1>1, <1>3, <2>1
<1>5. \A x \in P \ S : \A i \in DOMAIN h.operands[x] :
        h.operands[x][i] = v => <<x, i>> \in h.use_list[v]
  BY <1>1, <1>2, <1>3
<1> QED BY <1>4, <1>5, ExactMeans

LEMMA IsSequence ==
  ASSUME NEW D, NEW n \in Nat, NEW t, t = [i \in 1..n |-> t[i]], \A i \in 1..n : t[i] \in D
  PROVE  t \in Seq(D) /\ Len(t) = n /\ DOMAIN t = 1..n
<1>1. t \in [1..n -> D]
  OBVIOUS
<1>2. t \in Seq(D)
  BY <1>1, SeqDef
<1> QED BY <1>1, <1>2

LEMMA Appended ==
  ASSUME NEW T, NEW s \in Seq(T), NEW x \in T
  PROVE  /\ Append(s, x) \in Seq(T) /\ Len(Append(s, x)) = Len(s) + 1
         /\ DOMAIN Append(s, x) = 1..(Len(s) + 1)
         /\ \A k \in 1..Len(s) : Append(s, x)[k] = s[k]
         /\ Append(s, x)[Len(s) + 1] = x
OBVIOUS

\* A phi with a value and the block it comes from added.
LEMMA TwoMore ==
  ASSUME NEW D, NEW ops \in Seq(D), NEW e, NEW b, NEW ops1, ops1 = ops \o <<e, b>>
  PROVE  /\ Len(ops) \in Nat /\ DOMAIN ops = 1..Len(ops) /\ DOMAIN ops1 = 1..(Len(ops) + 2)
         /\ \A i \in DOMAIN ops : i \in DOMAIN ops1 /\ ops1[i] = ops[i]
         /\ ops1[Len(ops) + 1] = e /\ ops1[Len(ops) + 2] = b
OBVIOUS

LEMMA SeqOfMore ==
  ASSUME NEW S, NEW T, S \subseteq T, NEW s \in Seq(S)
  PROVE  s \in Seq(T)
OBVIOUS

LEMMA SeqOfOne ==
  ASSUME NEW T, NEW x \in T
  PROVE  <<x>> \in Seq(T)
OBVIOUS

LEMMA SeqOfTwo ==
  ASSUME NEW T, NEW x \in T, NEW y \in T
  PROVE  <<x, y>> \in Seq(T)
OBVIOUS

\* What lists hold that others are appended to.
LEMMA RangeOfConcat ==
  ASSUME NEW T, NEW s \in Seq(T), NEW t \in Seq(T)
  PROVE  Range(s \o t) = Range(s) \cup Range(t)
<1>1. /\ Len(s) \in Nat /\ Len(t) \in Nat /\ DOMAIN s = 1..Len(s) /\ DOMAIN t = 1..Len(t)
      /\ DOMAIN (s \o t) = 1..(Len(s) + Len(t))
      /\ \A j \in 1..Len(s) : (s \o t)[j] = s[j]
      /\ \A j \in 1..Len(t) : (s \o t)[Len(s) + j] = t[j]
  OBVIOUS
<1>2. ASSUME NEW x \in Range(s \o t) PROVE x \in Range(s) \cup Range(t)
  <2>1. PICK j \in 1..(Len(s) + Len(t)) : x = (s \o t)[j]
    BY <1>1 DEF Range
  <2>2. CASE j <= Len(s)
    BY <1>1, <2>1, <2>2 DEF Range
  <2>3. CASE j > Len(s)
    <3>1. j - Len(s) \in 1..Len(t) /\ x = t[j - Len(s)]
      BY <1>1, <2>1, <2>3
    <3> QED BY <1>1, <3>1 DEF Range
  <2> QED BY <1>1, <2>2, <2>3
<1>3. ASSUME NEW x \in Range(s) PROVE x \in Range(s \o t)
  <2>1. PICK j \in 1..Len(s) : x = s[j]
    BY <1>1 DEF Range
  <2>2. j \in DOMAIN (s \o t) /\ x = (s \o t)[j]
    BY <1>1, <2>1
  <2> QED BY <2>2 DEF Range
<1>4. ASSUME NEW x \in Range(t) PROVE x \in Range(s \o t)
  <2>1. PICK j \in 1..Len(t) : x = t[j]
    BY <1>1 DEF Range
  <2>2. Len(s) + j \in DOMAIN (s \o t) /\ x = (s \o t)[Len(s) + j]
    BY <1>1, <2>1
  <2> QED BY <2>2 DEF Range
<1> QED BY <1>2, <1>3, <1>4

LEMMA RangeOfAppend ==
  ASSUME NEW T, NEW s \in Seq(T), NEW x \in T
  PROVE  Append(s, x) \in Seq(T) /\ Range(Append(s, x)) = Range(s) \cup {x}
<1>1. /\ Append(s, x) \in Seq(T) /\ Len(s) \in Nat /\ DOMAIN s = 1..Len(s)
      /\ DOMAIN Append(s, x) = 1..(Len(s) + 1)
      /\ \A j \in 1..Len(s) : Append(s, x)[j] = s[j]
      /\ Append(s, x)[Len(s) + 1] = x
  OBVIOUS
<1>2. \A j : j \in 1..(Len(s) + 1) <=> j \in 1..Len(s) \/ j = Len(s) + 1
  BY <1>1
<1> QED BY <1>1, <1>2 DEF Range

\* What add_instruction does to each part.
LEMMA Added ==
  ASSUME NEW g, IsData(g), NEW b \in DOMAIN g.code, NEW x, NEW h, h = AddInstruction(g, b, x)
  PROVE  /\ IsData(h) /\ h.operands = g.operands /\ h.use_list = g.use_list
         /\ DOMAIN h.code = DOMAIN g.code
         /\ \A c \in DOMAIN g.code : c # b => h.code[c] = g.code[c]
         /\ h.code[b] = Append(g.code[b], x)
<1>1. h = [code |-> [g.code EXCEPT ![b] = Append(@, x)], operands |-> g.operands, use_list |-> g.use_list]
  BY DEF AddInstruction, IsData
<1>2. /\ h.code = [g.code EXCEPT ![b] = Append(@, x)]
      /\ h.operands = g.operands /\ h.use_list = g.use_list
  BY <1>1
<1>3. IsData(h)
  BY <1>1, <1>2 DEF IsData
<1> QED BY <1>2, <1>3

\* What the construction of instructions without operands does to each part.
LEMMA Declared ==
  ASSUME NEW g, IsData(g), NEW S, NEW h, h = Declare(g, S)
  PROVE  /\ IsData(h) /\ h.code = g.code
         /\ DOMAIN h.operands = DOMAIN g.operands \cup S /\ DOMAIN h.use_list = DOMAIN g.use_list \cup S
         /\ \A x \in S : h.operands[x] = << >> /\ h.use_list[x] = {}
         /\ \A x \in DOMAIN g.operands \ S : h.operands[x] = g.operands[x]
         /\ \A v \in DOMAIN g.use_list \ S : h.use_list[v] = g.use_list[v]
<1> DEFINE ops == [y \in DOMAIN g.operands \cup S |-> IF y \in S THEN << >> ELSE g.operands[y]]
           lists == [v \in DOMAIN g.use_list \cup S |-> IF v \in S THEN {} ELSE g.use_list[v]]
<1>1. h = [code |-> g.code, operands |-> ops, use_list |-> lists]
  <2> HIDE DEF ops, lists
  <2>1. h = [g EXCEPT !.operands = ops, !.use_list = lists]
    BY Zenon DEF Declare, ops, lists
  <2> QED BY <2>1 DEF IsData
<1>2. h.code = g.code /\ h.operands = ops /\ h.use_list = lists
  BY <1>1
<1>3. IsData(h)
  <2> HIDE DEF ops, lists
  <2> QED BY <1>1, <1>2 DEF IsData
<1> QED BY <1>2, <1>3

\* What the constructor of an instruction does to each part.
LEMMA Created ==
  ASSUME NEW g, IsData(g), NEW x, NEW ops, NEW h, h = Create(g, x, ops)
  PROVE  /\ IsData(h) /\ h.code = g.code
         /\ DOMAIN h.operands = DOMAIN g.operands \cup {x} /\ DOMAIN h.use_list = DOMAIN g.use_list \cup {x}
         /\ h.operands[x] = ops /\ \A y \in DOMAIN g.operands \ {x} : h.operands[y] = g.operands[y]
         /\ h.use_list[x] = UsesIn(x, ops, x)
         /\ \A v \in DOMAIN g.use_list \ {x} : h.use_list[v] = g.use_list[v] \cup UsesIn(x, ops, v)
<1> DEFINE d == Declare(g, {x})
           lists == [v \in DOMAIN d.use_list |-> d.use_list[v] \cup UsesIn(x, ops, v)]
<1>1. /\ IsData(d) /\ d.code = g.code
      /\ DOMAIN d.operands = DOMAIN g.operands \cup {x} /\ DOMAIN d.use_list = DOMAIN g.use_list \cup {x}
      /\ d.use_list[x] = {}
      /\ \A y \in DOMAIN g.operands \ {x} : d.operands[y] = g.operands[y]
      /\ \A v \in DOMAIN g.use_list \ {x} : d.use_list[v] = g.use_list[v]
  <2> HIDE DEF lists
  <2> QED BY Declared
<1> HIDE DEF d
<1>2. h = [code |-> d.code, operands |-> [d.operands EXCEPT ![x] = ops], use_list |-> lists]
  <2>1. h = [d EXCEPT !.operands[x] = ops, !.use_list = lists]
    BY Zenon DEF Create, d
  <2> HIDE DEF lists
  <2> QED BY <1>1, <2>1 DEF IsData
<1>3. h.code = d.code /\ h.operands = [d.operands EXCEPT ![x] = ops] /\ h.use_list = lists
  BY <1>2
<1>4. IsData(h)
  <2> HIDE DEF lists
  <2> QED BY <1>2, <1>3 DEF IsData
<1>5. \A v \in DOMAIN d.use_list : h.use_list[v] = d.use_list[v] \cup UsesIn(x, ops, v)
  BY <1>3
<1> QED BY <1>1, <1>3, <1>4, <1>5

\* The constructor keeps use lists exact, and begins one.
LEMMA CreatedExact ==
  ASSUME NEW g, IsData(g), NEW x, NEW ops, NEW h, h = Create(g, x, ops),
         NEW P, P \subseteq DOMAIN g.operands, x \notin P, NEW v
  PROVE  /\ v \in DOMAIN g.use_list \ {x} /\ Exact(g, P, v) => Exact(h, P \cup {x}, v)
         /\ v = x /\ (\A y \in P : \A j \in DOMAIN g.operands[y] : g.operands[y][j] # x)
              => Exact(h, P \cup {x}, v)
<1>1. /\ h.operands[x] = ops /\ \A y \in P : h.operands[y] = g.operands[y]
      /\ h.use_list[x] = UsesIn(x, ops, x)
      /\ v \in DOMAIN g.use_list \ {x} => h.use_list[v] = g.use_list[v] \cup UsesIn(x, ops, v)
  BY Created
<1>2. \A u : u \in UsesIn(x, ops, v) <=> \E j \in DOMAIN ops : u = <<x, j>> /\ ops[j] = v
  BY DEF UsesIn
<1>3. ASSUME v \in DOMAIN g.use_list \ {x}, Exact(g, P, v) PROVE Exact(h, P \cup {x}, v)
  <2>1. /\ \A u \in g.use_list[v] : \E y \in P : \E j \in DOMAIN g.operands[y] :
             u = <<y, j>> /\ g.operands[y][j] = v
        /\ \A y \in P : \A j \in DOMAIN g.operands[y] :
             g.operands[y][j] = v => <<y, j>> \in g.use_list[v]
    BY <1>3, ExactMeans
  <2>2. /\ \A u \in h.use_list[v] : \E y \in P \cup {x} : \E j \in DOMAIN h.operands[y] :
             u = <<y, j>> /\ h.operands[y][j] = v
        /\ \A y \in P \cup {x} : \A j \in DOMAIN h.operands[y] :
             h.operands[y][j] = v => <<y, j>> \in h.use_list[v]
    BY <1>1, <1>2, <1>3, <2>1
  <2> QED BY <2>2, ExactMeans
<1>4. ASSUME v = x, \A y \in P : \A j \in DOMAIN g.operands[y] : g.operands[y][j] # x
      PROVE  Exact(h, P \cup {x}, v)
  <2>1. /\ \A u \in h.use_list[v] : \E y \in P \cup {x} : \E j \in DOMAIN h.operands[y] :
             u = <<y, j>> /\ h.operands[y][j] = v
        /\ \A y \in P \cup {x} : \A j \in DOMAIN h.operands[y] :
             h.operands[y][j] = v => <<y, j>> \in h.use_list[v]
    BY <1>1, <1>2, <1>4
  <2> QED BY <2>1, ExactMeans
<1> QED BY <1>3, <1>4

\* The construction of instructions that nothing reads keeps use lists exact, and
\* begins some.
LEMMA DeclaredExact ==
  ASSUME NEW g, IsData(g), NEW S, NEW h, h = Declare(g, S),
         NEW P, P \subseteq DOMAIN g.operands, P \cap S = {}, NEW v
  PROVE  /\ v \in DOMAIN g.use_list \ S /\ Exact(g, P, v) => Exact(h, P \cup S, v)
         /\ v \in S /\ (\A y \in P : \A j \in DOMAIN g.operands[y] : g.operands[y][j] # v)
              => Exact(h, P \cup S, v)
<1>1. /\ \A x \in S : DOMAIN h.operands[x] = {} /\ h.use_list[x] = {}
      /\ \A y \in P : h.operands[y] = g.operands[y]
      /\ v \in DOMAIN g.use_list \ S => h.use_list[v] = g.use_list[v]
  <2>1. \A x \in S : h.operands[x] = << >> /\ h.use_list[x] = {}
    BY Declared
  <2>2. DOMAIN << >> = {}
    OBVIOUS
  <2>3. \A y \in P : h.operands[y] = g.operands[y]
    BY Declared
  <2> QED BY <2>1, <2>2, <2>3, Declared
<1>2. ASSUME v \in DOMAIN g.use_list \ S, Exact(g, P, v) PROVE Exact(h, P \cup S, v)
  <2>1. /\ \A u \in g.use_list[v] : \E y \in P : \E j \in DOMAIN g.operands[y] :
             u = <<y, j>> /\ g.operands[y][j] = v
        /\ \A y \in P : \A j \in DOMAIN g.operands[y] :
             g.operands[y][j] = v => <<y, j>> \in g.use_list[v]
    BY <1>2, ExactMeans
  <2>2. /\ \A u \in h.use_list[v] : \E y \in P \cup S : \E j \in DOMAIN h.operands[y] :
             u = <<y, j>> /\ h.operands[y][j] = v
        /\ \A y \in P \cup S : \A j \in DOMAIN h.operands[y] :
             h.operands[y][j] = v => <<y, j>> \in h.use_list[v]
    BY <1>1, <1>2, <2>1
  <2> QED BY <2>2, ExactMeans
<1>3. ASSUME v \in S, \A y \in P : \A j \in DOMAIN g.operands[y] : g.operands[y][j] # v
      PROVE  Exact(h, P \cup S, v)
  <2>1. /\ \A u \in h.use_list[v] : \E y \in P \cup S : \E j \in DOMAIN h.operands[y] :
             u = <<y, j>> /\ h.operands[y][j] = v
        /\ \A y \in P \cup S : \A j \in DOMAIN h.operands[y] :
             h.operands[y][j] = v => <<y, j>> \in h.use_list[v]
    BY <1>1, <1>3
  <2> QED BY <2>1, ExactMeans
<1> QED BY <1>2, <1>3

\* h is g with the operands vs[x] after those of each x.
WithOperands(h, g, vs) ==
  /\ h.code = g.code
  /\ DOMAIN h.operands = DOMAIN g.operands /\ DOMAIN h.use_list = DOMAIN g.use_list
  /\ \A x \in DOMAIN g.operands :
       /\ x \in DOMAIN vs => h.operands[x] = g.operands[x] \o vs[x]
       /\ x \notin DOMAIN vs => h.operands[x] = g.operands[x]
  /\ \A v \in DOMAIN g.use_list : \A u : u \in h.use_list[v] <=>
       \/ u \in g.use_list[v]
       \/ \E x \in DOMAIN vs : \E i \in DOMAIN vs[x] :
            vs[x][i] = v /\ u = <<x, Len(g.operands[x]) + i>>

\* What add_operand does to each part.
LEMMA OperandsAdded ==
  ASSUME NEW g, IsData(g), NEW vs, NEW h, h = AddOperands(g, vs)
  PROVE  IsData(h) /\ WithOperands(h, g, vs)
<1> DEFINE more(x, v) == {<<x, Len(g.operands[x]) + use[2]>> : use \in UsesIn(x, vs[x], v)}
           ops == [x \in DOMAIN g.operands |->
                     IF x \in DOMAIN vs THEN g.operands[x] \o vs[x] ELSE g.operands[x]]
           lists == [v \in DOMAIN g.use_list |-> g.use_list[v] \cup UNION {more(x, v) : x \in DOMAIN vs}]
<1>1. h = [code |-> g.code, operands |-> ops, use_list |-> lists]
  <2> HIDE DEF ops, lists
  <2>1. h = [g EXCEPT !.operands = ops, !.use_list = lists]
    BY Zenon DEF AddOperands, ops, lists
  <2> QED BY <2>1 DEF IsData
<1>2. h.code = g.code /\ h.operands = ops /\ h.use_list = lists
  <2> HIDE DEF ops, lists
  <2> QED BY <1>1
<1>3. IsData(h)
  <2> HIDE DEF ops, lists
  <2> QED BY <1>1, <1>2 DEF IsData
<1>4. \A x, v, u : u \in more(x, v) <=>
        \E i \in DOMAIN vs[x] : vs[x][i] = v /\ u = <<x, Len(g.operands[x]) + i>>
  <2> TAKE x, v, u
  <2>1. \A w : w \in UsesIn(x, vs[x], v) <=> \E i \in DOMAIN vs[x] : w = <<x, i>> /\ vs[x][i] = v
    BY DEF UsesIn
  <2>2. u \in more(x, v) <=> \E w \in UsesIn(x, vs[x], v) : u = <<x, Len(g.operands[x]) + w[2]>>
    BY Zenon
  <2> HIDE DEF more
  <2>3. \A i : <<x, i>>[2] = i
    OBVIOUS
  <2>4. ASSUME NEW i \in DOMAIN vs[x], vs[x][i] = v, u = <<x, Len(g.operands[x]) + i>>
        PROVE  u \in more(x, v)
    <3>1. <<x, i>> \in UsesIn(x, vs[x], v)
      BY <2>1, <2>4
    <3> QED BY <2>2, <2>3, <2>4, <3>1
  <2>5. ASSUME u \in more(x, v)
        PROVE  \E i \in DOMAIN vs[x] : vs[x][i] = v /\ u = <<x, Len(g.operands[x]) + i>>
    <3>1. PICK w \in UsesIn(x, vs[x], v) : u = <<x, Len(g.operands[x]) + w[2]>>
      BY <2>2, <2>5
    <3>2. PICK i \in DOMAIN vs[x] : w = <<x, i>> /\ vs[x][i] = v
      BY <2>1
    <3> QED BY <2>3, <3>1, <3>2
  <2> QED BY <2>4, <2>5, Zenon
<1>5. ASSUME NEW v \in DOMAIN g.use_list, NEW u
      PROVE  u \in h.use_list[v] <=>
              \/ u \in g.use_list[v]
              \/ \E x \in DOMAIN vs : \E i \in DOMAIN vs[x] :
                   vs[x][i] = v /\ u = <<x, Len(g.operands[x]) + i>>
  <2>1. h.use_list[v] = g.use_list[v] \cup UNION {more(x, v) : x \in DOMAIN vs}
    BY <1>2
  <2> HIDE DEF more
  <2>2. u \in h.use_list[v] <=> u \in g.use_list[v] \/ \E x \in DOMAIN vs : u \in more(x, v)
    BY <2>1
  <2> QED BY <1>4, <2>2
<1> QED BY <1>2, <1>3, <1>5 DEF WithOperands

\* add_operand keeps use lists exact.
LEMMA OperandsAddedExact ==
  ASSUME NEW g, IsData(g), NEW vs, NEW h, h = AddOperands(g, vs),
         NEW P, P \subseteq DOMAIN g.operands, DOMAIN vs \subseteq P,
         NEW T, \A x \in DOMAIN vs : g.operands[x] \in Seq(T) /\ vs[x] \in Seq(T),
         NEW v \in DOMAIN g.use_list, Exact(g, P, v)
  PROVE  Exact(h, P, v)
<1>1. /\ \A x \in P : /\ x \in DOMAIN vs => h.operands[x] = g.operands[x] \o vs[x]
                      /\ x \notin DOMAIN vs => h.operands[x] = g.operands[x]
      /\ \A u : u \in h.use_list[v] <=>
           \/ u \in g.use_list[v]
           \/ \E x \in DOMAIN vs : \E i \in DOMAIN vs[x] :
                vs[x][i] = v /\ u = <<x, Len(g.operands[x]) + i>>
  <2>1. WithOperands(h, g, vs)
    BY OperandsAdded
  <2> QED BY <2>1, Zenon DEF WithOperands
<1>2. ASSUME NEW x \in DOMAIN vs
      PROVE  /\ Len(g.operands[x]) \in Nat /\ Len(vs[x]) \in Nat
             /\ DOMAIN g.operands[x] = 1..Len(g.operands[x]) /\ DOMAIN vs[x] = 1..Len(vs[x])
             /\ DOMAIN h.operands[x] = 1..(Len(g.operands[x]) + Len(vs[x]))
             /\ \A j \in 1..Len(g.operands[x]) : h.operands[x][j] = g.operands[x][j]
             /\ \A j \in 1..Len(vs[x]) : h.operands[x][Len(g.operands[x]) + j] = vs[x][j]
  <2> DEFINE s == g.operands[x]
             t == vs[x]
  <2>1. s \in Seq(T) /\ t \in Seq(T) /\ h.operands[x] = s \o t
    BY <1>1
  <2> HIDE DEF s, t
  <2>2. /\ Len(s) \in Nat /\ Len(t) \in Nat /\ DOMAIN s = 1..Len(s) /\ DOMAIN t = 1..Len(t)
        /\ DOMAIN (s \o t) = 1..(Len(s) + Len(t))
        /\ \A j \in 1..Len(s) : (s \o t)[j] = s[j]
        /\ \A j \in 1..Len(t) : (s \o t)[Len(s) + j] = t[j]
    BY <2>1
  <2> QED BY <2>1, <2>2 DEF s, t
<1>3. /\ \A u \in g.use_list[v] : \E x \in P : \E i \in DOMAIN g.operands[x] :
           u = <<x, i>> /\ g.operands[x][i] = v
      /\ \A x \in P : \A i \in DOMAIN g.operands[x] :
           g.operands[x][i] = v => <<x, i>> \in g.use_list[v]
  BY ExactMeans
<1>4. \A u \in h.use_list[v] : \E x \in P : \E i \in DOMAIN h.operands[x] :
        u = <<x, i>> /\ h.operands[x][i] = v
  <2> TAKE u \in h.use_list[v]
  <2>1. CASE u \in g.use_list[v]
    <3>1. PICK x \in P : \E i \in DOMAIN g.operands[x] : u = <<x, i>> /\ g.operands[x][i] = v
      BY <1>3, <2>1
    <3>2. CASE x \in DOMAIN vs
      <4>1. PICK i \in 1..Len(g.operands[x]) : u = <<x, i>> /\ g.operands[x][i] = v
        BY <1>2, <3>1, <3>2
      <4>2. i \in DOMAIN h.operands[x] /\ h.operands[x][i] = v
        BY <1>2, <3>2, <4>1
      <4> QED BY <4>1, <4>2
    <3>3. CASE x \notin DOMAIN vs
      BY <1>1, <3>1, <3>3
    <3> QED BY <3>2, <3>3
  <2>2. ASSUME NEW x \in DOMAIN vs, NEW i \in DOMAIN vs[x], vs[x][i] = v,
               u = <<x, Len(g.operands[x]) + i>>
        PROVE  \E y \in P : \E k \in DOMAIN h.operands[y] : u = <<y, k>> /\ h.operands[y][k] = v
    <3>1. Len(g.operands[x]) + i \in DOMAIN h.operands[x] /\ h.operands[x][Len(g.operands[x]) + i] = v
      BY <1>2, <2>2
    <3> QED BY <2>2, <3>1
  <2> QED BY <1>1, <2>1, <2>2
<1>5. \A x \in P : \A i \in DOMAIN h.operands[x] :
        h.operands[x][i] = v => <<x, i>> \in h.use_list[v]
  <2> TAKE x \in P
  <2> TAKE i \in DOMAIN h.operands[x]
  <2> HAVE h.operands[x][i] = v
  <2>1. CASE x \notin DOMAIN vs
    BY <1>1, <1>3, <2>1
  <2>2. CASE x \in DOMAIN vs /\ i <= Len(g.operands[x])
    <3>1. i \in DOMAIN g.operands[x] /\ g.operands[x][i] = v
      BY <1>2, <2>2
    <3> QED BY <1>1, <1>3, <3>1
  <2>3. CASE x \in DOMAIN vs /\ i > Len(g.operands[x])
    <3> DEFINE k == i - Len(g.operands[x])
    <3>1. k \in 1..Len(vs[x]) /\ i = Len(g.operands[x]) + k
      BY <1>2, <2>3
    <3>2. k \in DOMAIN vs[x] /\ vs[x][k] = v
      BY <1>2, <2>3, <3>1
    <3> QED BY <1>1, <2>3, <3>1, <3>2
  <2>4. x \in DOMAIN vs => i <= Len(g.operands[x]) \/ i > Len(g.operands[x])
    BY <1>2
  <2> QED BY <2>1, <2>2, <2>3, <2>4
<1> QED BY <1>4, <1>5, ExactMeans

=============================================================================
