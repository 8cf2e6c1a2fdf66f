-------------------------- MODULE LiveIntervals_proofs --------------------------
(***************************************************************************)
(* Theorems about LiveIntervals, for every function whose definitions      *)
(* dominate its reads: types, reads inside intervals, intervals that cover *)
(* liveness, and disjoint slots.                                           *)
(***************************************************************************)
EXTENDS LiveIntervals, LightIR_proofs, FiniteSetTheorems, SequenceTheorems, TLAPS

Open     == {stack[j] : j \in DOMAIN stack}
Numbered == {int2bb[n] : n \in DOMAIN int2bb}

\* A block is open, numbered or not yet visited, and the numbers from the number
\* of blocks down are taken one by one; so no more are taken than there are.
Numbering ==
  /\ stack \in Seq(Blocks(f_))
  /\ \A i, j \in DOMAIN stack : stack[i] = stack[j] => i = j
  /\ visited = Open \cup Numbered
  /\ Open \cap Numbered = {}
  /\ c \in Int /\ c <= NumBlocks
  /\ DOMAIN int2bb = (c + 1)..NumBlocks
  /\ int2bb \in [DOMAIN int2bb -> Blocks(f_)]
  /\ \A m, n \in DOMAIN int2bb : int2bb[m] = int2bb[n] => m = n
  /\ IsFiniteSet(visited)
  /\ Cardinality(visited) = NumBlocks - c + Len(stack)
  /\ \A n \in DOMAIN int2bb : SuccOf(f_, int2bb[n]) \subseteq visited

\* A block that d dominates, which is outside some X reached around d, is above d
\* on the stack; it gets its number before d does, that is a greater one.
DominatorsFirst ==
  \A d \in Blocks(f_) : \A X \in SUBSET Blocks(f_) : Around(f_, d, X) =>
    /\ \A j \in DOMAIN stack : stack[j] \in X \/ \E i \in 1..j : stack[i] = d
    /\ \A n \in DOMAIN int2bb :
         \/ int2bb[n] \in X
         \/ d \in Open
         \/ \E m \in DOMAIN int2bb : m <= n /\ int2bb[m] = d

\* The points that the scan has left behind.
Here   == <<bbcounter, instr_counter>>
Behind == {p \in Points : ~Before(Here, p)}

Phase ==
  /\ pc = "dfs" => bbcounter = 0 /\ instr_counter = 0
  /\ pc # "dfs" => /\ stack = << >>
                   /\ bbcounter \in DOMAIN int2bb
                   /\ instr_counter <= Len(f_.code[int2bb[bbcounter]])
  /\ pc = "done" => Behind = Points

\* An interval starts at the definition of its value and ends here or before.
Intervals ==
  /\ \A v \in DOMAIN val2interval :
       /\ v \in f_.used_args \/ \E p \in Behind : ~At(p).alloca /\ v \in At(p).val
       /\ ~Before(Here, val2interval[v].end)
  /\ \A v \in f_.used_args : v \in DOMAIN val2interval /\ val2interval[v].start = <<0, 0>>
  /\ \A p \in Behind : ~At(p).alloca =>
       \A v \in At(p).val : v \in DOMAIN val2interval /\ val2interval[v].start = p

\* A read that was scanned was not passed over, and lies in the interval.
Reads ==
  \A p \in Behind : \A v \in At(p).rands :
    /\ v \in DOMAIN val2interval \cup DOMAIN stack_mappings
    /\ v \in DOMAIN val2interval => Inside(p, val2interval[v])

\* A slot lies in the frame, below the header and below the slots before it.
Slots ==
  /\ stack_size >= Header
  /\ \A v \in DOMAIN stack_mappings : \E p \in Behind : At(p).alloca /\ v \in At(p).val
  /\ \A p \in Behind : At(p).alloca => \A v \in At(p).val :
       /\ v \in DOMAIN stack_mappings
       /\ stack_mappings[v] >= -stack_size
       /\ stack_mappings[v] + At(p).size <= -Header
  /\ \A p, q \in Behind : At(p).alloca /\ At(q).alloca /\ p # q =>
       \A u \in At(p).val, v \in At(q).val :
         \/ stack_mappings[u] + At(p).size <= stack_mappings[v]
         \/ stack_mappings[v] + At(q).size <= stack_mappings[u]

IInv ==
  /\ f_ \in Functions
  /\ TypeOK
  /\ Numbering
  /\ DominatorsFirst
  /\ Phase
  /\ Intervals
  /\ Reads
  /\ Slots
-----------------------------------------------------------------------------
\* What the assumption says of the function, by the names of the model.
LEMMA Function ==
  ASSUME f_ \in Functions
  PROVE  /\ IsFunction(f_) /\ OneDefinition(f_) /\ ReadsAvailable(f_)
         /\ NumBlocks \in Nat \ {0}
         /\ Blocks(f_) \subseteq Block
         /\ Entry(f_) \in Blocks(f_)
         /\ EdgesInside(f_)
         /\ IsFiniteSet(Blocks(f_)) /\ Cardinality(Blocks(f_)) <= NumBlocks
         /\ Header \in Nat /\ Header > 0
<1>1. IsFunction(f_) /\ OneDefinition(f_) /\ ReadsAvailable(f_)
  BY FunctionsAssumption
<1>2. f_.bbs \in Seq(Block) /\ f_.bbs # << >>
  BY <1>1 DEF IsFunction
<1>3. /\ NumBlocks \in Nat \ {0}
      /\ DOMAIN f_.bbs = 1..NumBlocks
      /\ \A m \in 1..NumBlocks : f_.bbs[m] \in Block
  BY <1>2 DEF NumBlocks
<1>4. Blocks(f_) = {f_.bbs[m] : m \in 1..NumBlocks}
  BY <1>3 DEF Blocks
<1>5. IsFiniteSet(1..NumBlocks) /\ Cardinality(1..NumBlocks) = NumBlocks
  BY <1>3, FS_Interval
<1> DEFINE g == [m \in 1..NumBlocks |-> f_.bbs[m]]
<1>7. g \in Surjection(1..NumBlocks, Blocks(f_))
  BY <1>4, Zenon DEF Surjection
<1>8. IsFiniteSet(Blocks(f_)) /\ Cardinality(Blocks(f_)) <= NumBlocks
  <2>1. Cardinality(Blocks(f_)) <= Cardinality(1..NumBlocks) /\ IsFiniteSet(Blocks(f_))
    BY <1>5, <1>7, FS_Surjection
  <2> QED BY <2>1, <1>5
<1>9. Entry(f_) \in Blocks(f_)
  BY <1>3, <1>4 DEF Entry
<1>10. EdgesInside(f_)
  BY <1>1, <1>9 DEF IsFunction, EdgesInside
<1> QED BY <1>1, <1>3, <1>4, <1>8, <1>9, <1>10 DEF Header

\* A point is a pair of the number of a block and the number of an instruction.
LEMMA PointPairs ==
  /\ \A n, j : <<n, j>> \in Points <=> n \in DOMAIN int2bb /\ j \in DOMAIN f_.code[int2bb[n]]
  /\ \A p \in Points : /\ p = <<p[1], p[2]>>
                       /\ p[1] \in DOMAIN int2bb
                       /\ p[2] \in DOMAIN f_.code[int2bb[p[1]]]
BY DEF Points

\* A step that leaves the function, the numbers and the place of the scan as they
\* are leaves what was scanned as it was.
LEMMA SameScan ==
  ASSUME UNCHANGED <<f_, int2bb, bbcounter, instr_counter>>
  PROVE  /\ Points' = Points /\ Behind' = Behind /\ Here' = Here /\ Header' = Header
         /\ \A p : At(p)' = At(p)
<1>1. Points' = Points
  BY Zenon DEF Points
<1>2. Here' = Here
  BY Zenon DEF Here
<1>3. Behind' = Behind
  BY <1>1, <1>2, Zenon DEF Behind
<1>4. \A p : At(p)' = At(p)
  BY Zenon DEF At
<1>5. Header' = Header
  BY DEF Header
<1> QED BY <1>1, <1>2, <1>3, <1>4, <1>5

-----------------------------------------------------------------------------
\* What has no scanned point behind it: the search for the order.
LEMMA NothingBehind ==
  ASSUME DOMAIN int2bb \subseteq Nat \ {0}, bbcounter = 0
  PROVE  Behind = {}
<1>1. \A p \in Points : p[1] \in Nat \ {0}
  BY PointPairs
<1>2. \A p \in Points : Before(Here, p)
  BY <1>1 DEF Before, Here
<1> QED BY <1>2 DEF Behind

LEMMA InitInv == Init => IInv
<1> SUFFICES ASSUME Init PROVE IInv
  OBVIOUS
<1>1. f_ \in Functions /\ pc = "dfs"
  BY DEF Init
<1> USE <1>1
<1>2. /\ f_.bbs[1] \in Blocks(f_)
      /\ stack = <<f_.bbs[1]>> /\ visited = {f_.bbs[1]} /\ c = NumBlocks
      /\ int2bb = [n \in {} |-> f_.bbs[1]]
      /\ bbcounter = 0 /\ instr_counter = 0
      /\ stack_size = Header
  BY Function DEF Init, Entry
<1>3. /\ val2interval = [v \in f_.used_args |-> [start |-> <<0, 0>>, end |-> <<0, 0>>]]
      /\ stack_mappings = [v \in {} |-> 0]
  BY DEF Init
<1>4. TypeOK
  <2>1. f_.used_args \subseteq Val /\ Len(f_.bbs) \in Nat
    BY Function DEF IsFunction, NumBlocks
  <2>2. val2interval \in [DOMAIN val2interval -> [start : Point, end : Point]]
    BY <1>3, <2>1 DEF Point
  <2> QED BY <1>2, <1>3, <2>1, <2>2, Function DEF TypeOK, NumBlocks
<1>5. Numbering
  <2>1. Open = {f_.bbs[1]} /\ Numbered = {}
    BY <1>2 DEF Open, Numbered
  <2>2. DOMAIN int2bb = (c + 1)..NumBlocks
    BY <1>2, Function
  <2>3. IsFiniteSet(visited) /\ Cardinality(visited) = 1
    BY <1>2, FS_Singleton
  <2> QED BY <1>2, <2>1, <2>2, <2>3, Function DEF Numbering
<1>6. DominatorsFirst
  <2>1. ASSUME NEW d \in Blocks(f_), NEW X \in SUBSET Blocks(f_), Around(f_, d, X)
        PROVE  f_.bbs[1] \in X \/ f_.bbs[1] = d
    BY <2>1 DEF Around, Entry
  <2>2. Len(stack) = 1 /\ stack[1] = f_.bbs[1] /\ DOMAIN int2bb = {}
    BY <1>2
  <2> QED BY <1>2, <2>1, <2>2 DEF DominatorsFirst
<1>7. Behind = {}
  BY <1>2, NothingBehind
<1>8. Phase
  BY <1>2 DEF Phase
<1>9. Intervals
  BY <1>2, <1>3, <1>7 DEF Intervals, Before, Here
<1>10. Reads
  BY <1>7 DEF Reads
<1>11. Slots
  BY <1>2, <1>3, <1>7, Function DEF Slots
<1> QED BY <1>4, <1>5, <1>6, <1>8, <1>9, <1>10, <1>11 DEF IInv

-----------------------------------------------------------------------------
\* The search for the order leaves the scan where it starts.
LEMMA ScanNotBegun ==
  ASSUME IInv, pc = "dfs", pc' = "dfs", DOMAIN int2bb' \subseteq Nat \ {0},
         UNCHANGED <<f_, bbcounter, instr_counter, val2interval, stack_mappings, stack_size>>
  PROVE  Phase' /\ Intervals' /\ Reads' /\ Slots'
<1>1. DOMAIN int2bb \subseteq Nat \ {0} /\ bbcounter = 0 /\ instr_counter = 0
  BY Function DEF IInv, TypeOK, NumBlocks, Phase
<1>2. Behind = {}
  BY <1>1, NothingBehind
<1>3. \A p \in Points' : p[1] \in Nat \ {0}
  BY DEF Points
<1>4. \A p \in Points' : Before(Here', p)
  BY <1>1, <1>3 DEF Before, Here
<1>5. Behind' = {}
  BY <1>4 DEF Behind
<1>6. Phase'
  BY <1>1 DEF Phase
<1>7. Intervals /\ Slots
  BY DEF IInv
<1>8. Intervals'
  BY <1>2, <1>5, <1>7 DEF Intervals, Before, Here
<1>9. Reads'
  BY <1>5 DEF Reads
<1>10. Slots'
  BY <1>2, <1>5, <1>7 DEF Slots, Header
<1> QED BY <1>6, <1>8, <1>9, <1>10

\* The depth-first search goes down to a block that was not visited.
LEMMA DescendInv == ASSUME IInv, Descend PROVE IInv'
<1>1. PICK j \in DOMAIN f_.succ[Top] :
        /\ f_.succ[Top][j] \notin visited
        /\ visited' = visited \cup {f_.succ[Top][j]}
        /\ stack' = Append(stack, f_.succ[Top][j])
  BY DEF Descend
<1> DEFINE s == f_.succ[Top][j]
<1>2. /\ pc = "dfs" /\ pc' = "dfs" /\ stack # << >>
      /\ UNCHANGED <<f_, c, int2bb, bbcounter, instr_counter, val2interval, stack_mappings, stack_size>>
  BY DEF Descend
<1>3. f_ \in Functions /\ TypeOK /\ Numbering /\ DominatorsFirst
  BY DEF IInv
<1>4. Blocks(f_)' = Blocks(f_) /\ NumBlocks' = NumBlocks
  BY <1>2 DEF NumBlocks
<1>5. stack \in Seq(Blocks(f_)) /\ Len(stack) \in Nat \ {0} /\ Top = stack[Len(stack)]
  BY <1>2, <1>3 DEF Numbering, Top
<1>6. Top \in Blocks(f_) /\ s \in SuccOf(f_, Top) /\ s \in Blocks(f_)
  <2>1. Top \in Blocks(f_)
    BY <1>5
  <2>2. s \in SuccOf(f_, Top)
    BY <1>1, Zenon DEF SuccOf
  <2> QED BY <1>3, <2>1, <2>2, Function DEF IsFunction
<1> HIDE DEF s
<1>7. /\ stack' \in Seq(Blocks(f_))
      /\ Len(stack') = Len(stack) + 1
      /\ \A i \in 1..Len(stack) : stack'[i] = stack[i]
      /\ stack'[Len(stack) + 1] = s
  BY <1>1, <1>5, <1>6 DEF s
<1>8. Numbered' = Numbered /\ Open' = Open \cup {s} /\ s \notin Open
  <2>1. Numbered' = Numbered
    BY <1>2 DEF Numbered
  <2>2. Open' = {stack'[i] : i \in 1..(Len(stack) + 1)} /\ Open = {stack[i] : i \in 1..Len(stack)}
    BY <1>5, <1>7 DEF Open
  <2>3. s \notin Open
    BY <1>1, <1>3 DEF Numbering, s
  <2> QED BY <1>5, <1>7, <2>1, <2>2, <2>3
<1>9. Numbering'
  <2>1. \A i, h \in DOMAIN stack' : stack'[i] = stack'[h] => i = h
    <3>1. \A i \in DOMAIN stack : stack[i] # s
      BY <1>8 DEF Open
    <3>2. DOMAIN stack' = 1..(Len(stack) + 1) /\ DOMAIN stack = 1..Len(stack)
      BY <1>5, <1>7
    <3> QED BY <1>3, <1>5, <1>7, <3>1, <3>2 DEF Numbering
  <2>2. visited' = Open' \cup Numbered' /\ Open' \cap Numbered' = {}
    BY <1>1, <1>3, <1>8 DEF Numbering, s
  <2>3. IsFiniteSet(visited') /\ Cardinality(visited') = NumBlocks - c + Len(stack')
    <3>1. IsFiniteSet(visited) /\ Cardinality(visited) = NumBlocks - c + Len(stack)
      BY <1>3 DEF Numbering
    <3>2. IsFiniteSet(visited') /\ Cardinality(visited') = Cardinality(visited) + 1
      BY <1>1, <3>1, FS_AddElement
    <3> QED BY <1>3, <1>5, <1>7, <3>1, <3>2, Function DEF Numbering
  <2>4. \A n \in DOMAIN int2bb : SuccOf(f_, int2bb[n]) \subseteq visited'
    BY <1>1, <1>3 DEF Numbering
  <2> QED BY <1>2, <1>3, <1>4, <1>7, <2>1, <2>2, <2>3, <2>4 DEF Numbering
<1>10. DominatorsFirst'
  <2> SUFFICES ASSUME NEW d \in Blocks(f_), NEW X \in SUBSET Blocks(f_), Around(f_, d, X)
               PROVE  /\ \A i \in DOMAIN stack' : stack'[i] \in X \/ \E h \in 1..i : stack'[h] = d
                      /\ \A n \in DOMAIN int2bb :
                           \/ int2bb[n] \in X
                           \/ d \in Open'
                           \/ \E m \in DOMAIN int2bb : m <= n /\ int2bb[m] = d
    BY <1>2, <1>4, Zenon DEF DominatorsFirst
  <2>1. /\ \A i \in DOMAIN stack : stack[i] \in X \/ \E h \in 1..i : stack[h] = d
        /\ \A n \in DOMAIN int2bb :
             \/ int2bb[n] \in X
             \/ d \in Open
             \/ \E m \in DOMAIN int2bb : m <= n /\ int2bb[m] = d
    BY <1>3 DEF DominatorsFirst
  <2>2. DOMAIN stack' = 1..(Len(stack) + 1) /\ DOMAIN stack = 1..Len(stack)
    BY <1>5, <1>7
  <2>3. ASSUME NEW i \in 1..Len(stack) PROVE stack'[i] \in X \/ \E h \in 1..i : stack'[h] = d
    BY <1>5, <1>7, <2>1, <2>2
  <2>4. s \in X \/ \E h \in 1..(Len(stack) + 1) : stack'[h] = d
    <3>1. CASE Top \in X
      BY <1>6, <1>7, <1>5, <3>1 DEF Around
    <3>2. CASE Top \notin X
      BY <1>5, <1>7, <2>1, <2>2, <3>2
    <3> QED BY <3>1, <3>2
  <2> QED BY <1>5, <1>7, <1>8, <2>1, <2>2, <2>3, <2>4
<1>11. TypeOK'
  <2>1. stack' \in Seq(Block) /\ visited' \subseteq Block
    BY <1>1, <1>3, <1>6, <1>7, Function DEF TypeOK, s
  <2> QED BY <1>2, <1>3, <2>1 DEF TypeOK, Point
<1>12. Phase' /\ Intervals' /\ Reads' /\ Slots'
  <2>1. DOMAIN int2bb' \subseteq Nat \ {0}
    BY <1>2, <1>3 DEF TypeOK
  <2> QED BY <1>2, <2>1, ScanNotBegun
<1> QED BY <1>2, <1>3, <1>9, <1>10, <1>11, <1>12 DEF IInv

\* A block is numbered when its successors are visited.
LEMMA NumberInv == ASSUME IInv, Number PROVE IInv'
<1>1. /\ pc = "dfs" /\ pc' = "dfs" /\ stack # << >>
      /\ \A j \in DOMAIN f_.succ[Top] : f_.succ[Top][j] \in visited
      /\ int2bb' = Put(int2bb, c, Top)
      /\ c' = c - 1
      /\ stack' = SubSeq(stack, 1, Len(stack) - 1)
      /\ UNCHANGED <<f_, visited, bbcounter, instr_counter, val2interval, stack_mappings, stack_size>>
  BY DEF Number, NumberOf
<1>2. f_ \in Functions /\ TypeOK /\ Numbering /\ DominatorsFirst
  BY DEF IInv
<1>3. Blocks(f_)' = Blocks(f_) /\ NumBlocks' = NumBlocks /\ NumBlocks \in Nat
  BY <1>1, <1>2, Function DEF NumBlocks
<1> DEFINE last == Len(stack)
<1>4. /\ stack \in Seq(Blocks(f_)) /\ last \in Nat \ {0} /\ DOMAIN stack = 1..last
      /\ Top = stack[last] /\ Top \in Blocks(f_)
  BY <1>1, <1>2 DEF Numbering, Top
<1>5. /\ stack' \in Seq(Blocks(f_))
      /\ Len(stack') = last - 1
      /\ DOMAIN stack' = 1..(last - 1)
      /\ \A i \in 1..(last - 1) : stack'[i] = stack[i]
  BY <1>1, <1>4
<1>6. c \in Int /\ c <= NumBlocks /\ DOMAIN int2bb = (c + 1)..NumBlocks
  BY <1>2 DEF Numbering
\* As many numbers are left as there are blocks open, at least.
<1>7. c >= last
  <2>1. visited \in SUBSET Blocks(f_) /\ Cardinality(visited) = NumBlocks - c + last
    BY <1>2 DEF Numbering, Open, Numbered
  <2>2. Cardinality(visited) <= Cardinality(Blocks(f_)) /\ Cardinality(visited) \in Nat
    BY <1>2, <2>1, Function, FS_Subset, FS_CardinalityType
  <2>3. Cardinality(Blocks(f_)) <= NumBlocks /\ Cardinality(Blocks(f_)) \in Nat
    BY <1>2, Function, FS_CardinalityType
  <2> QED BY <1>3, <1>4, <1>6, <2>1, <2>2, <2>3
<1> HIDE DEF last
<1>8. /\ DOMAIN int2bb' = c..NumBlocks
      /\ int2bb'[c] = Top
      /\ \A n \in DOMAIN int2bb : int2bb'[n] = int2bb[n] /\ n # c
  BY <1>1, <1>6, <1>3 DEF Put
<1>9. /\ Open = Open' \cup {Top} /\ Top \notin Open'
      /\ Numbered' = Numbered \cup {Top} /\ Top \notin Numbered
  <2>1. Open = {stack[i] : i \in 1..last} /\ Open' = {stack'[i] : i \in 1..(last - 1)}
    BY <1>4, <1>5 DEF Open
  <2>2. Open = Open' \cup {Top}
    BY <1>4, <1>5, <2>1
  <2>3. Top \notin Open'
    BY <1>2, <1>4, <1>5, <2>1 DEF Numbering
  <2>4. Numbered' = {int2bb'[n] : n \in c..NumBlocks}
    BY <1>8 DEF Numbered
  <2>5. Numbered = {int2bb[n] : n \in (c + 1)..NumBlocks}
    BY <1>6 DEF Numbered
  <2>6. Numbered' = Numbered \cup {Top}
    BY <1>3, <1>6, <1>8, <2>4, <2>5
  <2>7. Top \notin Numbered
    BY <1>2, <2>2 DEF Numbering
  <2> QED BY <2>2, <2>3, <2>6, <2>7
<1>10. Numbering'
  <2>1. \A i, j \in DOMAIN stack' : stack'[i] = stack'[j] => i = j
    BY <1>2, <1>4, <1>5 DEF Numbering
  <2>2. visited' = Open' \cup Numbered' /\ Open' \cap Numbered' = {}
    BY <1>1, <1>2, <1>9 DEF Numbering
  <2>3. c' \in Int /\ c' <= NumBlocks /\ DOMAIN int2bb' = (c' + 1)..NumBlocks
    BY <1>1, <1>3, <1>6, <1>8
  <2>4. int2bb' \in [DOMAIN int2bb' -> Blocks(f_)]
    BY <1>1, <1>2, <1>4 DEF Numbering, Put
  <2>5. \A m, n \in DOMAIN int2bb' : int2bb'[m] = int2bb'[n] => m = n
    <3>1. \A n \in DOMAIN int2bb : int2bb[n] # Top
      BY <1>9 DEF Numbered
    <3>2. DOMAIN int2bb' = DOMAIN int2bb \cup {c}
      BY <1>3, <1>6, <1>8
    <3> QED BY <1>2, <1>8, <3>1, <3>2 DEF Numbering
  <2>6. IsFiniteSet(visited') /\ Cardinality(visited') = NumBlocks - c' + Len(stack')
    <3>1. IsFiniteSet(visited) /\ Cardinality(visited) = NumBlocks - c + last
      BY <1>2 DEF Numbering, last
    <3>2. IsFiniteSet(visited') /\ Cardinality(visited') = NumBlocks - c + last
      BY <1>1, <3>1, Zenon
    <3>3. NumBlocks - c + last = NumBlocks - c' + Len(stack')
      <4>1. c' = c - 1
        BY <1>1
      <4>2. Len(stack') = last - 1
        BY <1>5
      <4>3. NumBlocks \in Int /\ last \in Int /\ c \in Int
        BY <1>3, <1>4, <1>6
      <4> HIDE DEF last
      <4> QED BY <4>1, <4>2, <4>3
    <3> QED BY <3>2, <3>3, Zenon
  <2>7. \A n \in DOMAIN int2bb' : SuccOf(f_, int2bb'[n]) \subseteq visited'
    <3>1. SuccOf(f_, Top) \subseteq visited
      BY <1>1 DEF SuccOf
    <3>2. \A n \in DOMAIN int2bb : SuccOf(f_, int2bb[n]) \subseteq visited
      BY <1>2 DEF Numbering
    <3>3. DOMAIN int2bb' = DOMAIN int2bb \cup {c}
      BY <1>3, <1>6, <1>8
    <3> QED BY <1>1, <1>8, <3>1, <3>2, <3>3, Zenon
  <2> QED BY <1>1, <1>3, <1>5, <2>1, <2>2, <2>3, <2>4, <2>5, <2>6, <2>7 DEF Numbering
<1>11. DominatorsFirst'
  <2> SUFFICES ASSUME NEW d \in Blocks(f_), NEW X \in SUBSET Blocks(f_), Around(f_, d, X)
               PROVE  /\ \A i \in DOMAIN stack' : stack'[i] \in X \/ \E h \in 1..i : stack'[h] = d
                      /\ \A n \in DOMAIN int2bb' :
                           \/ int2bb'[n] \in X
                           \/ d \in Open'
                           \/ \E m \in DOMAIN int2bb' : m <= n /\ int2bb'[m] = d
    BY <1>1, <1>3, Zenon DEF DominatorsFirst
  <2>1. /\ \A i \in DOMAIN stack : stack[i] \in X \/ \E h \in 1..i : stack[h] = d
        /\ \A n \in DOMAIN int2bb :
             \/ int2bb[n] \in X
             \/ d \in Open
             \/ \E m \in DOMAIN int2bb : m <= n /\ int2bb[m] = d
    BY <1>2 DEF DominatorsFirst
  <2>2. \A i \in DOMAIN stack' : stack'[i] \in X \/ \E h \in 1..i : stack'[h] = d
    BY <1>4, <1>5, <2>1
  <2>3. Top \in X \/ d \in Open
    BY <1>4, <2>1 DEF Open
  <2>4. DOMAIN int2bb' = DOMAIN int2bb \cup {c} /\ \A n \in DOMAIN int2bb' : c <= n
    BY <1>3, <1>6, <1>8
  <2>5. d \in Open => d \in Open' \/ d = int2bb'[c]
    BY <1>8, <1>9
  <2> QED BY <1>8, <2>1, <2>2, <2>3, <2>4, <2>5
<1>12. TypeOK'
  <2>1. stack' \in Seq(Block) /\ c' \in 0..Len(f_.bbs)
    BY <1>1, <1>2, <1>3, <1>4, <1>5, <1>6, <1>7, Function DEF NumBlocks
  <2>2. DOMAIN int2bb' \subseteq 1..Len(f_.bbs) /\ int2bb' \in [DOMAIN int2bb' -> Block]
    BY <1>1, <1>2, <1>3, <1>4, <1>6, <1>7, <1>8, Function DEF Numbering, Put, NumBlocks
  <2> QED BY <1>1, <1>2, <2>1, <2>2 DEF TypeOK, Point
<1>13. Phase' /\ Intervals' /\ Reads' /\ Slots'
  <2>1. DOMAIN int2bb' \subseteq Nat \ {0}
    BY <1>3, <1>4, <1>6, <1>7, <1>8
  <2> QED BY <1>1, <2>1, ScanNotBegun
<1> QED BY <1>1, <1>2, <1>10, <1>11, <1>12, <1>13 DEF IInv

-----------------------------------------------------------------------------
\* The scan leaves the order of the blocks as it is.
LEMMA OrderKept ==
  ASSUME IInv, UNCHANGED <<f_, order>>
  PROVE  Numbering' /\ DominatorsFirst'
<1>1. UNCHANGED <<f_, stack, visited, c, int2bb>> /\ Numbering /\ DominatorsFirst
  BY DEF order, IInv
<1>2. Open' = Open /\ Numbered' = Numbered /\ NumBlocks' = NumBlocks
  BY <1>1 DEF Open, Numbered, NumBlocks
<1>3. Numbering'
  BY <1>1, <1>2, Zenon DEF Numbering
<1>4. DominatorsFirst'
  BY <1>1, <1>2, Zenon DEF DominatorsFirst
<1> QED BY <1>3, <1>4

\* The numbers in a point.
LEMMA PointNumbers ==
  ASSUME IInv
  PROVE  /\ bbcounter \in Nat /\ instr_counter \in Nat
         /\ \A n \in DOMAIN int2bb :
              /\ n \in Nat \ {0}
              /\ int2bb[n] \in Blocks(f_)
              /\ f_.code[int2bb[n]] \in Seq(Instr)
              /\ Len(f_.code[int2bb[n]]) \in Nat
              /\ DOMAIN f_.code[int2bb[n]] = 1..Len(f_.code[int2bb[n]])
         /\ \A p \in Points : p[1] \in Nat \ {0} /\ p[2] \in Nat \ {0} /\ At(p) \in Instr
<1>1. f_ \in Functions /\ TypeOK /\ int2bb \in [DOMAIN int2bb -> Blocks(f_)]
  BY DEF IInv, Numbering
<1>2. bbcounter \in Nat /\ instr_counter \in Nat /\ \A n \in DOMAIN int2bb : n \in Nat \ {0}
  BY <1>1, Function DEF TypeOK, NumBlocks
<1>3. \A b \in Blocks(f_) : f_.code[b] \in Seq(Instr)
  BY <1>1, Function DEF IsFunction
<1>4. \A n \in DOMAIN int2bb : int2bb[n] \in Blocks(f_) /\ f_.code[int2bb[n]] \in Seq(Instr)
  BY <1>1, <1>3
<1>5. \A n \in DOMAIN int2bb : /\ Len(f_.code[int2bb[n]]) \in Nat
                               /\ DOMAIN f_.code[int2bb[n]] = 1..Len(f_.code[int2bb[n]])
  BY <1>4
<1>6. \A p \in Points : p[1] \in Nat \ {0} /\ p[2] \in Nat \ {0} /\ At(p) \in Instr
  BY <1>2, <1>4, <1>5, PointPairs DEF At
<1> QED BY <1>2, <1>4, <1>5, <1>6

\* The next block begins where the one before it ended: nothing lies between.
LEMMA NextBlockInv == ASSUME IInv, NextBlock PROVE IInv'
<1>1. /\ \/ pc = "dfs" /\ stack = << >>
         \/ pc = "scan" /\ instr_counter = Len(f_.code[int2bb[bbcounter]])
      /\ pc' = "scan" /\ instr_counter' = 0
      /\ UNCHANGED <<f_, order, val2interval, stack_mappings, stack_size>>
      /\ UNCHANGED <<stack, visited, c, int2bb>>
  <2>1. UNCHANGED order
    BY DEF NextBlock
  <2>2. UNCHANGED <<stack, visited, c, int2bb>>
    BY <2>1 DEF order
  <2> QED BY <2>1, <2>2 DEF NextBlock
<1>2. PICK n \in DOMAIN int2bb : /\ n > bbcounter
                                 /\ \A k \in DOMAIN int2bb : k > bbcounter => n <= k
                                 /\ bbcounter' = n
  BY DEF NextBlock
<1>3. f_ \in Functions /\ TypeOK /\ Phase /\ Intervals /\ Reads /\ Slots
  BY DEF IInv
<1>4. Points' = Points /\ \A p : At(p)' = At(p)
  BY <1>1, Zenon DEF Points, At
<1>5. Header' = Header
  BY <1>1 DEF Header
<1>6. \A p \in Points : Before(Here', p) <=> Before(Here, p)
  <2> SUFFICES ASSUME NEW p \in Points PROVE Before(Here', p) <=> Before(Here, p)
    OBVIOUS
  <2>1. p[1] \in DOMAIN int2bb /\ p[1] \in Nat /\ p[2] \in Nat \ {0} /\ bbcounter \in Nat /\ n \in Nat
    BY PointPairs, PointNumbers
  <2>2. Here' = <<n, 0>> /\ Here = <<bbcounter, instr_counter>>
    BY <1>1, <1>2 DEF Here
  <2>3. p[1] = bbcounter => p[2] <= instr_counter
    <3>1. CASE pc = "dfs"
      BY <1>3, <3>1, PointNumbers DEF Phase
    <3>2. CASE instr_counter = Len(f_.code[int2bb[bbcounter]])
      <4>1. p[2] \in DOMAIN f_.code[int2bb[p[1]]]
        BY PointPairs
      <4>2. p[2] <= Len(f_.code[int2bb[p[1]]])
        BY <2>1, <4>1, PointNumbers
      <4> QED BY <3>2, <4>2
    <3> QED BY <1>1, <3>1, <3>2
  <2>4. p[1] < n <=> p[1] <= bbcounter
    BY <1>2, <2>1
  <2> QED BY <2>1, <2>2, <2>3, <2>4, PointNumbers DEF Before
<1>7. Behind' = Behind
  BY <1>4, <1>6, Zenon DEF Behind
<1>8. Numbering' /\ DominatorsFirst'
  BY <1>1, OrderKept
<1>9. TypeOK'
  <2>1. bbcounter' \in 0..Len(f_.bbs) /\ instr_counter' \in Nat
    BY <1>1, <1>2, <1>3, Function DEF TypeOK, NumBlocks
  <2> QED BY <1>1, <1>3, <2>1 DEF TypeOK, Point
<1>10. Phase'
  <2>1. Len(f_.code[int2bb[n]]) \in Nat
    BY PointNumbers
  <2>2. stack = << >>
    BY <1>1, <1>3 DEF Phase
  <2> QED BY <1>1, <1>2, <2>1, <2>2 DEF Phase
<1>11. Intervals'
  <2>1. ASSUME NEW v \in DOMAIN val2interval PROVE ~Before(Here', val2interval[v].end)
    <3>1. ~Before(Here, val2interval[v].end) /\ val2interval[v].end \in Point
      BY <1>3 DEF Intervals, TypeOK
    <3>2. val2interval[v].end[1] \in Nat /\ val2interval[v].end[2] \in Nat
      BY <3>1, <1>3, Function DEF Point, NumBlocks
    <3>3. n \in Nat
      BY PointNumbers
    <3> QED BY <1>1, <1>2, <3>1, <3>2, <3>3, PointNumbers DEF Before, Here
  <2> QED BY <1>1, <1>3, <1>4, <1>7, <2>1 DEF Intervals
<1>12. Reads' /\ Slots'
  <2>1. Reads'
    BY <1>1, <1>3, <1>4, <1>7 DEF Reads, Inside
  <2>2. Slots'
    BY <1>1, <1>3, <1>4, <1>5, <1>7 DEF Slots
  <2> QED BY <2>1, <2>2
<1> QED BY <1>1, <1>3, <1>8, <1>9, <1>10, <1>11, <1>12 DEF IInv

-----------------------------------------------------------------------------
\* An instruction is the first point that is not behind, and is left behind.
LEMMA StepForward ==
  ASSUME IInv, InBlock
  PROVE  /\ UNCHANGED <<f_, pc, order, int2bb, bbcounter>>
         /\ pc = "scan" /\ bbcounter \in DOMAIN int2bb
         /\ instr_counter + 1 \in 1..Len(f_.code[int2bb[bbcounter]])
         /\ Points' = Points /\ Header' = Header /\ \A p : At(p)' = At(p)
         /\ srcloc \in Points /\ srcloc \notin Behind /\ instr = At(srcloc)
         /\ Here' = srcloc
         /\ Behind' = Behind \cup {srcloc}
         /\ \A p \in Behind : Before(p, srcloc)
<1>1. UNCHANGED <<f_, pc, order, bbcounter>> /\ pc = "scan" /\ instr_counter' = instr_counter + 1
  BY DEF InBlock
<1>2. UNCHANGED int2bb
  BY <1>1 DEF order
<1>3. Points' = Points /\ \A p : At(p)' = At(p)
  BY <1>1, <1>2, Zenon DEF Points, At
<1>4. Header' = Header
  BY <1>1 DEF Header
<1>5. bbcounter \in DOMAIN int2bb
  BY <1>1 DEF IInv, Phase
<1>6. instr_counter + 1 \in 1..Len(f_.code[int2bb[bbcounter]])
  BY <1>5, PointNumbers DEF InBlock
<1>7. srcloc \in Points /\ instr = At(srcloc)
  BY <1>5, <1>6, PointPairs, PointNumbers DEF srcloc, instr, At
<1>8. Here' = srcloc
  BY <1>1 DEF Here, srcloc
<1>9. \A p \in Points : ~Before(Here', p) <=> ~Before(Here, p) \/ p = srcloc
  <2> SUFFICES ASSUME NEW p \in Points PROVE ~Before(Here', p) <=> ~Before(Here, p) \/ p = srcloc
    OBVIOUS
  <2>1. p = <<p[1], p[2]>> /\ p[1] \in Nat /\ p[2] \in Nat /\ bbcounter \in Nat /\ instr_counter \in Nat
    BY PointPairs, PointNumbers
  <2>2. p = srcloc <=> p[1] = bbcounter /\ p[2] = instr_counter + 1
    BY <2>1 DEF srcloc
  <2>3. Before(Here', p) <=> bbcounter < p[1] \/ (bbcounter = p[1] /\ instr_counter + 1 < p[2])
    BY <1>8 DEF Before, srcloc
  <2>4. Before(Here, p) <=> bbcounter < p[1] \/ (bbcounter = p[1] /\ instr_counter < p[2])
    BY DEF Before, Here
  <2> QED BY <2>1, <2>2, <2>3, <2>4
<1>10. Behind' = Behind \cup {srcloc}
  BY <1>3, <1>7, <1>9 DEF Behind
<1>11. srcloc \notin Behind /\ \A p \in Behind : Before(p, srcloc)
  <2>1. \A p \in Behind : p[1] \in Nat /\ p[2] \in Nat /\ bbcounter \in Nat /\ instr_counter \in Nat
    BY PointNumbers DEF Behind
  <2>2. \A p \in Behind : Before(p, srcloc)
    BY <2>1 DEF Behind, Before, Here, srcloc
  <2>3. ~Before(srcloc, srcloc)
    BY PointNumbers DEF Before, srcloc
  <2> QED BY <2>2, <2>3
<1> QED BY <1>1, <1>2, <1>3, <1>4, <1>5, <1>6, <1>7, <1>8, <1>10, <1>11

\* The order of the blocks and the place of the scan after an instruction.
LEMMA StepPhase ==
  ASSUME IInv, InBlock
  PROVE  /\ f_' \in Functions /\ Numbering' /\ DominatorsFirst' /\ Phase'
         /\ instr_counter' \in Nat
<1>1. f_ \in Functions /\ Phase
  BY DEF IInv
<1>2. /\ UNCHANGED <<f_, pc, order, int2bb, bbcounter>> /\ instr_counter' = instr_counter + 1
      /\ pc = "scan" /\ bbcounter \in DOMAIN int2bb
      /\ instr_counter + 1 \in 1..Len(f_.code[int2bb[bbcounter]])
  BY StepForward DEF InBlock
<1>3. UNCHANGED stack /\ stack = << >>
  BY <1>1, <1>2 DEF order, Phase
<1>4. Phase'
  BY <1>2, <1>3 DEF Phase
<1>5. instr_counter' \in Nat
  BY <1>2, PointNumbers
<1> QED BY <1>1, <1>2, <1>4, <1>5, OrderKept

\* A value is defined at one point, and a parameter at none.
LEMMA DefinedOnce ==
  ASSUME IInv
  PROVE  /\ \A p, q \in Points : \A v \in At(p).val : v \in At(q).val => p = q
         /\ \A p \in Points : \A u, v \in At(p).val : u = v /\ u \notin f_.used_args
         /\ \A p \in Points : At(p).alloca => At(p).rands = {}
<1>1. f_ \in Functions /\ \A m, n \in DOMAIN int2bb : int2bb[m] = int2bb[n] => m = n
  BY DEF IInv, Numbering
<1>2. OneDefinition(f_)
  BY <1>1, Function
<1>3. \A p \in Points : /\ p = <<p[1], p[2]>> /\ p[1] \in DOMAIN int2bb
                        /\ int2bb[p[1]] \in Blocks(f_)
                        /\ p[2] \in DOMAIN f_.code[int2bb[p[1]]]
                        /\ At(p).val = DefsAt(f_, int2bb[p[1]], p[2])
                        /\ At(p).rands = ReadsAt(f_, int2bb[p[1]], p[2])
                        /\ At(p) = f_.code[int2bb[p[1]]][p[2]]
  BY PointPairs, PointNumbers DEF At, DefsAt, ReadsAt
<1>4. ASSUME NEW p \in Points, NEW q \in Points, NEW v \in At(p).val, v \in At(q).val PROVE p = q
  <2>1. int2bb[p[1]] = int2bb[q[1]] /\ p[2] = q[2]
    BY <1>2, <1>3, <1>4 DEF OneDefinition
  <2> QED BY <1>1, <1>3, <2>1
<1>5. \A p \in Points : \A u, v \in At(p).val : u = v /\ u \notin f_.used_args
  BY <1>2, <1>3 DEF OneDefinition
<1>6. \A p \in Points : At(p).alloca => At(p).rands = {}
  BY <1>2, <1>3 DEF OneDefinition
<1> QED BY <1>4, <1>5, <1>6

\* A block that dominates another one has the smaller number.
LEMMA DominatorBefore ==
  ASSUME IInv, stack = << >>, NEW d \in Blocks(f_), NEW n \in DOMAIN int2bb,
         NEW X \in SUBSET Blocks(f_), Around(f_, d, X), int2bb[n] \notin X
  PROVE  \E m \in DOMAIN int2bb : m <= n /\ int2bb[m] = d
<1>1. DominatorsFirst
  BY DEF IInv
<1>2. Open = {}
  BY DEF Open
<1> QED BY <1>1, <1>2 DEF DominatorsFirst

\* What an instruction reads is a parameter or was defined behind it.
LEMMA DefinedBehind ==
  ASSUME IInv, InBlock, NEW v \in instr.rands
  PROVE  v \in f_.used_args \/ \E p \in Behind : v \in At(p).val
<1> DEFINE b == int2bb[bbcounter]
<1> DEFINE j == instr_counter + 1
<1>1. /\ pc = "scan" /\ bbcounter \in DOMAIN int2bb /\ j \in 1..Len(f_.code[b])
      /\ bbcounter \in Nat /\ instr_counter \in Nat
      /\ b \in Blocks(f_) /\ DOMAIN f_.code[b] = 1..Len(f_.code[b])
      /\ Len(f_.code[b]) \in Nat
  BY StepForward, PointNumbers
<1>2. f_ \in Functions /\ stack = << >>
  BY <1>1 DEF IInv, Phase
<1>3. v \in ReadsAt(f_, b, j)
  BY DEF instr, ReadsAt
<1>4. Available(f_, v, b, j)
  BY <1>1, <1>2, <1>3, Function DEF ReadsAvailable
<1>5. \A q \in Points : (q[1] < bbcounter \/ (q[1] = bbcounter /\ q[2] < j)) => q \in Behind
  BY <1>1, PointNumbers DEF Behind, Before, Here
<1> HIDE DEF b, j
<1>6. ASSUME NEW h \in 1..(j - 1), v \in DefsAt(f_, b, h)
      PROVE  \E p \in Behind : v \in At(p).val
  <2>1. h \in DOMAIN f_.code[b] /\ h < j
    BY <1>1
  <2>2. <<bbcounter, h>> \in Points
    BY <1>1, <2>1, PointPairs DEF b
  <2>3. <<bbcounter, h>> \in Behind
    BY <1>5, <2>1, <2>2
  <2>4. v \in At(<<bbcounter, h>>).val
    BY <1>6 DEF At, DefsAt, b
  <2> QED BY <2>3, <2>4
<1>7. ASSUME NEW d \in Blocks(f_), StrictlyDominates(f_, d, b),
             NEW h \in DOMAIN f_.code[d], v \in DefsAt(f_, d, h)
      PROVE  \E p \in Behind : v \in At(p).val
  <2>1. d # b /\ \E X \in SUBSET Blocks(f_) : Around(f_, d, X) /\ b \notin X
    BY <1>7 DEF StrictlyDominates, Dominates
  <2>2. PICK m \in DOMAIN int2bb : m <= bbcounter /\ int2bb[m] = d
    BY <1>1, <1>2, <2>1, DominatorBefore DEF b
  <2>3. m < bbcounter
    BY <1>1, <2>1, <2>2, PointNumbers DEF b
  <2>4. <<m, h>> \in Points
    BY <1>7, <2>2, PointPairs
  <2>5. <<m, h>> \in Behind
    BY <1>5, <2>3, <2>4
  <2>6. v \in At(<<m, h>>).val
    BY <1>7, <2>2 DEF At, DefsAt
  <2> QED BY <2>5, <2>6
<1> QED BY <1>4, <1>6, <1>7 DEF Available

\* An alloca is given the bytes below the frame so far.
LEMMA AllocaInv == ASSUME IInv, Alloca PROVE IInv'
<1>1. /\ InBlock /\ instr.alloca
      /\ stack_size' = stack_size + instr.size
      /\ stack_mappings' = [v \in DOMAIN stack_mappings \cup instr.val |->
                              IF v \in instr.val THEN -(stack_size + instr.size)
                              ELSE stack_mappings[v]]
      /\ UNCHANGED val2interval
  BY DEF Alloca, Slot
<1>2. /\ UNCHANGED <<f_, pc, order, int2bb, bbcounter>>
      /\ Points' = Points /\ Header' = Header /\ \A p : At(p)' = At(p)
      /\ srcloc \in Points /\ srcloc \notin Behind /\ instr = At(srcloc)
      /\ Here' = srcloc
      /\ Behind' = Behind \cup {srcloc}
      /\ \A p \in Behind : Before(p, srcloc)
  BY <1>1, StepForward
<1>3. f_ \in Functions /\ TypeOK /\ Intervals /\ Reads /\ Slots
  BY DEF IInv
<1>4. /\ instr \in Instr /\ instr.rands = {} /\ instr.size \in Nat /\ instr.val \subseteq Val
      /\ \A u, v \in instr.val : u = v
  BY <1>1, <1>2, PointNumbers, DefinedOnce DEF Instr
<1>5. \A p \in Behind : At(p).val \cap instr.val = {}
  BY <1>2, DefinedOnce DEF Behind
<1>6. /\ f_' \in Functions /\ Numbering' /\ DominatorsFirst' /\ Phase' /\ instr_counter' \in Nat
  BY <1>1, StepPhase
<1>7. stack_size \in Nat /\ Header \in Nat /\ \A v \in DOMAIN stack_mappings : stack_mappings[v] \in Int
  BY <1>3, Function DEF TypeOK
<1>8. TypeOK'
  <2>1. stack_mappings' \in [DOMAIN stack_mappings' -> Int] /\ DOMAIN stack_mappings' \subseteq Val
    BY <1>1, <1>3, <1>4, <1>7 DEF TypeOK
  <2>2. stack_size' \in Nat
    BY <1>1, <1>4, <1>7
  <2> QED BY <1>1, <1>2, <1>3, <1>6, <2>1, <2>2 DEF TypeOK, Point, order
<1>9. Intervals'
  <2>1. ASSUME NEW v \in DOMAIN val2interval PROVE ~Before(srcloc, val2interval[v].end)
    <3>1. ~Before(Here, val2interval[v].end) /\ val2interval[v].end \in Point
      BY <1>3 DEF Intervals, TypeOK
    <3>2. val2interval[v].end[1] \in Nat /\ val2interval[v].end[2] \in Nat
      BY <3>1, <1>3, Function DEF Point, NumBlocks
    <3> QED BY <3>1, <3>2, PointNumbers DEF Before, Here, srcloc
  <2> QED BY <1>1, <1>2, <1>3, <2>1 DEF Intervals
<1>10. Reads'
  BY <1>1, <1>2, <1>3, <1>4 DEF Reads, Inside
<1>11. Slots'
  <2>1. \A v \in instr.val : v \in DOMAIN stack_mappings' /\ stack_mappings'[v] = -(stack_size + instr.size)
    BY <1>1
  <2>2. ASSUME NEW p \in Behind, At(p).alloca, NEW v \in At(p).val
        PROVE  /\ v \in DOMAIN stack_mappings'
               /\ stack_mappings'[v] = stack_mappings[v] /\ stack_mappings[v] \in Int
               /\ stack_mappings[v] >= -stack_size
               /\ stack_mappings[v] + At(p).size <= -Header
               /\ At(p).size \in Nat
    <3>1. v \notin instr.val
      BY <1>5
    <3>2. At(p).size \in Nat
      BY PointNumbers DEF Behind, Instr
    <3> QED BY <1>1, <1>3, <1>7, <2>2, <3>1, <3>2 DEF Slots
  <2>3. stack_size' >= Header'
    BY <1>1, <1>2, <1>3, <1>4, <1>7 DEF Slots
  <2>4. \A v \in DOMAIN stack_mappings' : \E p \in Behind' : At(p).alloca /\ v \in At(p).val
    <3>1. TAKE v \in DOMAIN stack_mappings'
    <3>2. v \in instr.val \/ v \in DOMAIN stack_mappings
      BY <1>1
    <3> QED BY <1>1, <1>2, <1>3, <3>2 DEF Slots
  <2>5. ASSUME NEW p \in Behind', At(p).alloca, NEW v \in At(p).val
        PROVE  /\ v \in DOMAIN stack_mappings'
               /\ stack_mappings'[v] >= -stack_size'
               /\ stack_mappings'[v] + At(p).size <= -Header
    <3>1. CASE p \in Behind
      <4>1. /\ v \in DOMAIN stack_mappings'
            /\ stack_mappings'[v] \in Int
            /\ stack_mappings'[v] >= -stack_size
            /\ stack_mappings'[v] + At(p).size <= -Header
        BY <2>2, <2>5, <3>1
      <4>2. stack_size' = stack_size + instr.size
        BY <1>1
      <4> QED BY <1>4, <1>7, <4>1, <4>2
    <3>2. CASE p = srcloc
      <4>1. At(p) = instr /\ v \in instr.val
        BY <1>2, <2>5, <3>2
      <4>2. stack_size >= Header
        BY <1>3 DEF Slots
      <4>3. v \in DOMAIN stack_mappings' /\ stack_mappings'[v] = -(stack_size + instr.size)
        BY <2>1, <4>1
      <4> QED BY <1>1, <1>4, <1>7, <4>1, <4>2, <4>3
    <3> QED BY <1>2, <3>1, <3>2
  <2>6. ASSUME NEW p \in Behind', NEW q \in Behind', At(p).alloca, At(q).alloca, p # q,
               NEW u \in At(p).val, NEW v \in At(q).val
        PROVE  \/ stack_mappings'[u] + At(p).size <= stack_mappings'[v]
               \/ stack_mappings'[v] + At(q).size <= stack_mappings'[u]
    <3>1. CASE p \in Behind /\ q \in Behind
      BY <1>3, <2>2, <2>6, <3>1 DEF Slots
    <3>2. CASE p = srcloc /\ q \in Behind
      <4>1. At(p) = instr
        BY <1>2, <3>2
      <4>2. stack_mappings'[u] = -(stack_size + instr.size) /\ stack_mappings'[v] >= -stack_size /\ stack_mappings'[v] \in Int
        BY <2>1, <2>2, <2>6, <3>2, <4>1
      <4> QED BY <1>4, <1>7, <4>1, <4>2
    <3>3. CASE p \in Behind /\ q = srcloc
      <4>1. At(q) = instr
        BY <1>2, <3>3
      <4>2. stack_mappings'[v] = -(stack_size + instr.size) /\ stack_mappings'[u] >= -stack_size /\ stack_mappings'[u] \in Int
        BY <2>1, <2>2, <2>6, <3>3, <4>1
      <4> QED BY <1>4, <1>7, <4>1, <4>2
    <3> QED BY <1>2, <2>6, <3>1, <3>2, <3>3
  <2> QED BY <1>2, <2>3, <2>4, <2>5, <2>6 DEF Slots
<1> QED BY <1>3, <1>6, <1>8, <1>9, <1>10, <1>11 DEF IInv

\* An instruction opens the interval of its value and extends those of the values
\* it reads.
LEMMA InstructionInv == ASSUME IInv, Instruction PROVE IInv'
<1>1. /\ InBlock /\ ~instr.alloca
      /\ val2interval' = Extended
      /\ UNCHANGED <<stack_mappings, stack_size>>
  BY DEF Instruction
<1>2. /\ UNCHANGED <<f_, pc, order, int2bb, bbcounter>>
      /\ bbcounter \in DOMAIN int2bb
      /\ Points' = Points /\ Header' = Header /\ \A p : At(p)' = At(p)
      /\ srcloc \in Points /\ srcloc \notin Behind /\ instr = At(srcloc)
      /\ Here' = srcloc
      /\ Behind' = Behind \cup {srcloc}
      /\ \A p \in Behind : Before(p, srcloc)
  BY <1>1, StepForward
<1>3. f_ \in Functions /\ TypeOK /\ Intervals /\ Reads /\ Slots
  BY DEF IInv
<1>4. /\ instr \in Instr /\ instr.rands \subseteq Val /\ instr.val \subseteq Val
      /\ \A v \in instr.val : v \notin f_.used_args
  BY <1>2, PointNumbers, DefinedOnce DEF Instr
<1>5. \A p \in Behind : At(p).val \cap instr.val = {}
  BY <1>2, DefinedOnce DEF Behind
<1>6. /\ f_' \in Functions /\ Numbering' /\ DominatorsFirst' /\ Phase' /\ instr_counter' \in Nat
  BY <1>1, StepPhase
<1>7. /\ srcloc \in Point
      /\ srcloc[1] = bbcounter /\ srcloc[2] = instr_counter + 1
      /\ bbcounter \in Nat \ {0} /\ instr_counter \in Nat
  BY <1>2, <1>3, PointNumbers DEF srcloc, Point, TypeOK
<1>8. /\ DOMAIN val2interval \subseteq Val
      /\ \A v \in DOMAIN val2interval : /\ val2interval[v] \in [start : Point, end : Point]
                                        /\ val2interval[v].start \in Point
                                        /\ val2interval[v].end \in Point
  BY <1>3 DEF TypeOK
<1>9. DOMAIN val2interval' = DOMAIN val2interval \cup instr.val
  BY <1>1 DEF Extended, Opened
\* An interval that is there keeps its start, and ends at the same point or here.
<1>10. \A v \in DOMAIN val2interval :
         /\ val2interval'[v] \in [start : Point, end : Point]
         /\ val2interval'[v].start = val2interval[v].start
         /\ \/ v \notin instr.rands /\ val2interval'[v].end = val2interval[v].end
            \/ v \in instr.rands /\ val2interval'[v].end = srcloc
  <2>1. TAKE v \in DOMAIN val2interval
  <2>2. Opened[v] = val2interval[v] /\ v \in DOMAIN Opened
    BY DEF Opened
  <2>3. val2interval'[v] = IF v \in instr.rands THEN [val2interval[v] EXCEPT !.end = srcloc]
                           ELSE val2interval[v]
    BY <1>1, <2>2 DEF Extended
  <2> QED BY <1>7, <1>8, <2>3
\* The others start and end here.
<1>11. \A v \in instr.val \ DOMAIN val2interval :
         /\ val2interval'[v] \in [start : Point, end : Point]
         /\ val2interval'[v].start = srcloc
         /\ val2interval'[v].end = srcloc
  <2>1. TAKE v \in instr.val \ DOMAIN val2interval
  <2>2. Opened[v] = [start |-> srcloc, end |-> srcloc] /\ v \in DOMAIN Opened
    BY DEF Opened
  <2>3. val2interval'[v] = IF v \in instr.rands THEN [Opened[v] EXCEPT !.end = srcloc]
                           ELSE Opened[v]
    BY <1>1, <2>2 DEF Extended
  <2> QED BY <1>7, <2>2, <2>3
<1>12. \A v \in instr.val : v \notin DOMAIN val2interval
  BY <1>3, <1>4, <1>5 DEF Intervals
<1>13. TypeOK'
  <2>1. val2interval' \in [DOMAIN val2interval' -> [start : Point, end : Point]]
    <3>1. \A v \in DOMAIN val2interval' : val2interval'[v] \in [start : Point, end : Point]
      BY <1>9, <1>10, <1>11
    <3>2. val2interval' = [v \in DOMAIN val2interval' |-> val2interval'[v]]
      BY <1>1 DEF Extended
    <3> QED BY <3>1, <3>2, Zenon
  <2>2. Point' = Point /\ DOMAIN val2interval' \subseteq Val
    BY <1>2, <1>4, <1>8, <1>9 DEF Point
  <2> QED BY <1>1, <1>2, <1>3, <1>6, <2>1, <2>2 DEF TypeOK, order

<1>14. Intervals'
  <2>1. ASSUME NEW v \in DOMAIN val2interval'
        PROVE  /\ v \in f_.used_args \/ \E p \in Behind' : ~At(p).alloca /\ v \in At(p).val
               /\ ~Before(srcloc, val2interval'[v].end)
    <3>1. CASE v \in instr.val
      <4>1. ~Before(srcloc, val2interval'[v].end)
        BY <1>7, <1>11, <1>12, <3>1 DEF Before
      <4> QED BY <1>1, <1>2, <3>1, <4>1
    <3>2. CASE v \in DOMAIN val2interval
      <4>1. /\ ~Before(Here, val2interval[v].end)
            /\ v \in f_.used_args \/ \E p \in Behind : ~At(p).alloca /\ v \in At(p).val
        BY <1>3, <3>2 DEF Intervals
      <4>2. val2interval[v].end[1] \in Nat /\ val2interval[v].end[2] \in Nat
        BY <1>3, <1>8, <3>2, Function DEF Point, NumBlocks
      <4>3. ~Before(srcloc, val2interval[v].end) /\ ~Before(srcloc, srcloc)
        BY <1>7, <4>1, <4>2 DEF Before, Here
      <4>4. ~Before(srcloc, val2interval'[v].end)
        BY <1>10, <3>2, <4>3
      <4> QED BY <1>2, <4>1, <4>4
    <3> QED BY <1>9, <3>1, <3>2
  <2>2. \A v \in f_.used_args : v \in DOMAIN val2interval' /\ val2interval'[v].start = <<0, 0>>
    BY <1>3, <1>9, <1>10 DEF Intervals
  <2>3. ASSUME NEW p \in Behind', ~At(p).alloca, NEW v \in At(p).val
        PROVE  v \in DOMAIN val2interval' /\ val2interval'[v].start = p
    <3>1. CASE p \in Behind
      BY <1>3, <1>9, <1>10, <2>3, <3>1 DEF Intervals
    <3>2. CASE p = srcloc
      <4>1. v \in instr.val
        BY <1>2, <2>3, <3>2
      <4> QED BY <1>9, <1>11, <1>12, <3>2, <4>1
    <3> QED BY <1>2, <3>1, <3>2
  <2> QED BY <1>2, <2>1, <2>2, <2>3 DEF Intervals
<1>15. Reads'
  <2>1. ASSUME NEW p \in Behind, NEW v \in At(p).rands
        PROVE  /\ v \in DOMAIN val2interval' \cup DOMAIN stack_mappings
               /\ v \in DOMAIN val2interval' => Inside(p, val2interval'[v])
    <3>1. /\ v \in DOMAIN val2interval \cup DOMAIN stack_mappings
          /\ v \in DOMAIN val2interval => Inside(p, val2interval[v])
      BY <1>3 DEF Reads
    <3>2. CASE v \in DOMAIN val2interval
      <4>1. Before(p, srcloc) /\ p[1] \in Nat /\ p[2] \in Nat
        BY <1>2, PointNumbers DEF Behind
      <4>2. ~Before(srcloc, p)
        BY <1>7, <4>1 DEF Before
      <4> QED BY <1>9, <1>10, <3>1, <3>2, <4>2 DEF Inside
    \* An alloca, which the instruction does not define again.
    <3>3. CASE v \notin DOMAIN val2interval
      <4>1. PICK q \in Behind : v \in At(q).val
        BY <1>3, <3>1, <3>3 DEF Slots
      <4> QED BY <1>5, <1>9, <3>1, <3>3, <4>1
    <3> QED BY <3>2, <3>3
  <2>2. ASSUME NEW v \in instr.rands
        PROVE  /\ v \in DOMAIN val2interval' \cup DOMAIN stack_mappings
               /\ v \in DOMAIN val2interval' => Inside(srcloc, val2interval'[v])
    <3>1. CASE v \in f_.used_args
      <4>1. v \in DOMAIN val2interval /\ val2interval[v].start = <<0, 0>>
        BY <1>3, <3>1 DEF Intervals
      <4> QED BY <1>7, <1>9, <1>10, <4>1 DEF Inside, Before
    <3>2. ASSUME NEW p \in Behind, v \in At(p).val
          PROVE  /\ v \in DOMAIN val2interval' \cup DOMAIN stack_mappings
                 /\ v \in DOMAIN val2interval' => Inside(srcloc, val2interval'[v])
      <4>1. Before(p, srcloc) /\ v \notin instr.val
        BY <1>2, <1>5, <3>2
      <4>2. CASE At(p).alloca
        <5>1. v \in DOMAIN stack_mappings
          BY <1>3, <3>2, <4>2 DEF Slots
        \* It has no interval: its one definition is an alloca, and no parameter.
        <5>2. v \notin DOMAIN val2interval
          BY <1>3, <3>2, <4>2, DefinedOnce DEF Intervals, Behind
        <5> QED BY <1>9, <4>1, <5>1, <5>2
      <4>3. CASE ~At(p).alloca
        <5>1. v \in DOMAIN val2interval /\ val2interval[v].start = p
          BY <1>3, <3>2, <4>3 DEF Intervals
        <5> QED BY <1>7, <1>9, <1>10, <4>1, <5>1 DEF Inside, Before
      <4> QED BY <4>2, <4>3
    <3> QED BY <1>1, <3>1, <3>2, DefinedBehind
  <2> QED BY <1>1, <1>2, <2>1, <2>2 DEF Reads, Inside
<1>16. Slots'
  BY <1>1, <1>2, <1>3 DEF Slots
<1> QED BY <1>3, <1>6, <1>13, <1>14, <1>15, <1>16 DEF IInv

\* When the last block ends, all points are behind.
LEMMA FinishInv == ASSUME IInv, Finish PROVE IInv'

<1>1. /\ pc = "scan" /\ instr_counter = Len(f_.code[int2bb[bbcounter]])
      /\ \A n \in DOMAIN int2bb : n <= bbcounter
      /\ pc' = "done"
      /\ UNCHANGED <<f_, order, bbcounter, instr_counter, val2interval, stack_mappings, stack_size>>
  BY DEF Finish
<1>2. UNCHANGED <<f_, stack, visited, c, int2bb, bbcounter, instr_counter>>
  BY <1>1 DEF order
<1>3. f_ \in Functions /\ TypeOK /\ Phase /\ Intervals /\ Reads /\ Slots
  BY DEF IInv
<1>4. Points' = Points /\ Behind' = Behind /\ Here' = Here /\ Header' = Header /\ \A p : At(p)' = At(p)
  BY <1>2, SameScan
<1>5. Behind = Points
  <2>1. ASSUME NEW p \in Points PROVE ~Before(Here, p)
    <3>1. /\ p[1] \in DOMAIN int2bb /\ p[2] \in DOMAIN f_.code[int2bb[p[1]]]
          /\ p[1] \in Nat /\ p[2] \in Nat /\ bbcounter \in Nat /\ instr_counter \in Nat
      BY PointPairs, PointNumbers
    <3>2. p[1] <= bbcounter /\ p[2] <= Len(f_.code[int2bb[p[1]]])
      BY <1>1, <3>1, PointNumbers
    <3>3. p[1] = bbcounter => p[2] <= instr_counter
      BY <1>1, <3>2
    <3> QED BY <3>1, <3>2, <3>3 DEF Before, Here
  <2> QED BY <2>1 DEF Behind
<1>6. Numbering' /\ DominatorsFirst'
  BY <1>1, OrderKept
<1>7. TypeOK'
  BY <1>1, <1>2, <1>3 DEF TypeOK, Point
<1>8. Phase'
  BY <1>1, <1>2, <1>3, <1>4, <1>5 DEF Phase
<1>9. Intervals' /\ Reads' /\ Slots'
  BY <1>1, <1>3, <1>4 DEF Intervals, Reads, Slots, Inside
<1> QED BY <1>2, <1>3, <1>6, <1>7, <1>8, <1>9 DEF IInv

LEMMA StutterInv == ASSUME IInv, UNCHANGED vars PROVE IInv'
<1>1. /\ UNCHANGED <<f_, pc, order, bbcounter, instr_counter, val2interval, stack_mappings, stack_size>>
      /\ UNCHANGED <<stack, visited, c, int2bb>>
  BY DEF vars, order
<1>2. f_ \in Functions /\ TypeOK /\ Phase /\ Intervals /\ Reads /\ Slots
  BY DEF IInv
<1>3. Points' = Points /\ Behind' = Behind /\ Here' = Here /\ Header' = Header /\ \A p : At(p)' = At(p)
  BY <1>1, SameScan
<1>4. Numbering' /\ DominatorsFirst'
  BY <1>1, OrderKept
<1>5. TypeOK'
  BY <1>1, <1>2 DEF TypeOK, Point
<1>6. Phase'
  BY <1>1, <1>2, <1>3 DEF Phase
<1>7. Intervals' /\ Reads' /\ Slots'
  BY <1>1, <1>2, <1>3 DEF Intervals, Reads, Slots, Inside
<1> QED BY <1>1, <1>2, <1>4, <1>5, <1>6, <1>7 DEF IInv

LEMMA Invariance == Spec => []IInv
<1>1. IInv /\ [Next]_vars => IInv'
  BY DescendInv, NumberInv, NextBlockInv, AllocaInv, InstructionInv, FinishInv, StutterInv DEF Next
<1> QED BY <1>1, InitInv, PTL DEF Spec
-----------------------------------------------------------------------------
\* The types; in particular c never goes below 0, for dfs numbers no more blocks
\* than the function has (regalloc.cpp:77-89).
THEOREM TypesCorrect == Spec => []TypeOK
<1>1. IInv => TypeOK
  BY DEF IInv
<1> QED BY <1>1, Invariance, PTL

\* No read of a reached block was passed over as unknown, and each one lies in the
\* interval init_func gives its value (regalloc.cpp:131-141): the order of dfs
\* puts a definition before all that it dominates.
THEOREM ReadsAreInside == Spec => []ReadsInside
<1>1. IInv => ReadsInside
  BY DEF IInv, Phase, Reads, ReadsInside
<1> QED BY <1>1, Invariance, PTL

\* The slot of an alloca is the one its only definition was given.
LEMMA SlotsFollow == ASSUME IInv PROVE SlotsDisjoint
<1>1. /\ TypeOK /\ Slots /\ stack_size \in Nat /\ Header \in Nat
  BY Function DEF IInv, TypeOK
<1>2. ASSUME NEW a \in DOMAIN stack_mappings
      PROVE  \E p \in Behind : /\ At(p).alloca /\ a \in At(p).val /\ At(p).size \in Nat
                               /\ Bytes(a) = stack_mappings[a]..(stack_mappings[a] + At(p).size - 1)
  <2>1. PICK p \in Behind : At(p).alloca /\ a \in At(p).val
    BY <1>1 DEF Slots
  <2>2. p \in Points /\ At(p).size \in Nat
    BY PointNumbers DEF Behind, Instr
  <2>3. InCode(a) = {p}
    BY <2>1, <2>2, DefinedOnce DEF InCode
  <2>4. (CHOOSE q \in InCode(a) : TRUE) = p
    BY <2>3
  <2>5. Bytes(a) = stack_mappings[a]..(stack_mappings[a] + At(p).size - 1)
    BY <2>4, Zenon DEF Bytes
  <2> QED BY <2>1, <2>2, <2>5
<1>3. ASSUME NEW a \in DOMAIN stack_mappings
      PROVE  Bytes(a) \subseteq (-stack_size)..(-1 - Header)
  <2>1. PICK p \in Behind : /\ At(p).alloca /\ a \in At(p).val /\ At(p).size \in Nat
                            /\ Bytes(a) = stack_mappings[a]..(stack_mappings[a] + At(p).size - 1)
    BY <1>2
  <2>2. /\ stack_mappings[a] \in Int /\ stack_mappings[a] >= -stack_size
        /\ stack_mappings[a] + At(p).size <= -Header
    BY <1>1, <2>1 DEF Slots, TypeOK
  <2> QED BY <1>1, <2>1, <2>2
<1>4. ASSUME NEW a \in DOMAIN stack_mappings, NEW b \in DOMAIN stack_mappings \ {a}
      PROVE  Bytes(a) \cap Bytes(b) = {}
  <2>1. PICK p \in Behind : /\ At(p).alloca /\ a \in At(p).val /\ At(p).size \in Nat
                            /\ Bytes(a) = stack_mappings[a]..(stack_mappings[a] + At(p).size - 1)
    BY <1>2
  <2>2. PICK q \in Behind : /\ At(q).alloca /\ b \in At(q).val /\ At(q).size \in Nat
                            /\ Bytes(b) = stack_mappings[b]..(stack_mappings[b] + At(q).size - 1)
    BY <1>2
  <2>3. p # q
    BY <2>1, <2>2, DefinedOnce DEF Behind
  <2>4. \/ stack_mappings[a] + At(p).size <= stack_mappings[b]
        \/ stack_mappings[b] + At(q).size <= stack_mappings[a]
    BY <1>1, <2>1, <2>2, <2>3 DEF Slots
  <2>5. stack_mappings[a] \in Int /\ stack_mappings[b] \in Int
    BY <1>1 DEF TypeOK
  <2> QED BY <2>1, <2>2, <2>4, <2>5
<1> QED BY <1>3, <1>4 DEF SlotsDisjoint

\* The slots of allocas, whatever their sizes, share no byte with each other, with
\* the saved s0 and ra or with what lies outside the frame (regalloc.cpp:126).
THEOREM SlotsAreDisjoint == Spec => []SlotsDisjoint
BY SlotsFollow, Invariance, PTL

-----------------------------------------------------------------------------
(***************************************************************************)
(* Liveness from paths and intervals from the order of the blocks: what    *)
(* lies in every closed set is in two particular ones.                     *)
(***************************************************************************)

\* The blocks that are live at their entry are themselves closed.
LEMMA LiveInClosed ==
  ASSUME NEW v
  PROVE  Closed(v, LiveIn(v)) /\ LiveIn(v) \subseteq Block
<1> SUFFICES ASSUME NEW b \in Block, NEW X \in SUBSET Block, Closed(v, X),
                    ReadFrom(v, b, 1) \/ (Leaves(v, b, 1) /\ SuccOf(f_, b) \cap LiveIn(v) # {})
             PROVE  b \in X
  BY Zenon DEF Closed, LiveIn
<1>1. LiveIn(v) \subseteq X
  BY DEF LiveIn
<1> QED BY <1>1 DEF Closed

\* A value that is no parameter is read after its definition in the same block,
\* or in a block that the one of its definition dominates.
LEMMA ReadAfter ==
  ASSUME f_ \in Functions, NEW v, v \notin f_.used_args,
         NEW d \in Blocks(f_), NEW h \in DOMAIN f_.code[d], v \in DefsAt(f_, d, h),
         NEW b \in Blocks(f_), NEW j \in DOMAIN f_.code[b], v \in ReadsAt(f_, b, j)
  PROVE  (b = d /\ h < j) \/ (b # d /\ b \notin ReachedAround(f_, d))
<1>1. OneDefinition(f_) /\ ReadsAvailable(f_) /\ f_.code[b] \in Seq(Instr)
  BY Function DEF IsFunction
<1>2. Available(f_, v, b, j)
  BY <1>1 DEF ReadsAvailable
<1>3. ASSUME NEW e \in Blocks(f_), NEW k \in DOMAIN f_.code[e], v \in DefsAt(f_, e, k)
      PROVE  e = d /\ k = h
  BY <1>1, <1>3 DEF OneDefinition
<1>4. ASSUME NEW k \in 1..(j - 1), v \in DefsAt(f_, b, k) PROVE b = d /\ h < j
  <2>1. k \in DOMAIN f_.code[b] /\ k < j
    BY <1>1
  <2> QED BY <1>3, <1>4, <2>1
<1>5. ASSUME NEW e \in Blocks(f_), StrictlyDominates(f_, e, b),
             NEW k \in DOMAIN f_.code[e], v \in DefsAt(f_, e, k)
      PROVE  b # d /\ b \notin ReachedAround(f_, d)
  BY <1>3, <1>5, Function, ReachedIsAround DEF StrictlyDominates
<1> QED BY <1>2, <1>4, <1>5 DEF Available

\* Nothing but what d dominates can be live of what is defined in d.
LEMMA LiveBelow ==
  ASSUME f_ \in Functions, NEW v, v \notin f_.used_args,
         NEW d \in Blocks(f_), NEW h \in DOMAIN f_.code[d], v \in DefsAt(f_, d, h)
  PROVE  LiveIn(v) \cap (ReachedAround(f_, d) \cup {d}) = {}
<1> DEFINE Y == Block \ (ReachedAround(f_, d) \cup {d})
<1>1. /\ IsFunction(f_) /\ Blocks(f_) \subseteq Block
      /\ Around(f_, d, ReachedAround(f_, d))
      /\ \A b \in Blocks(f_) : f_.code[b] \in Seq(Instr)
  BY Function, ReachedIsAround DEF IsFunction
<1>2. ASSUME NEW b \in Block, ReadFrom(v, b, 1) PROVE b \in Y
  <2>1. PICK j \in 1..Len(f_.code[b]) : v \in f_.code[b][j].rands /\ ~DefinedIn(v, b, 1, j - 1)
    BY <1>2 DEF ReadFrom
  <2>2. CASE b \in Blocks(f_)
    <3>1. j \in DOMAIN f_.code[b] /\ v \in ReadsAt(f_, b, j)
      BY <1>1, <2>1, <2>2 DEF ReadsAt
    <3>2. ~(b = d /\ h < j)
      <4>1. h \in Nat /\ h >= 1 /\ j \in Nat
        BY <1>1, <2>1, <2>2
      <4> QED BY <2>1, <4>1 DEF DefinedIn, DefsAt
    <3> QED BY <2>2, <3>1, <3>2, ReadAfter
  <2>3. CASE b \notin Blocks(f_)
    BY <2>3, <1>1 DEF Around
  <2> QED BY <2>2, <2>3
<1>3. ASSUME NEW b \in Block, Leaves(v, b, 1), SuccOf(f_, b) \cap Y # {} PROVE b \in Y
  <2>1. b # d
    <3>1. h \in 1..Len(f_.code[d])
      BY <1>1
    <3> QED BY <1>3, <3>1 DEF Leaves, DefinedIn, DefsAt
  <2>2. b \notin ReachedAround(f_, d)
    BY <1>1, <1>3 DEF Around
  <2> QED BY <2>1, <2>2
<1>4. Closed(v, Y) /\ Y \in SUBSET Block
  BY <1>2, <1>3, Zenon DEF Closed
<1>5. LiveIn(v) \subseteq Y
  BY <1>4, Zenon DEF LiveIn
<1> QED BY <1>5

\* Where a value is live it has been defined: its interval has started.
LEMMA StartsBefore ==
  ASSUME IInv, pc = "done", NEW v \in DOMAIN val2interval, NEW p \in Points, LiveBefore(v, p)
  PROVE  Before(val2interval[v].start, p)
<1>1. /\ f_ \in Functions /\ Intervals /\ Behind = Points /\ stack = << >>
      /\ \A m, n \in DOMAIN int2bb : int2bb[m] = int2bb[n] => m = n
  BY DEF IInv, Phase, Numbering
<1>2. /\ p[1] \in DOMAIN int2bb /\ p[1] \in Nat \ {0} /\ p[2] \in Nat \ {0}
      /\ int2bb[p[1]] \in Blocks(f_)
      /\ Len(f_.code[int2bb[p[1]]]) \in Nat
      /\ DOMAIN f_.code[int2bb[p[1]]] = 1..Len(f_.code[int2bb[p[1]]])
  BY PointPairs, PointNumbers
<1>3. CASE v \in f_.used_args
  <2>1. val2interval[v].start = <<0, 0>>
    BY <1>1, <1>3 DEF Intervals
  <2> QED BY <1>2, <2>1 DEF Before
<1>4. CASE v \notin f_.used_args
  <2>1. PICK q \in Points : v \in At(q).val /\ val2interval[v].start = q
    BY <1>1, <1>4 DEF Intervals
  <2> DEFINE b == int2bb[p[1]]
  <2> DEFINE d == int2bb[q[1]]
  <2> DEFINE h == q[2]
  <2>2. /\ q[1] \in DOMAIN int2bb /\ q[1] \in Nat /\ h \in Nat \ {0}
        /\ d \in Blocks(f_) /\ h \in DOMAIN f_.code[d] /\ v \in DefsAt(f_, d, h)
        /\ h \in 1..Len(f_.code[d])
    BY <2>1, PointPairs, PointNumbers DEF At, DefsAt
  <2>3. b = d => q[1] = p[1]
    BY <1>1, <1>2, <2>2
  <2> HIDE DEF b, d, h
  <2>4. Around(f_, d, ReachedAround(f_, d)) /\ ReachedAround(f_, d) \subseteq Blocks(f_)
    BY <1>1, <2>2, Function, ReachedIsAround DEF ReachedAround
  <2>5. b # d /\ b \notin ReachedAround(f_, d) => q[1] < p[1]
    <3>1. HAVE b # d /\ b \notin ReachedAround(f_, d)
    <3>2. PICK m \in DOMAIN int2bb : m <= p[1] /\ int2bb[m] = d
      BY <1>1, <1>2, <2>2, <2>4, <3>1, DominatorBefore DEF b
    <3>3. m = q[1]
      BY <1>1, <2>2, <3>2 DEF d
    <3>4. q[1] # p[1]
      BY <3>1 DEF b, d
    <3> QED BY <1>2, <2>2, <3>2, <3>3, <3>4
  <2>6. b = d /\ h < p[2] => Before(q, p)
    BY <2>3 DEF Before, h
  <2>7. b # d /\ b \notin ReachedAround(f_, d) => Before(q, p)
    BY <2>5 DEF Before
  <2>8. CASE ReadFrom(v, b, p[2])
    <3>1. PICK j \in p[2]..Len(f_.code[b]) : v \in f_.code[b][j].rands /\ ~DefinedIn(v, b, p[2], j - 1)
      BY <2>8 DEF ReadFrom
    <3>2. j \in DOMAIN f_.code[b] /\ b \in Blocks(f_) /\ v \in ReadsAt(f_, b, j)
      BY <1>2, <3>1 DEF ReadsAt, b
    <3>3. b = d /\ h < j => h < p[2]
      BY <1>2, <2>2, <3>1 DEF DefinedIn, DefsAt, b
    <3> QED BY <1>1, <1>4, <2>1, <2>2, <2>6, <2>7, <3>2, <3>3, ReadAfter
  <2>9. CASE Leaves(v, b, p[2]) /\ SuccOf(f_, b) \cap LiveIn(v) # {}
    <3>1. LiveIn(v) \cap (ReachedAround(f_, d) \cup {d}) = {}
      BY <1>1, <1>4, <2>2, LiveBelow
    <3>2. b \notin ReachedAround(f_, d)
      BY <2>4, <2>9, <3>1 DEF Around
    <3>3. b = d => h < p[2]
      BY <1>2, <2>2, <2>9 DEF Leaves, DefinedIn, DefsAt, b
    <3> QED BY <2>1, <2>6, <2>7, <3>2, <3>3
  <2> QED BY <2>8, <2>9 DEF LiveBefore, b
<1> QED BY <1>3, <1>4

\* Where a value that no loop carries is live its interval has not ended: a block
\* where it is live leads to a later one, and at last to a read.
LEMMA EndsAfter ==
  ASSUME IInv, pc = "done", NEW v \in DOMAIN val2interval, ~Carried(v),
         NEW p \in Points, LiveBefore(v, p)
  PROVE  ~Before(val2interval[v].end, p)
<1> DEFINE last == val2interval[v].end
<1>1. /\ f_ \in Functions /\ Reads /\ Behind = Points /\ Numbered = visited
      /\ \A m, n \in DOMAIN int2bb : int2bb[m] = int2bb[n] => m = n
      /\ \A n \in DOMAIN int2bb : SuccOf(f_, int2bb[n]) \subseteq visited
  BY DEF IInv, Phase, Numbering, Open
<1>2. last[1] \in Nat /\ last[2] \in Nat
  <2>1. last \in Point /\ NumBlocks \in Nat
    BY <1>1, Function DEF IInv, TypeOK
  <2> QED BY <2>1 DEF Point, NumBlocks
<1> HIDE DEF last
\* A read in a reached block is no later than the end.
<1>3. ASSUME NEW n \in DOMAIN int2bb, NEW k \in Nat \ {0}, ReadFrom(v, int2bb[n], k)
      PROVE  ~Before(last, <<n, k>>)
  <2>1. PICK j \in k..Len(f_.code[int2bb[n]]) : v \in f_.code[int2bb[n]][j].rands
    BY <1>3 DEF ReadFrom
  <2>2. n \in Nat /\ j \in Nat /\ j >= k /\ <<n, j>> \in Points
    BY <2>1, PointPairs, PointNumbers
  <2>3. ~Before(last, <<n, j>>)
    BY <1>1, <2>1, <2>2 DEF Reads, Inside, At, last
  <2> QED BY <1>2, <2>2, <2>3 DEF Before
<1>4. Closed(v, LiveIn(v)) /\ LiveIn(v) \subseteq Block
  BY LiveInClosed
\* From a reached block a live one is entered that has a greater number.
<1>5. ASSUME NEW n \in DOMAIN int2bb, NEW s \in SuccOf(f_, int2bb[n]) \cap LiveIn(v)
      PROVE  \E m \in DOMAIN int2bb : int2bb[m] = s /\ n < m
  <2>1. PICK m \in DOMAIN int2bb : int2bb[m] = s
    BY <1>1, <1>5 DEF Numbered
  <2>2. ~(m <= n)
    BY <1>5, <2>1 DEF Carried
  <2> QED BY <2>1, <2>2, PointNumbers
<1> DEFINE Z == {b \in LiveIn(v) : \A n \in DOMAIN int2bb : int2bb[n] = b => n <= last[1]}
<1>6. Closed(v, Z)
  <2> SUFFICES ASSUME NEW b \in Block,
                      ReadFrom(v, b, 1) \/ (Leaves(v, b, 1) /\ SuccOf(f_, b) \cap Z # {}),
                      NEW n \in DOMAIN int2bb, int2bb[n] = b
               PROVE  n <= last[1]
    <3>1. ASSUME NEW b \in Block,
                 ReadFrom(v, b, 1) \/ (Leaves(v, b, 1) /\ SuccOf(f_, b) \cap Z # {})
          PROVE  b \in LiveIn(v)
      <4>1. SuccOf(f_, b) \cap Z \subseteq SuccOf(f_, b) \cap LiveIn(v)
        OBVIOUS
      <4> QED BY <1>4, <3>1, <4>1 DEF Closed
    <3> QED BY <3>1, Zenon DEF Closed
  <2>1. n \in Nat
    BY PointNumbers
  <2>2. CASE ReadFrom(v, b, 1)
    <3>1. ~Before(last, <<n, 1>>)
      BY <1>3, <2>2
    <3> QED BY <1>2, <2>1, <3>1 DEF Before
  <2>3. CASE SuccOf(f_, b) \cap Z # {}
    <3>1. PICK s \in SuccOf(f_, b) : s \in Z
      BY <2>3
    <3>2. PICK m \in DOMAIN int2bb : int2bb[m] = s /\ n < m
      BY <1>5, <3>1
    <3> QED BY <1>2, <2>1, <3>1, <3>2, PointNumbers
  <2> QED BY <2>2, <2>3
<1>7. LiveIn(v) \subseteq Z
  <2>1. Z \in SUBSET Block
    BY <1>4
  <2> QED BY <1>6, <2>1, Zenon DEF LiveIn
<1>8. p = <<p[1], p[2]>> /\ p[1] \in DOMAIN int2bb /\ p[1] \in Nat /\ p[2] \in Nat \ {0}
  BY PointPairs, PointNumbers
<1>9. CASE ReadFrom(v, int2bb[p[1]], p[2])
  BY <1>3, <1>8, <1>9 DEF last
<1>10. CASE SuccOf(f_, int2bb[p[1]]) \cap LiveIn(v) # {}
  <2>1. PICK m \in DOMAIN int2bb : int2bb[m] \in LiveIn(v) /\ p[1] < m
    BY <1>5, <1>8, <1>10
  <2>2. m <= last[1] /\ m \in Nat
    BY <1>7, <2>1, PointNumbers
  <2>3. ~Before(last, p)
    BY <1>2, <1>8, <2>1, <2>2 DEF Before
  <2> QED BY <2>3 DEF last
<1> QED BY <1>9, <1>10 DEF LiveBefore

\* An interval contains every point at which its value is live, as long as no loop
\* carries the value (regalloc.cpp:118-141): init_func looks at no path, and the
\* order of the blocks makes up for it.
THEOREM IntervalsCoverLiveness == Spec => []CoveredUnlessCarried
<1>1. IInv => CoveredUnlessCarried
  BY StartsBefore, EndsAfter DEF CoveredUnlessCarried, Covered, Inside
<1> QED BY <1>1, Invariance, PTL

=============================================================================
