--------------------------- MODULE Dominators_proofs ---------------------------
(***************************************************************************)
(* Theorems about Dominators, for every function whose blocks are all      *)
(* reachable: the types, ParentsAbove, the asserts of the code, and that   *)
(* the immediate dominators, the frontiers and the tree are the right      *)
(* ones.                                                                   *)
(***************************************************************************)
EXTENDS Dominators, LightIR_proofs, SequenceTheorems, WellFoundedInduction, TLAPS

Open     == {stack[a] : a \in DOMAIN stack}
Finished == {order[a] : a \in DOMAIN order}

\* The depth-first search: a block is open, finished or not yet visited, and the
\* finished ones are numbered in the order in which they were finished.
DfsOK ==
  /\ stack \in Seq(Bbs)
  /\ order \in Seq(Bbs)
  /\ \A a, b \in DOMAIN stack : stack[a] = stack[b] => a = b
  /\ visited = Open \cup Finished
  /\ Open \cap Finished = {}
  /\ stack # << >> => stack[1] = root
  /\ stack = << >> => order # << >> /\ order[Len(order)] = root
  /\ DOMAIN post_order_id_ = Finished
  /\ \A a \in DOMAIN order : post_order_id_[order[a]] = a - 1

\* Every open block but the root was entered from the one below it, and every
\* finished one from a block that is still open or was finished after it.
Entered ==
  /\ \A a \in DOMAIN stack : a > 1 => stack[a - 1] \in Pre(stack[a])
  /\ \A b \in Finished \ {root} : \E p \in Pre(b) :
       p \in Open \/ (p \in Finished /\ post_order_id_[p] > post_order_id_[b])

\* A finished block has no successor that was not visited.
NoneLeft == \A b \in Finished : Succ(b) \subseteq visited

HasIdom(b) == idom_[b] # NoBlock

IdomOK ==
  /\ pc = "visit" => i = 0 /\ \A b \in Block : ~HasIdom(b)
  /\ pc # "visit" =>
       /\ stack = << >>
       /\ Finished = Bbs
       /\ idom_[root] = root
       /\ \A b \in Block : HasIdom(b) =>
            b \in Bbs /\ idom_[b] \in Bbs /\ HasIdom(idom_[b])
       /\ \A a \in 1..i : HasIdom(order[Len(order) + 1 - a])
  /\ pc \in {"frontier", "walk", "done"} => i = Len(order)

\* While the blocks are intersected one of them, or of those to come, has a
\* greater number than the block whose idom is computed: at first the block from
\* which that one was entered.
Rising ==
  \/ post_order_id_[b1] > post_order_id_[BB]
  \/ post_order_id_[b2] > post_order_id_[BB]
  \/ \E m \in (met + 1)..Len(f.pre[BB]) :
       Meets(f.pre[BB][m]) /\ post_order_id_[f.pre[BB][m]] > post_order_id_[BB]

MeetOK ==
  pc = "meet" =>
    /\ i < Len(order)
    /\ BB # root
    /\ b1 \in Bbs /\ HasIdom(b1)
    /\ b2 \in Bbs /\ HasIdom(b2)
    /\ met \in 0..Len(f.pre[BB])
    /\ Rising

WalkOK == pc = "walk" => runner \in Bbs /\ bb_at <= Len(f.bbs)

IInv ==
  /\ f \in Functions
  /\ TypeOK
  /\ DfsOK
  /\ Entered
  /\ NoneLeft
  /\ IdomOK
  /\ ParentsAbove
  /\ MeetOK
  /\ WalkOK
-----------------------------------------------------------------------------
\* A step that keeps the function keeps all that is read from it.
LEMMA SameCode ==
  ASSUME f' = f
  PROVE  root' = root /\ Bbs' = Bbs /\ \A b : Succ(b)' = Succ(b) /\ Pre(b)' = Pre(b)
<1>1. root' = root
  BY DEF root
<1>2. Bbs' = Bbs
  BY Zenon DEF Bbs
<1>3. \A b : Succ(b)' = Succ(b)
  BY Zenon DEF Succ
<1>4. \A b : Pre(b)' = Pre(b)
  BY Zenon DEF Pre
<1> QED BY <1>1, <1>2, <1>3, <1>4

\* What IsFunction says of the function, by the names of the model.
LEMMA Code ==
  ASSUME f \in Functions
  PROVE  /\ f.bbs \in Seq(Block) /\ f.bbs # << >>
         /\ \A b \in Block : f.succ[b] \in Seq(Block) /\ f.pre[b] \in Seq(Block)
         /\ root \in Bbs
         /\ Bbs \subseteq Block
         /\ \A b \in Bbs : Succ(b) \subseteq Bbs /\ Pre(b) \subseteq Bbs
         /\ \A b, c \in Bbs : c \in Succ(b) <=> b \in Pre(c)
         /\ \A X \in SUBSET Bbs :
              root \in X /\ (\A b \in X : Succ(b) \subseteq X) => X = Bbs
<1>1. IsFunction(f)
  BY FunctionsAssumption
<1>2. f.bbs \in Seq(Block) /\ f.bbs # << >>
  BY <1>1, Zenon DEF IsFunction
<1>3. \A b \in Block : f.succ[b] \in Seq(Block) /\ f.pre[b] \in Seq(Block)
  BY <1>1 DEF IsFunction
<1>4. root \in Bbs /\ Bbs \subseteq Block
  BY <1>2 DEF root, Bbs
<1>5. \A b \in Bbs : Succ(b) \subseteq Bbs /\ Pre(b) \subseteq Bbs
  BY <1>1, Zenon DEF IsFunction, Succ, Pre, Bbs
<1>6. \A b, c \in Bbs : c \in Succ(b) <=> b \in Pre(c)
  BY <1>1, Zenon DEF IsFunction, Succ, Pre, Bbs
<1>7. \A X \in SUBSET Bbs : root \in X /\ (\A b \in X : Succ(b) \subseteq X) => X = Bbs
  BY <1>1, Zenon DEF IsFunction, Succ, Bbs, root
<1> QED BY <1>2, <1>3, <1>4, <1>5, <1>6, <1>7

\* Once the search is over every block has a number of its own and the root the
\* greatest.
LEMMA Numbers ==
  ASSUME IInv, pc # "visit"
  PROVE  /\ Len(order) \in Nat \ {0}
         /\ \A b \in Bbs : /\ post_order_id_[b] \in 0..(Len(order) - 1)
                           /\ order[post_order_id_[b] + 1] = b
         /\ post_order_id_[root] = Len(order) - 1
         /\ \A a \in 1..Len(order) : order[a] \in Bbs
         /\ \A a \in 1..Len(order) : post_order_id_[order[a]] = a - 1
<1>1. order \in Seq(Bbs) /\ order # << >> /\ order[Len(order)] = root
  BY DEF IInv, DfsOK, IdomOK
<1>2. \A a \in DOMAIN order : post_order_id_[order[a]] = a - 1
  BY DEF IInv, DfsOK
<1>3. Bbs = {order[a] : a \in DOMAIN order}
  BY DEF IInv, IdomOK, Finished
<1>4. Len(order) \in Nat \ {0} /\ DOMAIN order = 1..Len(order)
  BY <1>1
<1>5. \A b \in Bbs : post_order_id_[b] \in 0..(Len(order) - 1)
                     /\ order[post_order_id_[b] + 1] = b
  BY <1>2, <1>3, <1>4
<1>6. \A a \in 1..Len(order) : order[a] \in Bbs
  BY <1>1
<1>7. post_order_id_[root] = Len(order) - 1
  BY <1>1, <1>2, <1>4
<1> QED BY <1>2, <1>4, <1>5, <1>6, <1>7

\* The block the pass is at.
LEMMA Current ==
  ASSUME IInv, pc # "visit", i < Len(order)
  PROVE  /\ BB \in Bbs
         /\ BB = order[Len(order) + 1 - (i + 1)]
         /\ post_order_id_[BB] = Len(order) - i - 1
         /\ i \in Nat
         /\ f.pre[BB] \in Seq(Block)
         /\ \A m \in DOMAIN f.pre[BB] : f.pre[BB][m] \in Bbs
<1>1. i \in 0..Len(order)
  BY DEF IInv, TypeOK
<1>2. Len(order) - i \in 1..Len(order) /\ i \in Nat
  BY <1>1, Numbers
<1>3. BB \in Bbs /\ post_order_id_[BB] = Len(order) - i - 1
  BY <1>2, Numbers DEF BB
<1>4. Len(order) - i = Len(order) + 1 - (i + 1)
  BY <1>2
<1>5. f \in Functions
  BY DEF IInv
<1>6. f.pre[BB] \in Seq(Block)
  BY <1>3, <1>5, Code
<1>7. \A m \in DOMAIN f.pre[BB] : f.pre[BB][m] \in Bbs
  BY <1>3, <1>5, Code DEF Pre
<1> QED BY <1>2, <1>3, <1>4, <1>6, <1>7 DEF BB

\* Every block with a greater number than the current one has an idom.
LEMMA Earlier ==
  ASSUME IInv, pc # "visit", NEW b \in Bbs, post_order_id_[b] > Len(order) - i - 1
  PROVE  HasIdom(b)
<1>1. i \in 0..Len(order)
  BY DEF IInv, TypeOK
<1> DEFINE a == Len(order) - post_order_id_[b]
<1>2. a \in 1..i /\ Len(order) + 1 - a = post_order_id_[b] + 1
  BY <1>1, Numbers
<1>3. HasIdom(order[Len(order) + 1 - a])
  BY <1>2 DEF IInv, IdomOK
<1> QED BY <1>2, <1>3, Numbers
-----------------------------------------------------------------------------
\* The part of the invariant about the search, which only the search disturbs.
Search == f \in Functions /\ DfsOK /\ Entered /\ NoneLeft

LEMMA SearchKept ==
  ASSUME Search, UNCHANGED <<f, dfs>>
  PROVE  Search'
<1>1. /\ f' = f /\ stack' = stack /\ visited' = visited /\ order' = order
      /\ post_order_id_' = post_order_id_
  BY DEF dfs
<1>2. root' = root /\ Bbs' = Bbs /\ \A b : Succ(b)' = Succ(b) /\ Pre(b)' = Pre(b)
  BY <1>1, SameCode
<1>3. Open' = Open /\ Finished' = Finished
  BY <1>1, Zenon DEF Open, Finished
<1>4. DfsOK'
  BY <1>1, <1>2, <1>3 DEF Search, DfsOK
<1>5. Entered'
  BY <1>1, <1>2, <1>3, Zenon DEF Search, Entered
<1>6. NoneLeft'
  BY <1>1, <1>2, <1>3, Zenon DEF Search, NoneLeft
<1> QED BY <1>1, <1>4, <1>5, <1>6 DEF Search

\* The block on top of the stack.
LEMMA TopFacts ==
  ASSUME Search, stack # << >>
  PROVE  /\ Len(stack) \in Nat \ {0}
         /\ Top = stack[Len(stack)]
         /\ Top \in Bbs /\ Top \in Open /\ Top \notin Finished
         /\ \A a \in 1..(Len(stack) - 1) : stack[a] \in Bbs /\ stack[a] # Top
         /\ stack[1] = root
         /\ Top \in visited
<1>1. stack \in Seq(Bbs) /\ stack # << >> /\ stack[1] = root
  BY DEF Search, DfsOK
<1>2. Len(stack) \in Nat \ {0} /\ DOMAIN stack = 1..Len(stack)
  BY <1>1
<1>3. Top \in Bbs /\ Top \in Open
  BY <1>1, <1>2 DEF Top, Open
<1>4. Top \notin Finished /\ Top \in visited
  BY <1>3 DEF Search, DfsOK
<1>5. \A a \in 1..(Len(stack) - 1) : stack[a] \in Bbs
  BY <1>1, <1>2
<1>6. \A a \in 1..(Len(stack) - 1) : stack[a] # Top
  BY <1>2 DEF Search, DfsOK, Top
<1> QED BY <1>1, <1>2, <1>3, <1>4, <1>5, <1>6 DEF Top

LEMMA DescendSearch ==
  ASSUME Search, Descend
  PROVE  Search'
<1>1. stack # << >> /\ f' = f /\ order' = order /\ post_order_id_' = post_order_id_
  BY DEF Descend
<1>2. PICK m \in DOMAIN f.succ[Top] :
         /\ f.succ[Top][m] \notin visited
         /\ visited' = visited \cup {f.succ[Top][m]}
         /\ stack' = Append(stack, f.succ[Top][m])
  BY DEF Descend
<1>3. PICK n : n = f.succ[Top][m]
  OBVIOUS
<1>4. n \in Succ(Top)
  BY <1>3 DEF Succ
<1>5. /\ root' = root /\ Bbs' = Bbs /\ \A b : Succ(b)' = Succ(b) /\ Pre(b)' = Pre(b)
  BY <1>1, SameCode
<1>6. f \in Functions /\ Top \in Bbs
  BY <1>1, TopFacts DEF Search
<1>7. n \in Bbs /\ Top \in Pre(n)
  BY <1>4, <1>6, Code
<1>8. stack \in Seq(Bbs) /\ visited = Open \cup Finished
  BY DEF Search, DfsOK
<1>9. /\ stack' = Append(stack, n) /\ visited' = visited \cup {n} /\ n \notin visited
  BY <1>2, <1>3
<1>10. /\ stack' \in Seq(Bbs) /\ Len(stack') = Len(stack) + 1
       /\ DOMAIN stack' = 1..(Len(stack) + 1)
       /\ DOMAIN stack = 1..Len(stack)
       /\ \A a \in 1..Len(stack) : stack'[a] = stack[a]
       /\ stack'[Len(stack) + 1] = n
       /\ Len(stack) \in Nat \ {0}
       /\ stack' # << >>
  BY <1>1, <1>7, <1>8, <1>9
<1>11. Open' = Open \cup {n}
  BY <1>10 DEF Open
<1>12. Finished' = Finished
  BY <1>1, Zenon DEF Finished
<1>13. DfsOK'
  <2>1. \A a, b \in DOMAIN stack' : stack'[a] = stack'[b] => a = b
    <3>1. \A a \in DOMAIN stack : stack[a] \in Open
      BY DEF Open
    <3>2. \A a \in DOMAIN stack : stack[a] # n
      BY <3>1, <1>8, <1>9
    <3>3. \A a, b \in DOMAIN stack : stack[a] = stack[b] => a = b
      BY DEF Search, DfsOK
    <3> QED BY <1>10, <3>2, <3>3
  <2>2. visited' = Open' \cup Finished' /\ Open' \cap Finished' = {}
    BY <1>8, <1>9, <1>11, <1>12 DEF Search, DfsOK
  <2>3. stack'[1] = root'
    BY <1>1, <1>5, <1>10 DEF Search, DfsOK
  <2>4. order' \in Seq(Bbs') /\ DOMAIN post_order_id_' = Finished'
        /\ \A a \in DOMAIN order' : post_order_id_'[order'[a]] = a - 1
    BY <1>1, <1>5, <1>12 DEF Search, DfsOK
  <2> QED BY <1>5, <1>10, <2>1, <2>2, <2>3, <2>4 DEF DfsOK
<1>14. Entered'
  <2>1. \A a \in DOMAIN stack' : a > 1 => stack'[a - 1] \in Pre(stack'[a])
    <3>1. ASSUME NEW a \in DOMAIN stack', a > 1 PROVE stack'[a - 1] \in Pre(stack'[a])
      <4>1. CASE a = Len(stack) + 1
        BY <1>7, <1>10, <4>1 DEF Top
      <4>2. CASE a # Len(stack) + 1
        <5>1. a \in DOMAIN stack /\ a - 1 \in DOMAIN stack
          BY <1>10, <3>1, <4>2
        <5>2. stack[a - 1] \in Pre(stack[a])
          BY <3>1, <5>1 DEF Search, Entered
        <5> QED BY <1>10, <5>1, <5>2
      <4> QED BY <4>1, <4>2
    <3> QED BY <3>1
  <2>2. \A b \in Finished \ {root} : \E p \in Pre(b) :
          p \in Open \/ (p \in Finished /\ post_order_id_[p] > post_order_id_[b])
    BY DEF Search, Entered
  <2>3. \A b \in Finished' \ {root'} : \E p \in Pre(b) :
          p \in Open' \/ (p \in Finished' /\ post_order_id_'[p] > post_order_id_'[b])
    BY <1>1, <1>5, <1>11, <1>12, <2>2, Zenon
  <2> QED BY <1>5, <2>1, <2>3, Zenon DEF Entered
<1>15. NoneLeft'
  BY <1>5, <1>9, <1>12 DEF Search, NoneLeft
<1> QED BY <1>1, <1>13, <1>14, <1>15 DEF Search

LEMMA NumberSearch ==
  ASSUME Search, Number
  PROVE  Search'
<1>1. stack # << >> /\ f' = f /\ visited' = visited /\ Succ(Top) \subseteq visited
  BY DEF Number
<1>2. /\ post_order_id_' = [b \in DOMAIN post_order_id_ \cup {Top} |->
                              IF b = Top THEN Len(order) ELSE post_order_id_[b]]
      /\ order' = Append(order, Top)
      /\ stack' = SubSeq(stack, 1, Len(stack) - 1)
  BY DEF Number, NewId
<1>3. /\ root' = root /\ Bbs' = Bbs /\ \A b : Succ(b)' = Succ(b) /\ Pre(b)' = Pre(b)
  BY <1>1, SameCode
<1>4. PICK t : t = Top
  OBVIOUS
<1>5. /\ Len(stack) \in Nat \ {0}
      /\ t = stack[Len(stack)]
      /\ t \in Bbs /\ t \in Open /\ t \notin Finished
      /\ \A a \in 1..(Len(stack) - 1) : stack[a] \in Bbs /\ stack[a] # t
      /\ stack[1] = root
  BY <1>1, <1>4, TopFacts
<1>6. stack \in Seq(Bbs) /\ order \in Seq(Bbs) /\ visited = Open \cup Finished
  BY DEF Search, DfsOK
<1>7. /\ stack' \in Seq(Bbs) /\ Len(stack') = Len(stack) - 1
      /\ DOMAIN stack' = 1..(Len(stack) - 1)
      /\ DOMAIN stack = 1..Len(stack)
      /\ \A a \in 1..(Len(stack) - 1) : stack'[a] = stack[a]
  <2>1. PICK n : n = Len(stack) - 1
    OBVIOUS
  <2>2. n \in Nat /\ n + 1 = Len(stack) /\ DOMAIN stack = 1..(n + 1)
    <3>1. Len(stack) \in Nat \ {0}
      BY <1>5
    <3> QED BY <1>6, <2>1, <3>1
  <2>3. \A a \in 1..n : stack[a] \in Bbs
    BY <1>5, <2>1
  <2>4. /\ SubSeq(stack, 1, n) \in Seq(Bbs)
        /\ Len(SubSeq(stack, 1, n)) = IF 1 <= n THEN n - 1 + 1 ELSE 0
        /\ \A a \in 1..(n - 1 + 1) : SubSeq(stack, 1, n)[a] = stack[1 + a - 1]
    BY <2>3, <2>2, SubSeqProperties
  <2>5. stack' = SubSeq(stack, 1, n)
    BY <1>2, <2>1
  <2>6. Len(stack') = n /\ n \in Nat /\ \A a \in 1..n : stack'[a] = stack[a]
    BY <2>4, <2>5, <2>2
  <2> QED BY <2>1, <2>4, <2>5, <2>6, <2>2
<1>8. /\ order' \in Seq(Bbs) /\ Len(order') = Len(order) + 1
      /\ DOMAIN order' = 1..(Len(order) + 1)
      /\ DOMAIN order = 1..Len(order)
      /\ \A a \in 1..Len(order) : order'[a] = order[a]
      /\ order'[Len(order) + 1] = t
      /\ Len(order) \in Nat
      /\ order' # << >>
  BY <1>2, <1>4, <1>5, <1>6
<1>9. Open' = Open \ {t}
  BY <1>5, <1>7 DEF Open
<1>10. Finished' = Finished \cup {t}
  BY <1>8 DEF Finished
<1>11. DOMAIN post_order_id_ = Finished
  BY DEF Search, DfsOK
<1>12. /\ DOMAIN post_order_id_' = Finished'
       /\ post_order_id_'[t] = Len(order)
       /\ \A b \in Finished : post_order_id_'[b] = post_order_id_[b]
  BY <1>2, <1>4, <1>5, <1>10, <1>11
<1>13. \A a \in DOMAIN order : order[a] \in Finished /\ post_order_id_[order[a]] = a - 1
  BY DEF Search, DfsOK, Finished
<1>14. DfsOK'
  <2>1. \A a, b \in DOMAIN stack' : stack'[a] = stack'[b] => a = b
    <3>1. \A a, b \in DOMAIN stack : stack[a] = stack[b] => a = b
      BY DEF Search, DfsOK
    <3> QED BY <1>5, <1>7, <3>1
  <2>2. visited' = Open' \cup Finished' /\ Open' \cap Finished' = {}
    BY <1>1, <1>5, <1>6, <1>9, <1>10 DEF Search, DfsOK
  <2>3. stack' # << >> => stack'[1] = root'
    BY <1>3, <1>5, <1>7
  <2>4. stack' = << >> => order' # << >> /\ order'[Len(order')] = root'
    BY <1>3, <1>5, <1>7, <1>8
  <2>5. \A a \in DOMAIN order' : post_order_id_'[order'[a]] = a - 1
    BY <1>8, <1>12, <1>13
  <2> QED BY <1>3, <1>7, <1>8, <1>12, <2>1, <2>2, <2>3, <2>4, <2>5 DEF DfsOK
<1>15. Entered'
  <2>1. \A a \in DOMAIN stack' : a > 1 => stack'[a - 1] \in Pre(stack'[a])
    <3>1. ASSUME NEW a \in DOMAIN stack', a > 1 PROVE stack'[a - 1] \in Pre(stack'[a])
      <4>1. a \in DOMAIN stack /\ a - 1 \in 1..(Len(stack) - 1)
        BY <1>5, <1>7, <3>1
      <4>2. stack[a - 1] \in Pre(stack[a])
        BY <3>1, <4>1 DEF Search, Entered
      <4> QED BY <1>7, <4>1, <4>2
    <3> QED BY <3>1
  <2>2. ASSUME NEW b \in Finished' \ {root}
        PROVE  \E p \in Pre(b) :
                 p \in Open' \/ (p \in Finished' /\ post_order_id_'[p] > post_order_id_'[b])
    <3>1. CASE b = t
      <4>1. Len(stack) > 1 /\ Len(stack) \in DOMAIN stack
        BY <1>5, <1>7, <2>2, <3>1
      <4>2. stack[Len(stack) - 1] \in Pre(t)
        BY <1>5, <4>1 DEF Search, Entered
      <4>3. Len(stack) - 1 \in 1..(Len(stack) - 1)
        BY <1>5, <4>1
      <4>4. stack[Len(stack) - 1] \in Open'
        BY <1>7, <4>3 DEF Open
      <4> QED BY <3>1, <4>2, <4>4
    <3>2. CASE b # t
      <4>1. b \in Finished
        BY <1>10, <2>2, <3>2
      <4>2. PICK p \in Pre(b) :
              p \in Open \/ (p \in Finished /\ post_order_id_[p] > post_order_id_[b])
        BY <2>2, <4>1 DEF Search, Entered
      <4>3. post_order_id_[b] < Len(order) /\ post_order_id_'[b] = post_order_id_[b]
        <5>1. PICK a \in DOMAIN order : b = order[a]
          BY <4>1 DEF Finished
        <5> QED BY <1>8, <1>12, <1>13, <4>1, <5>1
      <4>4. CASE p = t
        BY <1>8, <1>10, <1>12, <4>3, <4>4
      <4>5. CASE p # t /\ p \in Open
        BY <1>9, <4>5
      <4>6. CASE p \in Finished /\ post_order_id_[p] > post_order_id_[b]
        BY <1>10, <1>12, <4>3, <4>6
      <4> QED BY <4>2, <4>4, <4>5, <4>6
    <3> QED BY <3>1, <3>2
  <2>3. \A b \in Finished' \ {root'} : \E p \in Pre(b) :
          p \in Open' \/ (p \in Finished' /\ post_order_id_'[p] > post_order_id_'[b])
    BY <1>3, <2>2
  <2> QED BY <1>3, <2>1, <2>3, Zenon DEF Entered
<1>16. NoneLeft'
  BY <1>1, <1>3, <1>4, <1>10 DEF Search, NoneLeft
<1> QED BY <1>1, <1>14, <1>15, <1>16 DEF Search

\* When no call is left the search has been everywhere.
LEMMA AllFinished ==
  ASSUME Search, stack = << >>
  PROVE  Finished = Bbs
<1>1. Open = {}
  BY DEF Open
<1>2. visited = Finished
  BY <1>1 DEF Search, DfsOK
<1>3. Finished \subseteq Bbs
  BY DEF Search, DfsOK, Finished
<1>4. root \in Finished
  <2>1. order \in Seq(Bbs) /\ order # << >> /\ order[Len(order)] = root
    BY DEF Search, DfsOK
  <2>2. Len(order) \in DOMAIN order
    BY <2>1
  <2> QED BY <2>1, <2>2 DEF Finished
<1>5. \A b \in Finished : Succ(b) \subseteq Finished
  BY <1>2 DEF Search, NoneLeft
<1> QED BY <1>3, <1>4, <1>5, Code DEF Search
-----------------------------------------------------------------------------
LEMMA InitIInv == Init => IInv
<1> SUFFICES ASSUME Init PROVE IInv
  OBVIOUS
<1>1. f \in Functions
  BY DEF Init
<1>2. stack = <<root>> /\ visited = {root} /\ order = << >> /\ root \in Bbs /\ root \in Block
  BY <1>1, Code DEF Init
<1>3. Open = {root} /\ Finished = {}
  BY <1>2 DEF Open, Finished
<1>4. DOMAIN post_order_id_ = {}
  BY DEF Init
<1>5. TypeOK
  <2>1. f.bbs \in Seq(Block)
    BY <1>1, Code
  <2>2. post_order_id_ \in [DOMAIN post_order_id_ -> Nat]
    BY DEF Init
  <2>3. stack \in Seq(Block) /\ order \in Seq(Block) /\ i \in 0..Len(order)
    BY <1>2 DEF Init
  <2>4. bb_at \in 1..(Len(f.bbs) + 1) /\ met \in Nat /\ pre_at \in Nat \ {0}
    BY <2>1 DEF Init
  <2>5. /\ idom_ \in [Block -> Block \cup {NoBlock}]
        /\ dom_frontier_ \in [Block -> SUBSET Block]
        /\ dom_tree_succ_blocks_ \in [Block -> SUBSET Block]
    BY DEF Init
  <2>6. {b1, b2, pred, runner} \subseteq Block \cup {NoBlock} /\ changed \in BOOLEAN
    BY DEF Init
  <2>7. pc \in {"visit", "idom", "meet", "frontier", "walk", "done"}
    BY DEF Init
  <2> QED BY <1>2, <1>4, <2>2, <2>3, <2>4, <2>5, <2>6, <2>7, Zenon DEF TypeOK
<1>6. DfsOK
  BY <1>2, <1>3, <1>4 DEF DfsOK
<1>7. Entered
  BY <1>2, <1>3 DEF Entered
<1>8. NoneLeft
  BY <1>3 DEF NoneLeft
<1>9. IdomOK /\ ParentsAbove
  BY DEF Init, IdomOK, ParentsAbove, HasIdom
<1>10. MeetOK /\ WalkOK
  BY DEF Init, MeetOK, WalkOK
<1> QED BY <1>1, <1>5, <1>6, <1>7, <1>8, <1>9, <1>10 DEF IInv

LEMMA DescendStep ==
  ASSUME IInv, Descend
  PROVE  IInv'
<1>1. Search'
  BY DescendSearch DEF IInv, Search
<1>2. TypeOK'
  <2>1. Top \in Block
    BY TopFacts, Code DEF Descend, IInv, Search
  <2>2. \A m \in DOMAIN f.succ[Top] : f.succ[Top][m] \in Block
    BY <2>1, Code DEF IInv
  <2>3. PICK n \in Block : visited' = visited \cup {n} /\ stack' = Append(stack, n)
    BY <2>2 DEF Descend
  <2> QED BY <2>3 DEF Descend, IInv, TypeOK, meet, walk
<1>3. IdomOK' /\ ParentsAbove'
  BY DEF Descend, IInv, IdomOK, ParentsAbove, HasIdom
<1>4. MeetOK' /\ WalkOK'
  BY DEF Descend, MeetOK, WalkOK
<1> QED BY <1>1, <1>2, <1>3, <1>4 DEF IInv, Search

LEMMA NumberStep ==
  ASSUME IInv, Number
  PROVE  IInv'
<1>1. Search'
  BY NumberSearch DEF IInv, Search
<1>2. TypeOK'
  <2>1. Top \in Block /\ Top \in visited
    BY TopFacts, Code DEF Number, IInv, Search
  <2>2. order \in Seq(Block) /\ i = 0
    BY DEF Number, IInv, TypeOK, IdomOK
  <2>3. order' \in Seq(Block) /\ i' \in 0..Len(order')
    BY <2>1, <2>2 DEF Number
  <2>4. Bbs' = Bbs /\ Bbs \subseteq Block /\ stack' \in Seq(Bbs')
    BY <1>1, SameCode, Code, Zenon DEF Number, IInv, Search, DfsOK
  <2>5. stack' \in Seq(Block)
    BY <2>4
  <2>6. /\ DOMAIN post_order_id_' \subseteq visited'
        /\ post_order_id_' \in [DOMAIN post_order_id_' -> Nat]
    BY <2>1, <2>2 DEF Number, NewId, IInv, TypeOK
  <2> QED BY <2>3, <2>5, <2>6 DEF Number, IInv, TypeOK, meet, walk
<1>3. IdomOK' /\ ParentsAbove'
  BY DEF Number, IInv, IdomOK, ParentsAbove, HasIdom
<1>4. MeetOK' /\ WalkOK'
  BY DEF Number, MeetOK, WalkOK
<1> QED BY <1>1, <1>2, <1>3, <1>4 DEF IInv, Search

LEMMA NumberedStep ==
  ASSUME IInv, Numbered
  PROVE  IInv'
<1>1. Search'
  BY SearchKept DEF Numbered, IInv, Search
<1>2. f \in Functions /\ root \in Bbs /\ Bbs \subseteq Block /\ root' = root /\ Bbs' = Bbs
  BY SameCode, Code DEF Numbered, IInv
<1>3. TypeOK'
  BY <1>2 DEF Numbered, IInv, TypeOK, dfs, meet, walk
<1>4. \A b \in Block : /\ b # root => idom_'[b] = NoBlock
                       /\ b = root => idom_'[b] = root
  BY <1>2 DEF Numbered, IInv, TypeOK, IdomOK, HasIdom
<1>5. IdomOK'
  <2>1. Finished' = Finished
    BY Zenon DEF Numbered, dfs, Finished
  <2>2. Finished = Bbs
    BY AllFinished DEF Numbered, IInv, Search
  <2>3. stack' = << >> /\ i' = 0 /\ pc' = "idom"
    BY DEF Numbered, IInv, IdomOK, dfs
  <2> QED BY <1>2, <1>4, <2>1, <2>2, <2>3, BlockAssumption DEF IdomOK, HasIdom
<1>6. ParentsAbove'
  BY <1>2, <1>4 DEF ParentsAbove
<1>7. MeetOK' /\ WalkOK'
  BY DEF Numbered, MeetOK, WalkOK
<1> QED BY <1>1, <1>3, <1>5, <1>6, <1>7 DEF IInv, Search
-----------------------------------------------------------------------------
\* A step of the iteration that assigns no idom keeps the tree.
LEMMA TreeKept ==
  ASSUME IInv, pc # "visit", UNCHANGED <<f, dfs, idom_, i>>,
         pc' \in {"idom", "meet", "frontier", "walk", "done"},
         pc' \in {"frontier", "walk", "done"} => i = Len(order)
  PROVE  /\ Search' /\ IdomOK' /\ ParentsAbove'
         /\ BB' = BB /\ Bbs' = Bbs /\ root' = root
         /\ \A b : HasIdom(b)' = HasIdom(b)
<1>1. Search'
  BY SearchKept, Zenon DEF IInv, Search
<1>2. Bbs' = Bbs /\ root' = root
  BY SameCode
<1>3. Finished' = Finished
  BY Zenon DEF dfs, Finished
<1>4. BB' = BB
  BY Zenon DEF dfs, BB
<1>5. \A b : HasIdom(b)' = HasIdom(b)
  BY DEF HasIdom
<1>6. IdomOK'
  BY <1>2, <1>3, <1>5 DEF IInv, IdomOK, dfs
<1>7. ParentsAbove'
  BY <1>2 DEF IInv, ParentsAbove, dfs
<1> QED BY <1>1, <1>2, <1>4, <1>5, <1>6, <1>7

LEMMA SkipRootStep ==
  ASSUME IInv, SkipRoot
  PROVE  IInv'
<1>1. Search'
  BY SearchKept DEF SkipRoot, IInv, Search
<1>2. i \in Nat /\ i < Len(order) /\ BB = order[Len(order) + 1 - (i + 1)]
  BY Current DEF SkipRoot
<1>3. TypeOK'
  BY <1>2 DEF SkipRoot, IInv, TypeOK, dfs, meet, walk
<1>4. Bbs' = Bbs /\ root' = root /\ Finished' = Finished
  BY SameCode, Zenon DEF SkipRoot, dfs, Finished
<1>5. IdomOK'
  <2>1. HasIdom(order[Len(order) + 1 - (i + 1)])
    BY <1>2, Code, BlockAssumption DEF SkipRoot, IInv, IdomOK, HasIdom
  <2>2. \A a \in 1..i : HasIdom(order[Len(order) + 1 - a])
    BY DEF SkipRoot, IInv, IdomOK
  <2>3. \A a \in 1..(i + 1) : HasIdom(order[Len(order) + 1 - a])
    BY <1>2, <2>1, <2>2
  <2>4. order' = order /\ idom_' = idom_ /\ i' = i + 1 /\ pc' = "idom" /\ stack' = stack
    BY DEF SkipRoot, dfs
  <2> QED BY <1>4, <2>3, <2>4 DEF SkipRoot, IInv, IdomOK, HasIdom
<1>6. ParentsAbove' /\ MeetOK' /\ WalkOK'
  BY <1>4 DEF SkipRoot, IInv, ParentsAbove, MeetOK, WalkOK, dfs
<1> QED BY <1>1, <1>3, <1>5, <1>6 DEF IInv, Search

\* The block from which the current one was entered has an idom already.
LEMMA EnteredFrom ==
  ASSUME IInv, pc # "visit", i < Len(order), BB # root
  PROVE  \E m \in DOMAIN f.pre[BB] :
           /\ HasIdom(f.pre[BB][m])
           /\ post_order_id_[f.pre[BB][m]] > post_order_id_[BB]
<1>1. BB \in Bbs /\ post_order_id_[BB] = Len(order) - i - 1
  BY Current
<1>2. Finished = Bbs /\ Open = {}
  BY DEF IInv, IdomOK, Open
<1>3. PICK p \in Pre(BB) : p \in Finished /\ post_order_id_[p] > post_order_id_[BB]
  BY <1>1, <1>2 DEF IInv, Entered
<1>4. HasIdom(p)
  BY <1>1, <1>2, <1>3, Earlier
<1> QED BY <1>3, <1>4 DEF Pre

LEMMA StartMeetStep ==
  ASSUME IInv, StartMeet
  PROVE  IInv'
<1>1. PICK p \in Block : IsPred(p) /\ pred' = p /\ b1' = p /\ b2' = p
  BY DEF StartMeet
<1>2. /\ Search' /\ IdomOK' /\ ParentsAbove'
      /\ BB' = BB /\ Bbs' = Bbs /\ root' = root
      /\ \A b : HasIdom(b)' = HasIdom(b)
  BY TreeKept DEF StartMeet
<1>3. i < Len(order) /\ BB # root /\ pc = "idom" /\ pc' = "meet" /\ met' = 0
  BY DEF StartMeet
<1>4. /\ f.pre[BB] \in Seq(Block)
      /\ \A m \in DOMAIN f.pre[BB] : f.pre[BB][m] \in Bbs
  BY <1>3, Current
<1>5. p \in Bbs /\ HasIdom(p)
  BY <1>1, <1>4 DEF IsPred, HasIdom
<1>6. TypeOK'
  BY <1>1 DEF StartMeet, IInv, TypeOK, dfs, walk
<1>7. MeetOK'
  <2>1. PICK m \in DOMAIN f.pre[BB] :
          /\ HasIdom(f.pre[BB][m])
          /\ post_order_id_[f.pre[BB][m]] > post_order_id_[BB]
    BY <1>3, EnteredFrom
  <2>2. f' = f /\ post_order_id_' = post_order_id_ /\ order' = order /\ i' = i /\ idom_' = idom_
    BY DEF StartMeet, dfs
  <2>3. Rising'
    <3>1. CASE f.pre[BB][m] = p
      BY <1>1, <1>2, <2>1, <2>2, <3>1 DEF Rising
    <3>2. CASE f.pre[BB][m] # p
      <4>1. Meets(f.pre[BB][m])'
        BY <1>1, <1>2, <2>1, <2>2, <3>2 DEF Meets, HasIdom
      <4>2. m \in (met' + 1)..Len(f.pre[BB])
        BY <1>3, <1>4
      <4> QED BY <1>2, <2>1, <2>2, <4>1, <4>2, Zenon DEF Rising
    <3> QED BY <3>1, <3>2
  <2>4. met' \in 0..Len(f.pre[BB])
    BY <1>3, <1>4
  <2> QED BY <1>1, <1>2, <1>3, <1>5, <2>2, <2>3, <2>4 DEF MeetOK
<1>8. WalkOK'
  BY <1>3 DEF WalkOK
<1> QED BY <1>2, <1>6, <1>7, <1>8 DEF IInv, Search

LEMMA NextPredStep ==
  ASSUME IInv, NextPred
  PROVE  IInv'
<1>1. /\ Search' /\ IdomOK' /\ ParentsAbove'
      /\ BB' = BB /\ Bbs' = Bbs /\ root' = root
      /\ \A b : HasIdom(b)' = HasIdom(b)
  BY TreeKept DEF NextPred
<1>2. /\ pc = "meet" /\ pc' = "meet" /\ b1 = b2 /\ b2' = b2 /\ pred' = pred
      /\ met < Len(f.pre[BB]) /\ met' = met + 1
      /\ f' = f /\ post_order_id_' = post_order_id_ /\ order' = order /\ i' = i /\ idom_' = idom_
  BY DEF NextPred, dfs
<1>3. /\ i < Len(order) /\ BB # root
      /\ b1 \in Bbs /\ HasIdom(b1) /\ b2 \in Bbs /\ HasIdom(b2)
      /\ met \in 0..Len(f.pre[BB]) /\ Rising
  BY <1>2 DEF IInv, MeetOK
<1>4. /\ f.pre[BB] \in Seq(Block)
      /\ \A m \in DOMAIN f.pre[BB] : f.pre[BB][m] \in Bbs
  BY <1>2, <1>3, Current
<1>5. PICK q : q = f.pre[BB][met + 1]
  OBVIOUS
<1>6. q \in Bbs /\ q \in Block
  BY <1>2, <1>3, <1>4, <1>5, Code DEF IInv
<1>7. b1' = IF Meets(q) THEN q ELSE b1
  BY <1>5 DEF NextPred
<1>8. b1' \in Bbs /\ HasIdom(b1')
  BY <1>3, <1>6, <1>7 DEF Meets, HasIdom
<1>9. TypeOK'
  BY <1>3, <1>6, <1>7 DEF NextPred, IInv, TypeOK, dfs, walk
<1>10. \A m : Meets(f.pre[BB][m])' = Meets(f.pre[BB][m])
  BY <1>1, <1>2, Zenon DEF Meets
<1>11. Rising'
  <2>1. CASE post_order_id_[b2] > post_order_id_[BB]
    BY <1>1, <1>2, <2>1 DEF Rising
  <2>2. ASSUME NEW m \in (met + 1)..Len(f.pre[BB]), Meets(f.pre[BB][m]),
               post_order_id_[f.pre[BB][m]] > post_order_id_[BB]
        PROVE  Rising'
    <3>1. CASE m = met + 1
      BY <1>1, <1>2, <1>5, <1>7, <2>2, <3>1 DEF Rising
    <3>2. CASE m # met + 1
      <4>1. m \in (met' + 1)..Len(f.pre[BB])
        BY <1>2, <1>3, <1>4, <2>2, <3>2
      <4> QED BY <1>1, <1>2, <1>10, <2>2, <4>1, Zenon DEF Rising
    <3> QED BY <3>1, <3>2
  <2> QED BY <1>2, <1>3, <2>1, <2>2 DEF Rising
<1>12. MeetOK'
  <2>1. met' \in 0..Len(f.pre[BB])
    BY <1>2, <1>3, <1>4
  <2>2. HasIdom(b1)' /\ HasIdom(b2)'
    BY <1>2, <1>3, <1>8 DEF HasIdom
  <2> QED BY <1>1, <1>2, <1>3, <1>8, <1>11, <2>1, <2>2 DEF MeetOK
<1>13. WalkOK'
  BY <1>2 DEF WalkOK
<1> QED BY <1>1, <1>9, <1>12, <1>13 DEF IInv, Search

\* The block that moves up is not the root, which has the greatest number.
LEMMA Up ==
  ASSUME IInv, pc # "visit", NEW b \in Bbs, NEW c \in Bbs, HasIdom(b),
         post_order_id_[b] < post_order_id_[c]
  PROVE  /\ idom_[b] \in Bbs /\ HasIdom(idom_[b])
         /\ post_order_id_[b] < post_order_id_[idom_[b]]
<1>1. b # root
  BY Numbers
<1>2. b \in Block
  BY Code DEF IInv
<1> QED BY <1>1, <1>2 DEF IInv, IdomOK, ParentsAbove, HasIdom

LEMMA ClimbStep ==
  ASSUME IInv, Climb
  PROVE  IInv'
<1>1. /\ Search' /\ IdomOK' /\ ParentsAbove'
      /\ BB' = BB /\ Bbs' = Bbs /\ root' = root
      /\ \A b : HasIdom(b)' = HasIdom(b)
  BY TreeKept DEF Climb
<1>2. /\ pc = "meet" /\ pc' = "meet" /\ pred' = pred /\ met' = met
      /\ f' = f /\ post_order_id_' = post_order_id_ /\ order' = order /\ i' = i /\ idom_' = idom_
  BY DEF Climb, dfs
<1>3. /\ i < Len(order) /\ BB # root
      /\ b1 \in Bbs /\ HasIdom(b1) /\ b2 \in Bbs /\ HasIdom(b2)
      /\ met \in 0..Len(f.pre[BB]) /\ Rising
  BY <1>2 DEF IInv, MeetOK
<1>4. /\ b1' \in Bbs /\ HasIdom(b1)' /\ b2' \in Bbs /\ HasIdom(b2)'
      /\ post_order_id_[b1] <= post_order_id_[b1']
      /\ post_order_id_[b2] <= post_order_id_[b2']
  <2>1. \A b \in Bbs : post_order_id_[b] \in Nat
    BY <1>2, Numbers
  <2>2. CASE post_order_id_[b1] < post_order_id_[b2] /\ b1' = idom_[b1] /\ b2' = b2
    BY <1>2, <1>3, <2>1, <2>2, Up DEF HasIdom
  <2>3. CASE post_order_id_[b2] < post_order_id_[b1] /\ b2' = idom_[b2] /\ b1' = b1
    BY <1>2, <1>3, <2>1, <2>3, Up DEF HasIdom
  <2> QED BY <2>2, <2>3 DEF Climb
<1>5. TypeOK'
  <2>1. Bbs \subseteq Block
    BY Code DEF IInv
  <2> QED BY <1>4, <2>1 DEF Climb, IInv, TypeOK, dfs, walk
<1>6. Rising'
  <2>1. \A m : Meets(f.pre[BB][m])' = Meets(f.pre[BB][m])
    BY <1>1, <1>2, Zenon DEF Meets
  <2>2. \A b \in Bbs : post_order_id_[b] \in Nat
    BY <1>2, Numbers
  <2>3. BB \in Bbs
    BY <1>2, <1>3, Current
  <2>4. CASE post_order_id_[b1] > post_order_id_[BB]
    BY <1>1, <1>2, <1>3, <1>4, <2>2, <2>3, <2>4 DEF Rising
  <2>5. CASE post_order_id_[b2] > post_order_id_[BB]
    BY <1>1, <1>2, <1>3, <1>4, <2>2, <2>3, <2>5 DEF Rising
  <2>6. CASE \E m \in (met + 1)..Len(f.pre[BB]) :
               Meets(f.pre[BB][m]) /\ post_order_id_[f.pre[BB][m]] > post_order_id_[BB]
    BY <1>1, <1>2, <2>1, <2>6, Zenon DEF Rising
  <2> QED BY <1>3, <2>4, <2>5, <2>6 DEF Rising
<1>7. MeetOK'
  BY <1>1, <1>2, <1>3, <1>4, <1>6 DEF MeetOK
<1>8. WalkOK'
  BY <1>2 DEF WalkOK
<1> QED BY <1>1, <1>5, <1>7, <1>8 DEF IInv, Search

LEMMA SetIdomStep ==
  ASSUME IInv, SetIdom
  PROVE  IInv'
<1>1. /\ pc = "meet" /\ pc' = "idom" /\ b1 = b2 /\ met = Len(f.pre[BB])
      /\ idom_' = [idom_ EXCEPT ![BB] = b2] /\ i' = i + 1
      /\ f' = f /\ stack' = stack /\ order' = order /\ post_order_id_' = post_order_id_
  BY DEF SetIdom, dfs
<1>2. /\ i < Len(order) /\ BB # root /\ b2 \in Bbs /\ HasIdom(b2) /\ Rising
  BY <1>1 DEF IInv, MeetOK
<1>3. /\ BB \in Bbs /\ i \in Nat
      /\ BB = order[Len(order) + 1 - (i + 1)]
      /\ f.pre[BB] \in Seq(Block)
  BY <1>1, <1>2, Current
<1>4. post_order_id_[b2] > post_order_id_[BB]
  BY <1>1, <1>2, <1>3 DEF Rising
<1>5. Search'
  BY SearchKept DEF SetIdom, IInv, Search
<1>6. Bbs' = Bbs /\ root' = root /\ Finished' = Finished
  BY <1>1, SameCode, Zenon DEF Finished
<1>7. root \in Bbs /\ Bbs \subseteq Block
  BY Code DEF IInv
<1>8. idom_ \in [Block -> Block \cup {NoBlock}]
  BY DEF IInv, TypeOK
<1>9. \A b \in Block : idom_'[b] = IF b = BB THEN b2 ELSE idom_[b]
  BY <1>1, <1>8
<1>10. b2 # NoBlock /\ \A b \in Block : HasIdom(b) => HasIdom(b)'
  BY <1>2, <1>7, <1>9, BlockAssumption DEF HasIdom
<1>11. TypeOK'
  <2>1. idom_' \in [Block -> Block \cup {NoBlock}]
    BY <1>1, <1>2, <1>7, <1>8
  <2>2. i' \in 0..Len(order')
    BY <1>1, <1>2, <1>3 DEF IInv, TypeOK
  <2>3. changed' \in BOOLEAN
    BY Zenon DEF SetIdom, Changed, IInv, TypeOK
  <2> QED BY <2>1, <2>2, <2>3 DEF SetIdom, IInv, TypeOK, dfs, meet, walk
<1>12. IdomOK'
  <2>1. stack = << >> /\ Finished = Bbs /\ idom_[root] = root
    BY <1>1 DEF IInv, IdomOK
  <2>2. idom_'[root] = root
    BY <1>2, <1>7, <1>9, <2>1
  <2>3. ASSUME NEW b \in Block, HasIdom(b)'
        PROVE  b \in Bbs /\ idom_'[b] \in Bbs /\ idom_'[idom_'[b]] # NoBlock
    <3>1. CASE b = BB
      BY <1>2, <1>3, <1>7, <1>9, <1>10, <3>1 DEF HasIdom
    <3>2. CASE b # BB
      <4>1. b \in Bbs /\ idom_[b] \in Bbs /\ HasIdom(idom_[b])
        BY <1>1, <1>9, <2>3, <3>2 DEF IInv, IdomOK, HasIdom
      <4> QED BY <1>7, <1>9, <1>10, <3>2, <4>1 DEF HasIdom
    <3> QED BY <3>1, <3>2
  <2>4. \A b \in Block :
          HasIdom(b)' => b \in Bbs' /\ idom_'[b] \in Bbs' /\ HasIdom(idom_[b])'
    BY <1>6, <2>3 DEF HasIdom
  <2>5. \A a \in 1..i : HasIdom(order[Len(order) + 1 - a])
    BY <1>1 DEF IInv, IdomOK
  <2>6. ASSUME NEW a \in 1..(i + 1) PROVE HasIdom(order[Len(order) + 1 - a])'
    <3>1. CASE a = i + 1
      BY <1>1, <1>3, <1>7, <1>9, <1>10, <3>1 DEF HasIdom
    <3>2. CASE a # i + 1
      <4>1. a \in 1..i /\ Len(order) + 1 - a \in 1..Len(order)
        BY <1>2, <1>3, <3>2, Numbers, <1>1
      <4>2. order[Len(order) + 1 - a] \in Block
        BY <1>1, <1>7, <4>1, Numbers
      <4> QED BY <1>1, <1>10, <2>5, <4>1, <4>2 DEF HasIdom
    <3> QED BY <1>3, <3>1, <3>2
  <2>7. \A a \in 1..i' : HasIdom(order[Len(order) + 1 - a])'
    BY <1>1, <2>6
  <2> QED BY <1>1, <1>6, <2>1, <2>2, <2>4, <2>7 DEF IdomOK
<1>13. ParentsAbove'
  BY <1>1, <1>4, <1>6, <1>9 DEF IInv, ParentsAbove
<1>14. MeetOK' /\ WalkOK'
  BY <1>1 DEF MeetOK, WalkOK
<1> QED BY <1>5, <1>11, <1>12, <1>13, <1>14 DEF IInv, Search

LEMMA NextPassStep ==
  ASSUME IInv, NextPass
  PROVE  IInv'
<1>1. Search'
  BY SearchKept DEF NextPass, IInv, Search
<1>2. Bbs' = Bbs /\ root' = root /\ Finished' = Finished
  BY SameCode, Zenon DEF NextPass, dfs, Finished
<1>3. TypeOK'
  <2>1. changed' \in BOOLEAN
    BY Zenon DEF NextPass
  <2>2. i' = 0 /\ order' = order /\ order \in Seq(Block)
    BY Zenon DEF NextPass, IInv, TypeOK, dfs
  <2>3. i' \in 0..Len(order')
    BY <2>2
  <2> QED BY <2>1, <2>3 DEF NextPass, IInv, TypeOK, dfs, meet, walk
<1>4. IdomOK'
  BY <1>2 DEF NextPass, IInv, IdomOK, HasIdom, dfs
<1>5. ParentsAbove' /\ MeetOK' /\ WalkOK'
  BY <1>2 DEF NextPass, IInv, ParentsAbove, MeetOK, WalkOK, dfs
<1> QED BY <1>1, <1>3, <1>4, <1>5 DEF IInv, Search
-----------------------------------------------------------------------------
LEMMA StartFrontierStep ==
  ASSUME IInv, StartFrontier
  PROVE  IInv'
<1>1. Search' /\ IdomOK' /\ ParentsAbove'
  BY TreeKept DEF StartFrontier
<1>2. TypeOK'
  BY DEF StartFrontier, IInv, TypeOK, dfs, meet, walk
<1>3. MeetOK' /\ WalkOK'
  BY DEF StartFrontier, MeetOK, WalkOK
<1> QED BY <1>1, <1>2, <1>3 DEF IInv, Search

LEMMA NextBlockStep ==
  ASSUME IInv, NextBlock
  PROVE  IInv'
<1>1. Search' /\ IdomOK' /\ ParentsAbove'
  BY TreeKept DEF NextBlock, IInv, IdomOK
<1>2. TypeOK'
  BY Code DEF NextBlock, IInv, TypeOK, dfs, meet
<1>3. MeetOK' /\ WalkOK'
  BY DEF NextBlock, MeetOK, WalkOK
<1> QED BY <1>1, <1>2, <1>3 DEF IInv, Search

LEMMA StartWalkStep ==
  ASSUME IInv, StartWalk
  PROVE  IInv'
<1>1. Search' /\ IdomOK' /\ ParentsAbove' /\ Bbs' = Bbs
  BY TreeKept DEF StartWalk, IInv, IdomOK
<1>2. Target \in Bbs /\ Target \in Block
  <2>1. bb_at \in 1..Len(f.bbs)
    BY Code DEF StartWalk, IInv, TypeOK
  <2> QED BY <2>1, Code DEF Target, Bbs, IInv
<1>3. pre_at \in DOMAIN f.pre[Target]
  BY <1>2, Code DEF StartWalk, IInv, TypeOK
<1>4. f.pre[Target][pre_at] \in Bbs /\ Bbs \subseteq Block
  BY <1>2, <1>3, Code DEF Pre, IInv
<1>5. TypeOK'
  BY <1>4 DEF StartWalk, IInv, TypeOK, dfs, meet
<1>6. MeetOK' /\ WalkOK'
  BY <1>1, <1>4 DEF StartWalk, MeetOK, WalkOK
<1> QED BY <1>1, <1>5, <1>6 DEF IInv, Search

LEMMA RunStep ==
  ASSUME IInv, Run
  PROVE  IInv'
<1>1. Search' /\ IdomOK' /\ ParentsAbove' /\ Bbs' = Bbs
  BY TreeKept DEF Run, IInv, IdomOK
<1>2. runner \in Bbs /\ bb_at <= Len(f.bbs)
  BY DEF Run, IInv, WalkOK
<1>3. Target \in Block
  <2>1. bb_at \in 1..Len(f.bbs)
    BY <1>2, Code DEF IInv, TypeOK
  <2> QED BY <2>1, Code DEF Target, IInv
<1>4. HasIdom(runner)
  <2>1. i = Len(order) /\ pc # "visit"
    BY DEF Run, IInv, IdomOK
  <2>2. post_order_id_[runner] > Len(order) - i - 1
    BY <1>2, <2>1, Numbers
  <2> QED BY <1>2, <2>1, <2>2, Earlier
<1>5. idom_[runner] \in Bbs /\ Bbs \subseteq Block
  BY <1>2, <1>4, Code DEF Run, IInv, IdomOK
<1>6. TypeOK'
  BY <1>3, <1>5 DEF Run, IInv, TypeOK, dfs, meet
<1>7. MeetOK' /\ WalkOK'
  BY <1>1, <1>2, <1>5 DEF Run, MeetOK, WalkOK
<1> QED BY <1>1, <1>6, <1>7 DEF IInv, Search

LEMMA EndWalkStep ==
  ASSUME IInv, EndWalk
  PROVE  IInv'
<1>1. Search' /\ IdomOK' /\ ParentsAbove'
  BY TreeKept DEF EndWalk, IInv, IdomOK
<1>2. TypeOK'
  BY DEF EndWalk, IInv, TypeOK, dfs, meet
<1>3. MeetOK' /\ WalkOK'
  BY DEF EndWalk, MeetOK, WalkOK
<1> QED BY <1>1, <1>2, <1>3 DEF IInv, Search

LEMMA CreateTreeStep ==
  ASSUME IInv, CreateTree
  PROVE  IInv'
<1>1. Search' /\ IdomOK' /\ ParentsAbove'
  BY TreeKept DEF CreateTree, IInv, IdomOK
<1>2. TypeOK'
  BY Code DEF CreateTree, IInv, TypeOK, dfs, meet, walk
<1>3. MeetOK' /\ WalkOK'
  BY DEF CreateTree, MeetOK, WalkOK
<1> QED BY <1>1, <1>2, <1>3 DEF IInv, Search

LEMMA StutterStep ==
  ASSUME IInv, UNCHANGED vars
  PROVE  IInv'
<1>1. Search'
  BY SearchKept DEF vars, IInv, Search
<1>2. Bbs' = Bbs /\ root' = root /\ BB' = BB /\ Finished' = Finished
  BY SameCode, Zenon DEF vars, dfs, BB, Finished
<1>3. TypeOK'
  BY DEF vars, IInv, TypeOK, dfs, meet, walk
<1>4. IdomOK' /\ ParentsAbove'
  BY <1>2 DEF vars, IInv, IdomOK, ParentsAbove, HasIdom, dfs
<1>5. Rising' = Rising
  <2>1. \A m : Meets(f.pre[BB][m])' = Meets(f.pre[BB][m])
    BY <1>2, Zenon DEF Meets, vars, meet
  <2> QED BY <1>2, <2>1, Zenon DEF Rising, vars, dfs, meet
<1>6. MeetOK' /\ WalkOK'
  BY <1>2, <1>5 DEF vars, IInv, MeetOK, WalkOK, HasIdom, dfs, meet, walk
<1> QED BY <1>1, <1>3, <1>4, <1>6 DEF IInv, Search

\* The invariant is inductive.
THEOREM Inductive == Spec => []IInv
<1>1. IInv /\ [Next]_vars => IInv'
  BY DescendStep, NumberStep, NumberedStep, SkipRootStep, StartMeetStep, NextPredStep, ClimbStep,
     SetIdomStep, NextPassStep, StartFrontierStep, NextBlockStep, StartWalkStep, RunStep,
     EndWalkStep, CreateTreeStep, StutterStep, Zenon DEF Next
<1> QED BY InitIInv, <1>1, PTL DEF Spec

\* The analysis only ever holds blocks of the function, numbers and sets of blocks.
THEOREM TypeCorrect == Spec => []TypeOK
<1>1. IInv => TypeOK
  BY DEF IInv
<1> QED BY Inductive, <1>1, PTL

\* A parent in the tree has a greater number than its child, in the middle of a
\* pass of create_idom too, for every function and every order of its lists.
THEOREM Parents == Spec => []ParentsAbove
<1>1. IInv => ParentsAbove
  BY DEF IInv
<1> QED BY Inductive, <1>1, PTL

\* No assert of create_idom or intersect ever fails, and no walk of
\* create_dominance_frontier runs off the tree.
THEOREM Asserts == Spec => []AssertsHold
<1>1. IInv => AssertsHold
  <2> SUFFICES ASSUME IInv PROVE AssertsHold
    OBVIOUS
  <2>1. ASSUME pc = "idom", i < Len(order), BB # root PROVE \E p \in Block : IsPred(p)
    <3> DEFINE T == {m \in DOMAIN f.pre[BB] : HasIdom(f.pre[BB][m])}
    <3>1. f.pre[BB] \in Seq(Block)
      BY <2>1, Current
    <3>2. T \in SUBSET Nat /\ T # {}
      BY <2>1, <3>1, EnteredFrom
    <3> HIDE DEF T
    <3>3. PICK m \in T : \A l \in T : m <= l
      BY <3>2, Least
    <3>4. m \in DOMAIN f.pre[BB] /\ HasIdom(f.pre[BB][m]) /\ f.pre[BB][m] \in Block
      BY <3>1, <3>3 DEF T
    <3>5. \A l \in 1..(m - 1) : ~HasIdom(f.pre[BB][l])
      BY <3>1, <3>3 DEF T
    <3>6. IsPred(f.pre[BB][m])
      BY <3>4, <3>5, Zenon DEF IsPred, HasIdom
    <3> QED BY <3>4, <3>6
  <2>2. ASSUME pc = "meet", b1 # b2
        PROVE  /\ post_order_id_[b1] # post_order_id_[b2]
               /\ idom_[b1] # NoBlock /\ idom_[b2] # NoBlock
    <3>1. b1 \in Bbs /\ b2 \in Bbs /\ HasIdom(b1) /\ HasIdom(b2)
      BY <2>2 DEF IInv, MeetOK
    <3>2. order[post_order_id_[b1] + 1] = b1 /\ order[post_order_id_[b2] + 1] = b2
      BY <2>2, <3>1, Numbers
    <3> QED BY <2>2, <3>1, <3>2 DEF HasIdom
  <2>3. ASSUME pc = "walk" PROVE runner # NoBlock
    BY <2>3, Code, BlockAssumption DEF IInv, WalkOK
  <2> QED BY <2>1, <2>2, <2>3, Zenon DEF AssertsHold
<1> QED BY Inductive, <1>1, PTL

-----------------------------------------------------------------------------
(***************************************************************************)
(* The dominators.  The tree never has too few of them above a block, in   *)
(* the middle of a pass too; once a pass has changed nothing it does not   *)
(* have too many either, for each block agrees with its predecessors.      *)
(***************************************************************************)

\* What d dominates is above d on the stack, and is finished before d is.
DominatorsAfter ==
  \A d \in Bbs : \A X \in SUBSET Bbs : Around(f, d, X) =>
    /\ \A a \in DOMAIN stack : stack[a] \in X \/ \E e \in 1..a : stack[e] = d
    /\ \A b \in Finished : \/ b \in X
                           \/ d \in Open
                           \/ d \in Finished /\ post_order_id_[d] >= post_order_id_[b]

\* A strict dominator of a block that has an idom dominates that idom.
DominatorsKept ==
  \A b \in Bbs \ {root} : HasIdom(b) =>
    \A e \in Bbs : StrictlyDominates(f, e, b) => Dominates(f, e, idom_[b])

\* A strict dominator of the current block dominates what intersect is at.
MeetBelow ==
  pc = "meet" =>
    \A e \in Bbs : StrictlyDominates(f, e, BB) => Dominates(f, e, b1) /\ Dominates(f, e, b2)

\* The blocks on the way up the tree from b are in every set that has b and goes
\* up with each of its blocks.
GoesUp(S) == \A x \in S : HasIdom(x) => idom_[x] \in S
Ancestors(b) == {a \in Bbs : \A S \in SUBSET Bbs : b \in S /\ GoesUp(S) => a \in S}

\* The two blocks of intersect were reached from the predecessors met so far.
MeetAbove ==
  pc = "meet" =>
    /\ pred \in Bbs /\ b2 \in Ancestors(pred)
    /\ \A m \in 1..met : HasIdom(f.pre[BB][m]) =>
         b1 \in Ancestors(f.pre[BB][m]) \/ b2 \in Ancestors(f.pre[BB][m])

\* In a pass that has changed nothing the idom of each block dealt with is above
\* every predecessor of the block that has an idom.
Agrees(b) == b # root => \A p \in Pre(b) : HasIdom(p) => idom_[b] \in Ancestors(p)

Solved ==
  /\ pc \in {"frontier", "walk", "done"} => ~changed
  /\ pc # "visit" /\ ~changed => \A a \in 1..i : Agrees(order[Len(order) + 1 - a])

JInv ==
  /\ DominatorsAfter
  /\ DominatorsKept
  /\ MeetBelow
  /\ MeetAbove
  /\ Solved
-----------------------------------------------------------------------------
\* The graph as Dominance speaks of it.
LEMMA SameGraph ==
  ASSUME f \in Functions
  PROVE  /\ Bbs = Blocks(f) /\ root = Entry(f)
         /\ \A b : Succ(b) = SuccOf(f, b)
         /\ \A b \in Bbs : PredsOf(f, b) = Pre(b)
         /\ EdgesInside(f) /\ AllReached(f)
<1>1. Bbs = Blocks(f) /\ root = Entry(f) /\ \A b : Succ(b) = SuccOf(f, b)
  BY Zenon DEF Bbs, Blocks, root, Entry, Succ, SuccOf
<1>2. \A b \in Bbs : PredsOf(f, b) = Pre(b)
  BY <1>1, Code DEF PredsOf
<1>3. EdgesInside(f) /\ AllReached(f)
  BY <1>1, Code DEF EdgesInside, AllReached
<1> QED BY <1>1, <1>2, <1>3

LEMMA InitJInv == Init => JInv
<1> SUFFICES ASSUME Init PROVE JInv
  OBVIOUS
<1>1. /\ f \in Functions /\ pc = "visit" /\ stack = <<root>> /\ order = << >>
      /\ idom_ = [b \in Block |-> NoBlock] /\ ~changed
  BY DEF Init
<1>2. root \in Bbs /\ Bbs \subseteq Block
  BY <1>1, Code
<1>3. DominatorsAfter
  <2>1. Len(stack) = 1 /\ stack[1] = root /\ Finished = {}
    BY <1>1 DEF Finished
  <2>2. ASSUME NEW d \in Bbs, NEW X \in SUBSET Bbs, Around(f, d, X) PROVE root \in X \cup {d}
    BY <1>1, <2>2, SameGraph DEF Around
  <2> QED BY <1>1, <2>1, <2>2 DEF DominatorsAfter
<1>4. DominatorsKept
  BY <1>1, <1>2 DEF DominatorsKept, HasIdom
<1>5. MeetBelow /\ MeetAbove /\ Solved
  BY <1>1 DEF MeetBelow, MeetAbove, Solved
<1> QED BY <1>3, <1>4, <1>5 DEF JInv

LEMMA DescendDominators ==
  ASSUME IInv, JInv, Descend
  PROVE  DominatorsAfter'
<1>1. stack # << >> /\ f' = f /\ order' = order /\ post_order_id_' = post_order_id_
  BY DEF Descend
<1>2. PICK n \in Succ(Top) : stack' = Append(stack, n)
  BY DEF Descend, Succ
<1>3. Search /\ stack \in Seq(Bbs) /\ f \in Functions
  BY DEF IInv, Search, DfsOK
<1>4. /\ Bbs' = Bbs /\ Finished' = Finished /\ Top \in Bbs /\ n \in Bbs
      /\ Len(stack) \in Nat \ {0} /\ Top = stack[Len(stack)] /\ n \in SuccOf(f, Top)
  <2>1. Finished' = Finished
    BY <1>1, Zenon DEF Finished
  <2> QED BY <1>1, <1>2, <1>3, <2>1, SameCode, TopFacts, Code, SameGraph
<1>5. /\ DOMAIN stack' = 1..(Len(stack) + 1)
      /\ DOMAIN stack = 1..Len(stack)
      /\ \A a \in 1..Len(stack) : stack'[a] = stack[a]
      /\ stack'[Len(stack) + 1] = n
  BY <1>2, <1>3, <1>4
<1>6. Open \subseteq Open'
  BY <1>4, <1>5 DEF Open
<1> SUFFICES ASSUME NEW d \in Bbs, NEW X \in SUBSET Bbs, Around(f, d, X)
             PROVE  /\ \A a \in DOMAIN stack' : stack'[a] \in X \/ \E e \in 1..a : stack'[e] = d
                    /\ \A b \in Finished : \/ b \in X
                                           \/ d \in Open'
                                           \/ d \in Finished /\ post_order_id_[d] >= post_order_id_[b]
  BY <1>1, <1>4, Zenon DEF DominatorsAfter
<1>7. /\ \A a \in DOMAIN stack : stack[a] \in X \/ \E e \in 1..a : stack[e] = d
      /\ \A b \in Finished : \/ b \in X
                             \/ d \in Open
                             \/ d \in Finished /\ post_order_id_[d] >= post_order_id_[b]
  BY DEF JInv, DominatorsAfter
<1>8. \A a \in 1..Len(stack) : stack'[a] \in X \/ \E e \in 1..a : stack'[e] = d
  BY <1>4, <1>5, <1>7
<1>9. n \in X \/ \E e \in 1..(Len(stack) + 1) : stack'[e] = d
  <2>1. CASE Top \in X
    BY <1>4, <1>5, <2>1 DEF Around
  <2>2. CASE Top \notin X
    BY <1>4, <1>5, <1>7, <2>2
  <2> QED BY <2>1, <2>2
<1> QED BY <1>4, <1>5, <1>6, <1>7, <1>8, <1>9

LEMMA NumberDominators ==
  ASSUME IInv, JInv, Number
  PROVE  DominatorsAfter'
<1>1. stack # << >> /\ f' = f
  BY DEF Number
<1>2. /\ post_order_id_' = [b \in DOMAIN post_order_id_ \cup {Top} |->
                              IF b = Top THEN Len(order) ELSE post_order_id_[b]]
      /\ order' = Append(order, Top)
      /\ stack' = SubSeq(stack, 1, Len(stack) - 1)
  BY DEF Number, NewId
<1>3. /\ Search /\ stack \in Seq(Bbs) /\ order \in Seq(Bbs)
      /\ DOMAIN post_order_id_ = Finished
  BY DEF IInv, Search, DfsOK
<1>4. /\ Bbs' = Bbs /\ Top \in Bbs /\ Top \in Open /\ Top \notin Finished
      /\ Len(stack) \in Nat \ {0} /\ Top = stack[Len(stack)]
  BY <1>1, <1>3, SameCode, TopFacts
<1> HIDE DEF Top
<1>5. /\ DOMAIN stack' = 1..(Len(stack) - 1)
      /\ DOMAIN stack = 1..Len(stack)
      /\ \A a \in 1..(Len(stack) - 1) : stack'[a] = stack[a]
  BY <1>2, <1>3, <1>4
<1>6. Open \subseteq Open' \cup {Top}
  BY <1>4, <1>5 DEF Open
<1>7. Finished' = Finished \cup {Top}
  <2>1. /\ DOMAIN order' = DOMAIN order \cup {Len(order) + 1}
        /\ \A a \in DOMAIN order : order'[a] = order[a]
        /\ order'[Len(order) + 1] = Top
    BY <1>2, <1>3, <1>4
  <2> QED BY <2>1 DEF Finished
<1>8. /\ post_order_id_'[Top] = Len(order) /\ Len(order) \in Nat
      /\ \A b \in Finished : /\ post_order_id_'[b] = post_order_id_[b]
                             /\ post_order_id_[b] \in Nat /\ post_order_id_[b] < Len(order)
  <2>1. \A b \in Finished : \E a \in 1..Len(order) : post_order_id_[b] = a - 1
    BY <1>3 DEF IInv, DfsOK, Finished
  <2> QED BY <1>2, <1>3, <1>4, <2>1
<1> SUFFICES ASSUME NEW d \in Bbs, NEW X \in SUBSET Bbs, Around(f, d, X)
             PROVE  /\ \A a \in DOMAIN stack' : stack'[a] \in X \/ \E e \in 1..a : stack'[e] = d
                    /\ \A b \in Finished' :
                         \/ b \in X
                         \/ d \in Open'
                         \/ d \in Finished' /\ post_order_id_'[d] >= post_order_id_'[b]
  BY <1>1, <1>4, Zenon DEF DominatorsAfter
<1>9. /\ \A a \in DOMAIN stack : stack[a] \in X \/ \E e \in 1..a : stack[e] = d
      /\ \A b \in Finished : \/ b \in X
                             \/ d \in Open
                             \/ d \in Finished /\ post_order_id_[d] >= post_order_id_[b]
  BY DEF JInv, DominatorsAfter
<1>10. \A a \in DOMAIN stack' : stack'[a] \in X \/ \E e \in 1..a : stack'[e] = d
  BY <1>4, <1>5, <1>9
<1>11. Top \in X \/ d \in Open
  BY <1>4, <1>5, <1>9 DEF Open
<1>12. ASSUME NEW b \in Finished', b \notin X, d \notin Open'
       PROVE  d \in Finished' /\ post_order_id_'[d] >= post_order_id_'[b]
  <2>1. CASE d = Top
    BY <1>7, <1>8, <1>12, <2>1
  <2>2. CASE d # Top
    BY <1>6, <1>7, <1>8, <1>9, <1>11, <1>12, <2>2
  <2> QED BY <2>1, <2>2
<1> QED BY <1>10, <1>12

\* The search is over: dominators are finished last and get the greater numbers.
LEMMA DominatorsHigher ==
  ASSUME IInv, JInv, pc # "visit", NEW d \in Bbs, NEW b \in Bbs, Dominates(f, d, b)
  PROVE  post_order_id_[d] >= post_order_id_[b]
<1>1. stack = << >> /\ Finished = Bbs
  BY DEF IInv, IdomOK
<1>2. Open = {}
  BY <1>1 DEF Open
<1>3. PICK X \in SUBSET Bbs : Around(f, d, X) /\ b \notin X
  BY SameGraph DEF IInv, Dominates
<1> QED BY <1>1, <1>2, <1>3 DEF JInv, DominatorsAfter

LEMMA AncestorsFacts ==
  ASSUME IInv, pc # "visit", NEW b \in Bbs
  PROVE  /\ b \in Ancestors(b)
         /\ Ancestors(b) \subseteq Bbs
         /\ \A a \in Ancestors(b) : HasIdom(a) => idom_[a] \in Ancestors(b)
<1>1. b \in Ancestors(b) /\ Ancestors(b) \subseteq Bbs
  BY DEF Ancestors
<1>2. \A a \in Ancestors(b) : HasIdom(a) => idom_[a] \in Bbs
  BY <1>1, Code DEF IInv, IdomOK
<1>3. \A a \in Ancestors(b) : HasIdom(a) => idom_[a] \in Ancestors(b)
  BY <1>2 DEF Ancestors, GoesUp
<1> QED BY <1>1, <1>3

\* The ancestors of a block are itself and those of its idom; the root has no
\* other.
LEMMA AncestorsUp ==
  ASSUME IInv, pc # "visit", NEW b \in Bbs, HasIdom(b)
  PROVE  /\ Ancestors(b) \subseteq {b} \cup Ancestors(idom_[b])
         /\ Ancestors(root) \subseteq {root}
<1>1. idom_[b] \in Bbs /\ idom_[root] = root /\ root \in Bbs
  BY Code DEF IInv, IdomOK
<1>2. GoesUp({b} \cup Ancestors(idom_[b])) /\ {b} \cup Ancestors(idom_[b]) \in SUBSET Bbs
  BY <1>1, AncestorsFacts DEF GoesUp
<1>3. Ancestors(b) \subseteq {b} \cup Ancestors(idom_[b])
  BY <1>2, Zenon DEF Ancestors
<1>4. GoesUp({root}) /\ {root} \in SUBSET Bbs
  BY <1>1 DEF GoesUp
<1>5. Ancestors(root) \subseteq {root}
  BY <1>4, Zenon DEF Ancestors
<1> QED BY <1>3, <1>5

\* What keeps the function, the search and the tree keeps what is said of them.
LEMMA GraphKept ==
  ASSUME IInv, JInv, UNCHANGED <<f, dfs, idom_>>
  PROVE  /\ DominatorsAfter' /\ DominatorsKept'
         /\ Bbs' = Bbs /\ root' = root /\ order' = order
         /\ \A b : Ancestors(b)' = Ancestors(b) /\ HasIdom(b)' = HasIdom(b) /\ Agrees(b)' = Agrees(b)
<1>1. /\ f' = f /\ stack' = stack /\ order' = order /\ post_order_id_' = post_order_id_ /\ idom_' = idom_
  BY DEF dfs
<1>2. Bbs' = Bbs /\ root' = root /\ \A b : Pre(b)' = Pre(b)
  BY <1>1, SameCode
<1>3. Open' = Open /\ Finished' = Finished
  BY <1>1, Zenon DEF Open, Finished
<1>4. DominatorsAfter'
  BY <1>1, <1>2, <1>3 DEF JInv, DominatorsAfter
<1>5. \A b : HasIdom(b)' = HasIdom(b)
  BY <1>1, Zenon DEF HasIdom
<1>6. DominatorsKept'
  BY <1>1, <1>2, <1>5, Zenon DEF JInv, DominatorsKept
<1>7. \A S : GoesUp(S)' = GoesUp(S)
  BY <1>1, <1>5, Zenon DEF GoesUp
<1>8. \A b : Ancestors(b)' = Ancestors(b)
  BY <1>2, <1>7, Zenon DEF Ancestors
<1>9. \A b : Agrees(b)' = Agrees(b)
  BY <1>1, <1>2, <1>5, <1>8, Zenon DEF Agrees
<1> QED BY <1>1, <1>2, <1>4, <1>5, <1>6, <1>8, <1>9

\* The search itself, and the start of the iteration.
LEMMA SearchJ ==
  ASSUME IInv, JInv, Descend \/ Number \/ Numbered
  PROVE  JInv'
<1>1. f' = f /\ root' = root /\ Bbs' = Bbs /\ pc = "visit"
  BY SameCode DEF Descend, Number, Numbered
<1>2. DominatorsAfter'
  <2>1. CASE Numbered
    <3>1. UNCHANGED <<stack, order, post_order_id_>>
      BY <2>1 DEF Numbered, dfs
    <3>2. Open' = Open /\ Finished' = Finished
      BY <3>1, Zenon DEF Open, Finished
    <3> QED BY <1>1, <3>1, <3>2, Zenon DEF JInv, DominatorsAfter
  <2> QED BY <2>1, DescendDominators, NumberDominators
<1>3. DominatorsKept'
  <2>1. \A b \in Bbs \ {root} : idom_'[b] = NoBlock
    <3>1. \A b \in Block : idom_[b] = NoBlock
      BY <1>1 DEF IInv, IdomOK, HasIdom
    <3>2. idom_ \in [Block -> Block \cup {NoBlock}] /\ Bbs \subseteq Block
      BY Code DEF IInv, TypeOK
    <3> QED BY <3>1, <3>2 DEF Descend, Number, Numbered
  <2> QED BY <1>1, <2>1 DEF DominatorsKept, HasIdom
<1>4. MeetBelow' /\ MeetAbove'
  BY DEF Descend, Number, Numbered, MeetBelow, MeetAbove
<1>5. Solved'
  <2>1. i' = 0 /\ pc' \in {"visit", "idom"}
    BY <1>1 DEF Descend, Number, Numbered, IInv, IdomOK
  <2> QED BY <2>1 DEF Solved
<1> QED BY <1>2, <1>3, <1>4, <1>5 DEF JInv

-----------------------------------------------------------------------------
LEMMA SkipRootJ ==
  ASSUME IInv, JInv, SkipRoot
  PROVE  JInv'
<1>1. /\ pc = "idom" /\ pc' = "idom" /\ i' = i + 1 /\ changed' = changed
      /\ BB = root /\ i < Len(order) /\ UNCHANGED <<f, dfs, idom_>>
  BY DEF SkipRoot
<1>2. /\ DominatorsAfter' /\ DominatorsKept' /\ order' = order
      /\ \A b : Agrees(b)' = Agrees(b)
  BY <1>1, GraphKept
<1>3. i \in Nat /\ BB = order[Len(order) + 1 - (i + 1)]
  BY <1>1, Current
<1>4. Agrees(order[Len(order) + 1 - (i + 1)])
  BY <1>1, <1>3 DEF Agrees
<1>5. Solved'
  BY <1>1, <1>2, <1>3, <1>4 DEF JInv, Solved
<1>6. MeetBelow' /\ MeetAbove'
  BY <1>1 DEF MeetBelow, MeetAbove
<1> QED BY <1>2, <1>5, <1>6 DEF JInv

LEMMA StartMeetJ ==
  ASSUME IInv, JInv, StartMeet
  PROVE  JInv'
<1>1. /\ pc = "idom" /\ pc' = "meet" /\ i' = i /\ changed' = changed /\ met' = 0
      /\ i < Len(order) /\ BB # root /\ UNCHANGED <<f, dfs, idom_>>
  BY DEF StartMeet
<1>2. PICK p : IsPred(p) /\ pred' = p /\ b1' = p /\ b2' = p
  BY DEF StartMeet
<1>3. /\ DominatorsAfter' /\ DominatorsKept' /\ order' = order /\ Bbs' = Bbs
      /\ \A b : Agrees(b)' = Agrees(b) /\ Ancestors(b)' = Ancestors(b)
  BY <1>1, GraphKept
<1>4. BB' = BB
  BY <1>1, <1>3, Zenon DEF BB
<1>5. p \in Pre(BB) /\ p \in Bbs /\ BB \in Bbs
  BY <1>1, <1>2, Current DEF IsPred, Pre
<1>6. MeetBelow'
  <2>1. \A e : StrictlyDominates(f, e, BB) => Dominates(f, e, p)
    BY <1>5, SameGraph, DominatesPreds DEF IInv
  <2> QED BY <1>1, <1>2, <1>4, <2>1 DEF MeetBelow
<1>7. MeetAbove'
  <2>1. p \in Ancestors(p)
    BY <1>1, <1>5, AncestorsFacts
  <2> QED BY <1>1, <1>2, <1>3, <1>5, <2>1 DEF MeetAbove
<1>8. Solved'
  BY <1>1, <1>3 DEF JInv, Solved
<1> QED BY <1>3, <1>6, <1>7, <1>8 DEF JInv

LEMMA NextPredJ ==
  ASSUME IInv, JInv, NextPred
  PROVE  JInv'
<1>1. /\ pc = "meet" /\ pc' = "meet" /\ b1 = b2 /\ b2' = b2 /\ pred' = pred
      /\ met < Len(f.pre[BB]) /\ met' = met + 1
      /\ b1' = IF Meets(f.pre[BB][met + 1]) THEN f.pre[BB][met + 1] ELSE b1
      /\ i' = i /\ changed' = changed /\ UNCHANGED <<f, dfs, idom_>>
  BY DEF NextPred
<1>2. /\ DominatorsAfter' /\ DominatorsKept' /\ order' = order /\ Bbs' = Bbs
      /\ \A b : /\ Agrees(b)' = Agrees(b) /\ Ancestors(b)' = Ancestors(b)
                /\ HasIdom(b)' = HasIdom(b)
  BY <1>1, GraphKept
<1>3. BB' = BB
  BY <1>1, <1>2, Zenon DEF BB
<1>4. i < Len(order) /\ BB # root /\ met \in 0..Len(f.pre[BB])
  BY <1>1 DEF IInv, MeetOK
<1> DEFINE p == f.pre[BB][met + 1]
<1>5. p \in Pre(BB) /\ p \in Bbs /\ BB \in Bbs
  BY <1>1, <1>4, Current DEF Pre
<1>6. /\ \A e \in Bbs : StrictlyDominates(f, e, BB) => Dominates(f, e, b1) /\ Dominates(f, e, b2)
      /\ pred \in Bbs /\ b2 \in Ancestors(pred)
      /\ \A m \in 1..met : HasIdom(f.pre[BB][m]) => b2 \in Ancestors(f.pre[BB][m])
  BY <1>1 DEF JInv, MeetBelow, MeetAbove
<1>7. MeetBelow'
  <2>1. \A e : StrictlyDominates(f, e, BB) => Dominates(f, e, p)
    BY <1>5, SameGraph, DominatesPreds DEF IInv
  <2> HIDE DEF p
  <2> QED BY <1>1, <1>2, <1>3, <1>6, <2>1 DEF MeetBelow, p
<1>8. MeetAbove'
  <2>1. HasIdom(p) => b1' \in Ancestors(p) \/ b2 \in Ancestors(p)
    <3>1. CASE p = pred
      BY <1>6, <3>1
    <3>2. CASE p # pred
      BY <1>1, <1>5, <3>2, AncestorsFacts DEF Meets, HasIdom
    <3> QED BY <3>1, <3>2
  <2>2. \A m \in 1..(met + 1) : m \in 1..met \/ m = met + 1
    BY <1>4
  <2>3. \A m \in 1..(met + 1) : HasIdom(f.pre[BB][m]) =>
          b1' \in Ancestors(f.pre[BB][m]) \/ b2 \in Ancestors(f.pre[BB][m])
    BY <1>6, <2>1, <2>2
  <2> QED BY <1>1, <1>2, <1>3, <1>6, <2>3, Zenon DEF MeetAbove
<1>9. Solved'
  BY <1>1, <1>2 DEF JInv, Solved
<1> QED BY <1>2, <1>7, <1>8, <1>9 DEF JInv

\* The block that moves up is none of the strict dominators of the current block:
\* one that is would dominate the other block, and have the greater number.
LEMMA ClimbJ ==
  ASSUME IInv, JInv, Climb
  PROVE  JInv'
<1>1. /\ pc = "meet" /\ pc' = "meet" /\ b1 # b2 /\ pred' = pred /\ met' = met
      /\ i' = i /\ changed' = changed /\ UNCHANGED <<f, dfs, idom_>>
  BY DEF Climb
<1>2. /\ DominatorsAfter' /\ DominatorsKept' /\ order' = order /\ Bbs' = Bbs
      /\ \A b : /\ Agrees(b)' = Agrees(b) /\ Ancestors(b)' = Ancestors(b)
                /\ HasIdom(b)' = HasIdom(b)
  BY <1>1, GraphKept
<1>3. BB' = BB
  BY <1>1, <1>2, Zenon DEF BB
<1>4. /\ i < Len(order) /\ BB # root /\ met \in 0..Len(f.pre[BB])
      /\ b1 \in Bbs /\ b2 \in Bbs /\ HasIdom(b1) /\ HasIdom(b2)
      /\ f.pre[BB] \in Seq(Block)
      /\ \A m \in 1..Len(f.pre[BB]) : f.pre[BB][m] \in Bbs
  BY <1>1, Current DEF IInv, MeetOK
<1>5. /\ \A e \in Bbs : StrictlyDominates(f, e, BB) => Dominates(f, e, b1) /\ Dominates(f, e, b2)
      /\ pred \in Bbs /\ b2 \in Ancestors(pred)
      /\ \A m \in 1..met : HasIdom(f.pre[BB][m]) =>
           b1 \in Ancestors(f.pre[BB][m]) \/ b2 \in Ancestors(f.pre[BB][m])
  BY <1>1 DEF JInv, MeetBelow, MeetAbove
\* The lower of the two moves up.
<1>6. ASSUME NEW x \in Bbs, NEW y \in Bbs, HasIdom(x), post_order_id_[x] < post_order_id_[y],
             NEW e \in Bbs, Dominates(f, e, x), Dominates(f, e, y)
      PROVE  Dominates(f, e, idom_[x])
  <2>1. x # root /\ post_order_id_[e] >= post_order_id_[y]
    BY <1>1, <1>6, Numbers, DominatorsHigher
  <2>2. e # x
    BY <1>1, <1>6, <2>1, Numbers
  <2>3. StrictlyDominates(f, e, x)
    BY <1>6, <2>2 DEF StrictlyDominates
  <2> QED BY <1>6, <2>1, <2>3 DEF JInv, DominatorsKept
<1>7. ASSUME NEW p \in Bbs, NEW x \in Ancestors(p), HasIdom(x) PROVE idom_[x] \in Ancestors(p)
  BY <1>1, <1>7, AncestorsFacts
<1>8. \/ post_order_id_[b1] < post_order_id_[b2] /\ b1' = idom_[b1] /\ b2' = b2
      \/ post_order_id_[b2] < post_order_id_[b1] /\ b2' = idom_[b2] /\ b1' = b1
  BY DEF Climb
<1>9. MeetBelow'
  <2>1. ASSUME NEW e \in Bbs, StrictlyDominates(f, e, BB)
        PROVE  Dominates(f, e, b1') /\ Dominates(f, e, b2')
    BY <1>4, <1>5, <1>6, <1>8, <2>1
  <2> QED BY <1>1, <1>2, <1>3, <2>1, Zenon DEF MeetBelow
<1>10. MeetAbove'
  <2>1. pred \in Bbs /\ b2' \in Ancestors(pred)
    BY <1>4, <1>5, <1>7, <1>8 DEF MeetAbove, JInv
  <2>2. ASSUME NEW m \in 1..met, HasIdom(f.pre[BB][m])
        PROVE  b1' \in Ancestors(f.pre[BB][m]) \/ b2' \in Ancestors(f.pre[BB][m])
    <3>1. f.pre[BB][m] \in Bbs
      BY <1>4
    <3> QED BY <1>4, <1>5, <1>7, <1>8, <2>2, <3>1
  <2> QED BY <1>1, <1>2, <1>3, <2>1, <2>2, Zenon DEF MeetAbove
<1>11. Solved'
  BY <1>1, <1>2 DEF JInv, Solved
<1> QED BY <1>2, <1>9, <1>10, <1>11 DEF JInv

\* All predecessors have been met: intersect has found what their ways up share.
LEMMA SetIdomJ ==
  ASSUME IInv, JInv, SetIdom
  PROVE  JInv'
<1>1. /\ pc = "meet" /\ pc' = "idom" /\ b1 = b2 /\ met = Len(f.pre[BB])
      /\ idom_' = [idom_ EXCEPT ![BB] = b2] /\ i' = i + 1
      /\ changed' = (changed \/ idom_[BB] # b2) /\ UNCHANGED <<f, dfs>>
  BY DEF SetIdom, Changed
<1>2. /\ f' = f /\ stack' = stack /\ order' = order /\ post_order_id_' = post_order_id_
      /\ root' = root /\ Bbs' = Bbs
  BY <1>1, SameCode DEF dfs
<1>3. /\ i < Len(order) /\ BB # root /\ i \in Nat /\ BB \in Bbs
      /\ BB = order[Len(order) + 1 - (i + 1)]
      /\ f.pre[BB] \in Seq(Block) /\ HasIdom(b2) /\ b2 \in Bbs
  BY <1>1, Current DEF IInv, MeetOK
<1>4. /\ \A e \in Bbs : StrictlyDominates(f, e, BB) => Dominates(f, e, b2)
      /\ \A m \in 1..met : HasIdom(f.pre[BB][m]) => b2 \in Ancestors(f.pre[BB][m])
  BY <1>1 DEF JInv, MeetBelow, MeetAbove
<1>5. DominatorsAfter'
  <2>1. Open' = Open /\ Finished' = Finished
    BY <1>2, Zenon DEF Open, Finished
  <2> QED BY <1>2, <2>1 DEF JInv, DominatorsAfter
<1>6. \A b \in Bbs : idom_'[b] = IF b = BB THEN b2 ELSE idom_[b]
  BY <1>1, Code DEF IInv, TypeOK
<1>7. DominatorsKept'
  <2>1. ASSUME NEW b \in Bbs \ {root}, idom_'[b] # NoBlock,
               NEW e \in Bbs, StrictlyDominates(f, e, b)
        PROVE  Dominates(f, e, idom_'[b])
    <3>1. CASE b = BB
      BY <1>4, <1>6, <2>1, <3>1
    <3>2. CASE b # BB
      BY <1>6, <2>1, <3>2 DEF JInv, DominatorsKept, HasIdom
    <3> QED BY <3>1, <3>2
  <2> QED BY <1>2, <2>1 DEF DominatorsKept, HasIdom
<1>8. ASSUME ~changed'
      PROVE  \A a \in 1..i' : Agrees(order[Len(order) + 1 - a])'
  <2>1. ~changed /\ idom_[BB] = b2
    BY <1>1, <1>8
  <2>2. idom_' = idom_
    BY <1>1, <1>3, <2>1, Code DEF IInv, TypeOK
  <2>3. \A b : Agrees(b)' = Agrees(b)
    BY <1>1, <2>2, GraphKept
  <2>4. Agrees(BB)
    <3>1. ASSUME NEW p \in Pre(BB), HasIdom(p) PROVE idom_[BB] \in Ancestors(p)
      <4>1. PICK m \in DOMAIN f.pre[BB] : p = f.pre[BB][m]
        BY DEF Pre
      <4>2. m \in 1..met
        BY <1>1, <1>3
      <4> QED BY <1>4, <2>1, <3>1, <4>1, <4>2
    <3> QED BY <3>1 DEF Agrees
  <2>5. \A a \in 1..i : Agrees(order[Len(order) + 1 - a])
    BY <1>1, <2>1 DEF JInv, Solved
  <2>6. \A a \in 1..(i + 1) : a \in 1..i \/ a = i + 1
    BY <1>3
  <2>7. \A a \in 1..(i + 1) : Agrees(order[Len(order) + 1 - a])
    BY <1>3, <2>4, <2>5, <2>6
  <2> QED BY <1>1, <1>2, <2>3, <2>7
<1>9. Solved'
  BY <1>1, <1>2, <1>8 DEF Solved
<1>10. MeetBelow' /\ MeetAbove'
  BY <1>1 DEF MeetBelow, MeetAbove
<1> QED BY <1>5, <1>7, <1>9, <1>10 DEF JInv

LEMMA NextPassJ ==
  ASSUME IInv, JInv, NextPass
  PROVE  JInv'
<1>1. pc = "idom" /\ pc' = "idom" /\ i' = 0 /\ UNCHANGED <<f, dfs, idom_>>
  BY DEF NextPass
<1>2. DominatorsAfter' /\ DominatorsKept'
  BY <1>1, GraphKept
<1>3. MeetBelow' /\ MeetAbove' /\ Solved'
  BY <1>1 DEF MeetBelow, MeetAbove, Solved
<1> QED BY <1>2, <1>3 DEF JInv

\* What comes after the iteration leaves the tree alone.
LEMMA FrontierJ ==
  ASSUME IInv, JInv, StartFrontier \/ NextBlock \/ StartWalk \/ Run \/ EndWalk \/ CreateTree
  PROVE  JInv'
<1>1. /\ pc # "visit" /\ pc' \in {"frontier", "walk", "done"} /\ ~changed /\ ~changed' /\ i' = i
      /\ UNCHANGED <<f, dfs, idom_>>
  BY DEF StartFrontier, NextBlock, StartWalk, Run, EndWalk, CreateTree, JInv, Solved
<1>2. /\ DominatorsAfter' /\ DominatorsKept' /\ order' = order
      /\ \A b : Agrees(b)' = Agrees(b)
  BY <1>1, GraphKept
<1>3. MeetBelow' /\ MeetAbove'
  BY <1>1 DEF MeetBelow, MeetAbove
<1>4. Solved'
  BY <1>1, <1>2 DEF JInv, Solved
<1> QED BY <1>2, <1>3, <1>4 DEF JInv

LEMMA StutterJ ==
  ASSUME IInv, JInv, UNCHANGED vars
  PROVE  JInv'
<1>1. UNCHANGED <<f, dfs, idom_, pc, i, changed, meet>>
  BY DEF vars
<1>2. /\ DominatorsAfter' /\ DominatorsKept' /\ order' = order /\ Bbs' = Bbs
      /\ \A b : /\ Agrees(b)' = Agrees(b) /\ Ancestors(b)' = Ancestors(b)
                /\ HasIdom(b)' = HasIdom(b)
  BY <1>1, GraphKept
<1>3. BB' = BB /\ b1' = b1 /\ b2' = b2 /\ pred' = pred /\ met' = met
  BY <1>1, <1>2 DEF BB, meet
<1>4. MeetBelow'
  BY <1>1, <1>2, <1>3 DEF JInv, MeetBelow
<1>5. MeetAbove'
  BY <1>1, <1>2, <1>3 DEF JInv, MeetAbove
<1>6. Solved'
  BY <1>1, <1>2 DEF JInv, Solved
<1> QED BY <1>2, <1>4, <1>5, <1>6 DEF JInv

LEMMA InductiveJ == Spec => []JInv
<1>1. IInv /\ JInv /\ [Next]_vars => JInv'
  BY SearchJ, SkipRootJ, StartMeetJ, NextPredJ, ClimbJ, SetIdomJ, NextPassJ, FrontierJ, StutterJ,
     Zenon DEF Next
<1> QED BY InitJInv, Inductive, <1>1, PTL DEF Spec

\* The iteration is over: each ancestor of a block in the tree dominates it.  The
\* blocks that do not have d above them are closed under the edges around d.
LEMMA AncestorsDominate ==
  ASSUME IInv, JInv, pc \in {"frontier", "walk", "done"},
         NEW b \in Bbs, NEW d \in Ancestors(b)
  PROVE  Dominates(f, d, b)
<1> DEFINE X == {x \in Bbs : d \notin Ancestors(x)}
<1>1. f \in Functions /\ root \in Bbs /\ d \in Bbs
  BY Code DEF IInv, Ancestors
<1>2. \A x \in Bbs : HasIdom(x)
  <2>1. i = Len(order)
    BY DEF IInv, IdomOK
  <2> QED BY <2>1, Numbers, Earlier
<1>3. \A x \in Bbs : Agrees(x)
  <2>1. i = Len(order) /\ ~changed
    BY DEF IInv, IdomOK, JInv, Solved
  <2>2. \A a \in 1..Len(order) : Agrees(order[Len(order) + 1 - a])
    BY <2>1 DEF JInv, Solved
  <2> SUFFICES ASSUME NEW x \in Bbs PROVE Agrees(x)
    OBVIOUS
  <2>3. post_order_id_[x] \in 0..(Len(order) - 1) /\ order[post_order_id_[x] + 1] = x
        /\ Len(order) \in Nat \ {0}
    BY Numbers
  <2>4. /\ Len(order) - post_order_id_[x] \in 1..Len(order)
        /\ Len(order) + 1 - (Len(order) - post_order_id_[x]) = post_order_id_[x] + 1
    BY <2>3
  <2> QED BY <2>2, <2>3, <2>4
<1>4. root \in X \cup {d}
  BY <1>1, <1>2, AncestorsUp
<1>5. ASSUME NEW x \in X, NEW s \in Succ(x), s # d PROVE s \in X
  <2>1. s \in Bbs /\ x \in Pre(s) /\ x \in Bbs
    BY <1>1, Code
  <2>2. CASE s = root
    BY <1>2, <1>5, <2>1, <2>2, AncestorsUp
  <2>3. CASE s # root
    <3>1. idom_[s] \in Ancestors(x)
      BY <1>2, <1>3, <2>1, <2>3 DEF Agrees
    \* What is above the idom of s is above x.
    <3>2. Ancestors(idom_[s]) \subseteq Ancestors(x)
      BY <3>1, Zenon DEF Ancestors
    <3> QED BY <1>2, <1>5, <2>1, <3>2, AncestorsUp
  <2> QED BY <2>2, <2>3
<1>6. X \subseteq Bbs \ {d}
  BY <1>1, AncestorsFacts
<1>7. Around(f, d, X) /\ X \in SUBSET Blocks(f)
  BY <1>1, <1>4, <1>5, <1>6, SameGraph DEF Around
<1> QED BY <1>7 DEF Dominates
-----------------------------------------------------------------------------
\* The iteration is over: the tree has the immediate dominators.
LEMMA TreeBuilt ==
  ASSUME IInv, JInv, pc \in {"frontier", "walk", "done"}
  PROVE  /\ \A b \in Bbs : HasIdom(b) /\ idom_[b] \in Bbs
         /\ \A b \in Bbs \ {root} : IsIdom(f, idom_[b], b)
<1>1. f \in Functions /\ Bbs = Blocks(f) /\ Bbs \subseteq Block
  BY SameGraph, Code DEF IInv
<1>2. \A b \in Bbs : HasIdom(b)
  <2>1. i = Len(order)
    BY DEF IInv, IdomOK
  <2> QED BY <2>1, Numbers, Earlier
<1>3. \A b \in Bbs : idom_[b] \in Bbs
  BY <1>1, <1>2 DEF IInv, IdomOK
<1>4. ASSUME NEW b \in Bbs, b # root PROVE IsIdom(f, idom_[b], b)
  <2>1. idom_[b] \in Ancestors(b)
    BY <1>2, AncestorsFacts
  <2>2. Dominates(f, idom_[b], b)
    BY <2>1, AncestorsDominate
  <2>3. idom_[b] # b
    <3>1. post_order_id_[b] < post_order_id_[idom_[b]]
      BY <1>1, <1>2, <1>4 DEF IInv, ParentsAbove, HasIdom
    <3>2. post_order_id_[b] \in Int
      BY Numbers
    <3> QED BY <3>1, <3>2
  <2>4. \A e \in Bbs : StrictlyDominates(f, e, b) => Dominates(f, e, idom_[b])
    BY <1>2, <1>4 DEF JInv, DominatorsKept
  <2> QED BY <1>1, <2>2, <2>3, <2>4 DEF IsIdom, StrictlyDominates
<1> QED BY <1>2, <1>3, <1>4

\* When create_idom ends idom_ has the closest strict dominator of every block but
\* the root, for every graph, every order of the lists of successors and
\* predecessors, and however many passes it took.
THEOREM Idoms == Spec => []IdomCorrect
<1>1. IInv /\ JInv => IdomCorrect
  BY TreeBuilt, Zenon DEF IdomCorrect
<1> QED BY Inductive, InductiveJ, <1>1, PTL
-----------------------------------------------------------------------------
(***************************************************************************)
(* The frontiers.  A walk goes up the dominators of a predecessor of a     *)
(* join, and stops at the closest one that also strictly dominates the     *)
(* join.                                                                   *)
(***************************************************************************)

\* The runner is between the predecessor and the idom of the join, and what
\* dominates the predecessor is passed unless it dominates the runner.
WalkAt ==
  pc = "walk" =>
    LET p == f.pre[Target][pre_at] IN
      /\ IsJoin(Target)
      /\ pre_at \in DOMAIN f.pre[Target]
      /\ Dominates(f, runner, p)
      /\ Dominates(f, idom_[Target], runner)
      /\ \A b \in Bbs : Dominates(f, b, p) =>
           Target \in dom_frontier_[b] \/ Dominates(f, b, runner)

InFrontier == \A b \in Bbs : dom_frontier_[b] \subseteq Frontier(f, b)

\* Predecessor m of block k was dealt with.
Passed(k, m) == k < bb_at \/ (k = bb_at /\ m < pre_at)

JoinsPassed ==
  \A k \in DOMAIN f.bbs : IsJoin(f.bbs[k]) =>
    \A m \in DOMAIN f.pre[f.bbs[k]] : Passed(k, m) =>
      \A b \in Bbs : Dominates(f, b, f.pre[f.bbs[k]][m]) =>
        f.bbs[k] \in dom_frontier_[b] \/ StrictlyDominates(f, b, f.bbs[k])

TreeOK ==
  pc = "done" =>
    /\ bb_at > Len(f.bbs)
    /\ \A b \in Bbs : dom_tree_succ_blocks_[b] = {c \in Bbs : idom_[c] = b /\ c # b}

KInv ==
  /\ WalkAt
  /\ InFrontier
  /\ JoinsPassed
  /\ TreeOK

-----------------------------------------------------------------------------
\* The entry dominates every block.
LEMMA RootDominates ==
  ASSUME f \in Functions, NEW b \in Bbs
  PROVE  Dominates(f, root, b)
<1>1. root = Entry(f) /\ Bbs = Blocks(f)
  BY SameGraph
<1>2. Around(f, root, {})
  BY <1>1 DEF Around
<1> QED BY <1>2 DEF Dominates

\* The block the frontier is at, and the edge a walk started with.
LEMMA TargetFacts ==
  ASSUME f \in Functions, TypeOK, bb_at <= Len(f.bbs)
  PROVE  /\ bb_at \in DOMAIN f.bbs /\ Target \in Bbs /\ Target \in Block
         /\ f.pre[Target] \in Seq(Block)
         /\ \A m \in DOMAIN f.pre[Target] : f.pre[Target][m] \in Bbs /\ f.pre[Target][m] \in PredsOf(f, Target)
         /\ IsJoin(Target) => Target # root
<1>1. bb_at \in DOMAIN f.bbs
  BY Code DEF TypeOK
<1>2. Target \in Bbs /\ Target \in Block /\ f.pre[Target] \in Seq(Block)
  BY <1>1, Code DEF Target, Bbs
<1>3. \A m \in DOMAIN f.pre[Target] : f.pre[Target][m] \in Pre(Target)
  BY DEF Pre
<1>4. Pre(Target) \subseteq Bbs /\ PredsOf(f, Target) = Pre(Target)
  BY <1>2, Code, SameGraph
<1>5. IsJoin(Target) => Target # root
  BY EntryAssumption DEF IsJoin, root
<1> QED BY <1>1, <1>2, <1>3, <1>4, <1>5

\* What keeps the function and the frontiers keeps what is said of the frontiers.
LEMMA FrontiersKept ==
  ASSUME KInv, UNCHANGED <<f, dom_frontier_, bb_at, pre_at>>
  PROVE  InFrontier' /\ JoinsPassed'
<1>1. Bbs' = Bbs
  BY SameCode
<1>2. InFrontier'
  BY <1>1, Zenon DEF KInv, InFrontier
<1>3. \A b : IsJoin(b)' = IsJoin(b)
  BY Zenon DEF IsJoin
<1>4. \A k, m : Passed(k, m)' = Passed(k, m)
  BY Zenon DEF Passed
<1>5. JoinsPassed'
  BY <1>1, <1>3, <1>4, Zenon DEF KInv, JoinsPassed
<1> QED BY <1>2, <1>5

LEMMA InitKInv == Init => KInv
<1> SUFFICES ASSUME Init PROVE KInv
  OBVIOUS
<1>1. /\ f \in Functions /\ pc = "visit" /\ bb_at = 1 /\ pre_at = 1
      /\ dom_frontier_ = [b \in Block |-> {}]
  BY DEF Init
<1>2. Bbs \subseteq Block /\ f.bbs \in Seq(Block) /\ \A b \in Block : f.pre[b] \in Seq(Block)
  BY <1>1, Code
<1>3. InFrontier
  BY <1>1, <1>2 DEF InFrontier
<1>4. JoinsPassed
  <2>1. ASSUME NEW k \in DOMAIN f.bbs, NEW m \in DOMAIN f.pre[f.bbs[k]] PROVE ~Passed(k, m)
    <3>1. f.bbs[k] \in Block /\ k >= 1
      BY <1>2
    <3>2. f.pre[f.bbs[k]] \in Seq(Block)
      BY <1>2, <3>1
    <3> QED BY <1>1, <1>2, <3>1, <3>2 DEF Passed
  <2> QED BY <2>1 DEF JoinsPassed
<1> QED BY <1>1, <1>3, <1>4 DEF KInv, WalkAt, TreeOK

\* Up to the start of the frontiers.
LEMMA BeforeK ==
  ASSUME KInv, \/ Descend \/ Number \/ Numbered \/ SkipRoot \/ StartMeet \/ NextPred \/ Climb
               \/ SetIdom \/ NextPass \/ StartFrontier
  PROVE  KInv'
<1>1. /\ UNCHANGED <<f, walk, dom_frontier_>>
      /\ pc' \in {"visit", "idom", "meet", "frontier"}
  BY DEF Descend, Number, Numbered, SkipRoot, StartMeet, NextPred, Climb, SetIdom, NextPass,
         StartFrontier
<1>2. InFrontier' /\ JoinsPassed'
  BY <1>1, FrontiersKept DEF walk
<1> QED BY <1>1, <1>2 DEF KInv, WalkAt, TreeOK

LEMMA NextBlockK ==
  ASSUME IInv, KInv, NextBlock
  PROVE  KInv'
<1>1. /\ pc' = "frontier" /\ f' = f /\ dom_frontier_' = dom_frontier_
      /\ bb_at <= Len(f.bbs) /\ bb_at' = bb_at + 1 /\ pre_at' = 1
      /\ ~IsJoin(Target) \/ pre_at > Len(f.pre[Target])
  BY DEF NextBlock
<1>2. Bbs' = Bbs
  BY <1>1, SameCode
<1>3. InFrontier'
  BY <1>1, <1>2, Zenon DEF KInv, InFrontier
<1>4. JoinsPassed'
  <2> SUFFICES ASSUME NEW k \in DOMAIN f.bbs, IsJoin(f.bbs[k]),
                      NEW m \in DOMAIN f.pre[f.bbs[k]], Passed(k, m)'
               PROVE  Passed(k, m)
    BY <1>1, <1>2, Zenon DEF KInv, JoinsPassed, IsJoin
  <2>1. f.bbs \in Seq(Block) /\ bb_at \in Nat /\ k \in Nat
    BY Code DEF IInv, TypeOK
  <2>2. f.bbs[k] \in Block
    BY <2>1
  <2>3. f.pre[f.bbs[k]] \in Seq(Block)
    BY <2>2, Code DEF IInv
  <2>4. m \in 1..Len(f.pre[f.bbs[k]])
    BY <2>3
  <2>5. k < bb_at + 1
    BY <1>1, <2>1, <2>4 DEF Passed
  <2>6. CASE k = bb_at
    <3>1. f.bbs[k] = Target
      BY <2>6 DEF Target
    <3>2. pre_at > Len(f.pre[f.bbs[k]])
      BY <1>1, <3>1
    <3>3. pre_at \in Nat
      BY DEF IInv, TypeOK
    <3> QED BY <2>3, <2>4, <2>6, <3>2, <3>3 DEF Passed
  <2>7. CASE k < bb_at
    BY <2>7 DEF Passed
  <2> QED BY <2>1, <2>5, <2>6, <2>7
<1> QED BY <1>1, <1>3, <1>4 DEF KInv, WalkAt, TreeOK

LEMMA StartWalkK ==
  ASSUME IInv, JInv, KInv, StartWalk
  PROVE  KInv'
<1>1. /\ pc = "frontier" /\ pc' = "walk" /\ UNCHANGED <<f, idom_, dom_frontier_, bb_at, pre_at>>
      /\ bb_at <= Len(f.bbs) /\ IsJoin(Target) /\ pre_at <= Len(f.pre[Target])
      /\ runner' = f.pre[Target][pre_at]
  BY DEF StartWalk
<1>2. InFrontier' /\ JoinsPassed'
  BY <1>1, FrontiersKept
<1>3. /\ Target \in Bbs \ {root} /\ f.pre[Target] \in Seq(Block)
      /\ \A m \in DOMAIN f.pre[Target] : f.pre[Target][m] \in Bbs /\ f.pre[Target][m] \in PredsOf(f, Target)
  BY <1>1, TargetFacts DEF IInv
<1>4. pre_at \in DOMAIN f.pre[Target]
  BY <1>1, <1>3 DEF IInv, TypeOK
<1>5. runner' \in Bbs /\ runner' \in PredsOf(f, Target)
  BY <1>1, <1>3, <1>4
<1>6. Bbs = Blocks(f) /\ EdgesInside(f)
  BY SameGraph DEF IInv
<1>7. Dominates(f, runner', runner')
  BY <1>5, <1>6, DominatesReflexive
<1>8. Dominates(f, idom_[Target], runner')
  <2>1. StrictlyDominates(f, idom_[Target], Target)
    BY <1>1, <1>3, TreeBuilt DEF IsIdom
  <2> QED BY <1>5, <2>1, DominatesPreds
<1>9. Target' = Target /\ IsJoin(Target)' = IsJoin(Target) /\ Bbs' = Bbs
  BY <1>1, SameCode DEF Target, IsJoin
<1>10. WalkAt'
  BY <1>1, <1>4, <1>7, <1>8, <1>9 DEF WalkAt
<1> QED BY <1>1, <1>2, <1>10 DEF KInv, TreeOK

\* The walk goes on from a runner that is not the idom of the join.  What strictly
\* dominates the runner dominates its idom, so only the runner is passed.
LEMMA RunK ==
  ASSUME IInv, JInv, KInv, Run
  PROVE  KInv'
<1> DEFINE p == f.pre[Target][pre_at]
<1>1. /\ pc = "walk" /\ pc' = "walk" /\ UNCHANGED <<f, idom_, bb_at, pre_at>>
      /\ runner # idom_[Target] /\ runner' = idom_[runner]
      /\ dom_frontier_' = [dom_frontier_ EXCEPT ![runner] = @ \cup {Target}]
  BY DEF Run, StopAt
<1>2. runner \in Bbs /\ bb_at <= Len(f.bbs) /\ f \in Functions /\ Bbs \subseteq Block
  BY <1>1, Code DEF IInv, WalkOK
<1>3. /\ Target \in Bbs \ {root}
      /\ \A m \in DOMAIN f.pre[Target] : f.pre[Target][m] \in Bbs /\ f.pre[Target][m] \in PredsOf(f, Target)
      /\ IsJoin(Target) /\ pre_at \in DOMAIN f.pre[Target]
      /\ Dominates(f, runner, p) /\ Dominates(f, idom_[Target], runner)
      /\ \A b \in Bbs : Dominates(f, b, p) => Target \in dom_frontier_[b] \/ Dominates(f, b, runner)
  BY <1>1, <1>2, TargetFacts DEF IInv, KInv, WalkAt
<1>4. /\ Bbs = Blocks(f) /\ AllReached(f) /\ idom_[Target] \in Bbs /\ idom_[runner] \in Bbs
      /\ IsIdom(f, idom_[Target], Target)
  BY <1>1, <1>2, <1>3, SameGraph, TreeBuilt
<1>5. runner # root
  <2> SUFFICES ASSUME runner = root PROVE FALSE
    OBVIOUS
  <2>1. Dominates(f, runner, idom_[Target])
    BY <1>2, <1>4, RootDominates
  <2> QED BY <1>1, <1>2, <1>3, <1>4, <2>1, DominatesAntisymmetric
<1>6. IsIdom(f, idom_[runner], runner)
  BY <1>1, <1>2, <1>5, TreeBuilt
<1>7. Dominates(f, runner', p)
  <2>1. Dominates(f, idom_[runner], runner)
    BY <1>6 DEF IsIdom, StrictlyDominates
  <2> QED BY <1>1, <1>3, <2>1, DominatesTransitive
<1>8. Dominates(f, idom_[Target], runner')
  BY <1>1, <1>3, <1>4, <1>6 DEF IsIdom, StrictlyDominates
<1>9. \A b \in Bbs : /\ dom_frontier_[b] \subseteq dom_frontier_'[b]
                     /\ dom_frontier_'[b] \subseteq dom_frontier_[b] \cup {Target}
                     /\ b # runner => dom_frontier_'[b] = dom_frontier_[b]
                     /\ Target \in dom_frontier_'[runner]
  BY <1>1, <1>2 DEF IInv, TypeOK
<1>10. Target' = Target /\ Bbs' = Bbs /\ \A b : IsJoin(b)' = IsJoin(b)
  BY <1>1, SameCode DEF Target, IsJoin
<1>11. WalkAt'
  <2>1. ASSUME NEW b \in Bbs, Dominates(f, b, p)
        PROVE  Target \in dom_frontier_'[b] \/ Dominates(f, b, idom_[runner])
    <3>1. CASE Target \in dom_frontier_[b] \/ b = runner
      BY <1>9, <3>1
    <3>2. CASE Dominates(f, b, runner) /\ b # runner
      BY <1>4, <1>6, <3>2 DEF IsIdom, StrictlyDominates
    <3> QED BY <1>3, <2>1, <3>1, <3>2
  <2> QED BY <1>1, <1>3, <1>7, <1>8, <1>10, <2>1 DEF WalkAt
<1>12. InFrontier'
  <2>1. ~StrictlyDominates(f, runner, Target)
    <3> SUFFICES ASSUME StrictlyDominates(f, runner, Target) PROVE FALSE
      OBVIOUS
    <3>1. Dominates(f, runner, idom_[Target])
      BY <1>2, <1>4 DEF IsIdom
    <3> QED BY <1>1, <1>2, <1>3, <1>4, <3>1, DominatesAntisymmetric
  <2>2. Target \in Frontier(f, runner)
    BY <1>3, <1>4, <2>1 DEF Frontier
  <2>3. \A b \in Bbs : dom_frontier_'[b] \subseteq Frontier(f, b)
    BY <1>9, <2>2 DEF KInv, InFrontier
  <2> QED BY <1>1, <1>10, <2>3 DEF InFrontier
<1>13. JoinsPassed'
  <2> SUFFICES ASSUME NEW k \in DOMAIN f'.bbs, IsJoin(f.bbs[k])',
                      NEW m \in DOMAIN f'.pre[f'.bbs[k]], Passed(k, m)', NEW b \in Bbs',
                      Dominates(f', b, f'.pre[f'.bbs[k]][m])
               PROVE  f'.bbs[k] \in dom_frontier_'[b] \/ StrictlyDominates(f', b, f'.bbs[k])
    BY Zenon DEF JoinsPassed
  <2>1. f' = f /\ b \in Bbs
    BY ONLY <1>1, <1>10
  <2>2. Passed(k, m)
    BY <1>1, Zenon DEF Passed
  <2>3. IsJoin(f.bbs[k])
    BY <1>10, <2>1, Zenon
  <2>4. f.bbs[k] \in dom_frontier_[b] \/ StrictlyDominates(f, b, f.bbs[k])
    BY <2>1, <2>2, <2>3, Zenon DEF KInv, JoinsPassed
  <2> QED BY <1>9, <2>1, <2>4, Zenon
<1> QED BY <1>1, <1>11, <1>12, <1>13 DEF KInv, TreeOK

\* The walk has reached the idom of the join: what dominates that strictly
\* dominates the join, and everything else was passed.
LEMMA EndWalkK ==
  ASSUME IInv, JInv, KInv, EndWalk
  PROVE  KInv'
<1> DEFINE p == f.pre[Target][pre_at]
<1>1. /\ pc = "walk" /\ pc' = "frontier" /\ UNCHANGED <<f, idom_, bb_at, dom_frontier_>>
      /\ runner = idom_[Target] /\ pre_at' = pre_at + 1
  BY DEF EndWalk, StopAt
<1>2. /\ Target \in Bbs \ {root}
      /\ IsJoin(Target) /\ pre_at \in DOMAIN f.pre[Target]
      /\ \A b \in Bbs : Dominates(f, b, p) => Target \in dom_frontier_[b] \/ Dominates(f, b, runner)
  BY <1>1, TargetFacts DEF IInv, WalkOK, KInv, WalkAt
<1>3. Bbs = Blocks(f) /\ AllReached(f) /\ idom_[Target] \in Bbs /\ IsIdom(f, idom_[Target], Target)
  BY <1>1, <1>2, SameGraph, TreeBuilt DEF IInv
<1>4. ASSUME NEW b \in Bbs, Dominates(f, b, idom_[Target]) PROVE StrictlyDominates(f, b, Target)
  <2>1. Dominates(f, idom_[Target], Target) /\ idom_[Target] # Target
    BY <1>3 DEF IsIdom, StrictlyDominates
  <2>2. Dominates(f, b, Target)
    BY <1>4, <2>1, DominatesTransitive
  <2>3. b # Target
    BY <1>2, <1>3, <1>4, <2>1, DominatesAntisymmetric
  <2> QED BY <2>2, <2>3 DEF StrictlyDominates
<1>5. Bbs' = Bbs /\ \A b : IsJoin(b)' = IsJoin(b)
  BY <1>1, SameCode DEF IsJoin
<1>6. InFrontier'
  BY <1>1, <1>5, Zenon DEF KInv, InFrontier
<1>7. JoinsPassed'
  <2> SUFFICES ASSUME NEW k \in DOMAIN f.bbs, IsJoin(f.bbs[k]),
                      NEW m \in DOMAIN f.pre[f.bbs[k]], Passed(k, m)',
                      NEW b \in Bbs, Dominates(f, b, f.pre[f.bbs[k]][m])
               PROVE  f.bbs[k] \in dom_frontier_[b] \/ StrictlyDominates(f, b, f.bbs[k])
    BY <1>1, <1>5, Zenon DEF JoinsPassed
  <2>1. CASE Passed(k, m)
    BY <2>1 DEF KInv, JoinsPassed
  <2>2. CASE ~Passed(k, m)
    <3>1. f.bbs \in Seq(Block) /\ \A x \in Block : f.pre[x] \in Seq(Block)
      BY Code DEF IInv
    <3>2. f.bbs[k] \in Block
      BY <3>1
    <3>3. m \in Nat
      BY <3>1, <3>2
    <3>4. k = bb_at /\ m = pre_at
      BY <1>1, <2>2, <3>1, <3>3 DEF Passed, IInv, TypeOK
    <3> QED BY <1>1, <1>2, <1>4, <3>4 DEF Target
  <2> QED BY <2>1, <2>2
<1> QED BY <1>1, <1>6, <1>7 DEF KInv, WalkAt, TreeOK

LEMMA CreateTreeK ==
  ASSUME IInv, KInv, CreateTree
  PROVE  KInv'
<1>1. /\ pc' = "done" /\ UNCHANGED <<f, idom_, bb_at, pre_at, dom_frontier_>>
      /\ bb_at > Len(f.bbs)
      /\ dom_tree_succ_blocks_' = [b \in Block |-> {c \in Bbs : idom_[c] = b /\ c # b}]
  BY DEF CreateTree, walk
<1>2. InFrontier' /\ JoinsPassed'
  BY <1>1, FrontiersKept
<1>3. Bbs' = Bbs /\ Bbs \subseteq Block
  BY <1>1, SameCode, Code DEF IInv
<1>4. \A b \in Bbs : dom_tree_succ_blocks_'[b] = {c \in Bbs : idom_[c] = b /\ c # b}
  BY <1>1, <1>3
<1>5. TreeOK'
  BY <1>1, <1>3, <1>4 DEF TreeOK
<1> QED BY <1>1, <1>2, <1>5 DEF KInv, WalkAt

LEMMA StutterK ==
  ASSUME KInv, UNCHANGED vars
  PROVE  KInv'
<1>1. UNCHANGED <<f, pc, idom_, dom_frontier_, bb_at, pre_at, runner, dom_tree_succ_blocks_>>
  BY DEF vars, walk
<1>2. InFrontier' /\ JoinsPassed'
  BY <1>1, FrontiersKept
<1>3. Target' = Target /\ Bbs' = Bbs /\ IsJoin(Target)' = IsJoin(Target)
  BY <1>1, SameCode DEF Target, IsJoin
<1>4. WalkAt' /\ TreeOK'
  BY <1>1, <1>3 DEF KInv, WalkAt, TreeOK
<1> QED BY <1>2, <1>4 DEF KInv

LEMMA InductiveK == Spec => []KInv
<1>1. IInv /\ JInv /\ KInv /\ [Next]_vars => KInv'
  BY BeforeK, NextBlockK, StartWalkK, RunK, EndWalkK, CreateTreeK, StutterK, Zenon DEF Next
<1> QED BY InitKInv, Inductive, InductiveJ, <1>1, PTL DEF Spec

\* All joins are passed; a block with one predecessor is in no frontier.
LEMMA AllInFrontier ==
  ASSUME IInv, KInv, pc = "done", NEW b \in Bbs
  PROVE  Frontier(f, b) \subseteq dom_frontier_[b]
<1> SUFFICES ASSUME NEW n \in Frontier(f, b) PROVE n \in dom_frontier_[b]
  OBVIOUS
<1>1. /\ f \in Functions /\ f.bbs \in Seq(Block) /\ Bbs \subseteq Block
      /\ Bbs = Blocks(f) /\ root = Entry(f) /\ EdgesInside(f) /\ AllReached(f)
  BY Code, SameGraph DEF IInv
<1>2. n \in Bbs /\ ~StrictlyDominates(f, b, n)
  BY <1>1 DEF Frontier
<1>3. PICK p \in PredsOf(f, n) : Dominates(f, b, p)
  BY DEF Frontier
<1>4. PredsOf(f, n) = Pre(n) /\ f.pre[n] \in Seq(Block)
  BY <1>1, <1>2, SameGraph, Code
<1>5. PICK m \in DOMAIN f.pre[n] : f.pre[n][m] = p
  BY <1>4 DEF Pre
<1>6. CASE IsJoin(n)
  <2>1. PICK k \in DOMAIN f.bbs : f.bbs[k] = n
    BY <1>2 DEF Bbs
  <2>2. Passed(k, m)
    BY <1>1 DEF Passed, KInv, TreeOK, IInv, TypeOK
  <2> QED BY <1>2, <1>3, <1>5, <1>6, <2>1, <2>2 DEF KInv, JoinsPassed
<1>7. CASE ~IsJoin(n)
  <2>1. Len(f.pre[n]) = 1 /\ DOMAIN f.pre[n] = {1} /\ m = 1
    <3> DEFINE l == Len(f.pre[n])
    <3>1. l \in Nat /\ DOMAIN f.pre[n] = 1..l
      BY <1>4
    <3>2. ~(l >= 2)
      BY <1>7 DEF IsJoin
    <3> HIDE DEF l
    <3>3. m \in Nat /\ 1 <= m /\ m <= l
      BY <3>1
    <3>4. l = 1 /\ m = 1
      BY <3>1, <3>2, <3>3
    <3>5. 1..1 = {1}
      OBVIOUS
    <3> QED BY <3>1, <3>4, <3>5 DEF l
  <2>2. PredsOf(f, n) = {p}
    BY <1>4, <1>5, <2>1 DEF Pre
  <2>3. n # Entry(f)
    <3>1. f.pre[Entry(f)] = << >>
      BY <1>1, EntryAssumption, Zenon DEF Entry
    <3>2. Len(<< >>) # 1
      OBVIOUS
    <3> QED BY <2>1, <3>1, <3>2, Zenon
  <2> QED BY <1>1, <1>2, <1>3, <2>2, <2>3, OnePred
<1> QED BY <1>6, <1>7

\* create_dominance_frontier finds the frontier of every block and
\* create_dom_tree_succ the blocks each one is the idom of, for every graph whose
\* blocks are all reachable from an entry that nothing jumps to.
THEOREM Frontiers == Spec => []FrontierCorrect
<1>1. IInv /\ JInv /\ KInv => FrontierCorrect
  <2> SUFFICES ASSUME IInv, JInv, KInv, pc = "done", NEW b \in Bbs
               PROVE  /\ dom_frontier_[b] = Frontier(f, b)
                      /\ dom_tree_succ_blocks_[b] = {c \in Bbs \ {root} : IsIdom(f, b, c)}
    BY Zenon DEF FrontierCorrect
  <2>1. dom_frontier_[b] = Frontier(f, b)
    BY AllInFrontier DEF KInv, InFrontier
  <2>2. AllReached(f) /\ Bbs = Blocks(f) /\ idom_[root] = root
    BY SameGraph DEF IInv, IdomOK
  <2>3. \A c \in Bbs \ {root} : idom_[c] \in Bbs /\ IsIdom(f, idom_[c], c)
    BY TreeBuilt
  <2>4. \A c \in Bbs : (idom_[c] = b /\ c # b) <=> (c # root /\ IsIdom(f, b, c))
    <3> SUFFICES ASSUME NEW c \in Bbs
                 PROVE  (idom_[c] = b /\ c # b) <=> (c # root /\ IsIdom(f, b, c))
      OBVIOUS
    <3>1. ASSUME idom_[c] = b, c # b PROVE c # root /\ IsIdom(f, b, c)
      BY <2>2, <2>3, <3>1
    <3>2. ASSUME c # root, IsIdom(f, b, c) PROVE idom_[c] = b /\ c # b
      <4>1. idom_[c] = b
        BY <2>2, <2>3, <3>2, IdomUnique
      <4>2. c # b
        BY <3>2 DEF IsIdom, StrictlyDominates
      <4> QED BY <4>1, <4>2
    <3> QED BY <3>1, <3>2
  <2>5. dom_tree_succ_blocks_[b] = {c \in Bbs : idom_[c] = b /\ c # b}
    BY DEF KInv, TreeOK
  <2> QED BY <2>1, <2>4, <2>5
<1> QED BY Inductive, InductiveJ, InductiveK, <1>1, PTL

=============================================================================
