------------------------ MODULE ConstPropagation_proofs ------------------------
(***************************************************************************)
(* Theorems about ConstPropagation, for every function: use lists stay     *)
(* exact, nothing reads what was replaced, one pass folds everything but   *)
(* zext where definitions are listed before their uses, and the function   *)
(* does what it did before the pass.                                       *)
(***************************************************************************)
EXTENDS ConstSemantics, LightIR_proofs

\* A value is no instruction, or is computed before instruction j of b; by the
\* order of the blocks, before instruction j of block number k.
Precedes(v, b, j) == v \notin InstrsIn(f) \/ Available(f, v, b, j)
Earlier(v, k, j) ==
  \/ v \notin InstrsIn(f)
  \/ \E m \in 1..(k - 1) : v \in Range(f.code[f.bbs[m]])
  \/ \E m \in 1..(j - 1) : f.code[f.bbs[k]][m] = v

\* Blocks and instructions that were dealt with.
Left(b)      == pc = "done" \/ \E k \in 1..(at - 1) : f.bbs[k] = b
Passed(b, j) == Left(b) \/ (b = bb /\ j <= line)

\* A block is as it was, or has lost what was replaced.
CodeOK ==
  /\ pc \in {"instr", "done", "crash"}
  /\ at \in DOMAIN f.bbs
  /\ line \in Nat
  /\ pc # "done" => line <= Len(f.code[bb])
  /\ pc = "done" => at = Len(f.bbs)
  /\ IsData(ir)
  /\ DOMAIN ir.code = Block /\ DOMAIN ir.operands = InstrsIn(f)
  /\ InstrsIn(f) \subseteq DOMAIN ir.use_list
  /\ \A x \in InstrsIn(f) : DOMAIN ir.operands[x] = DOMAIN f.operands[x]
  /\ \A b \in Block : /\ ~Left(b) => ir.code[b] = f.code[b]
                      /\ Left(b) => Range(ir.code[b]) = Range(f.code[b]) \ delete_list
  /\ \A x \in delete_list : \E b \in Block : \E j \in DOMAIN f.code[b] : f.code[b][j] = x /\ Passed(b, j)

\* Values still precede their readers, by dominance and by the order of the blocks.
OperandsOK ==
  \A b \in Block : \A j \in DOMAIN f.code[b] :
    f.opcode[f.code[b][j]] # "phi" =>
      \A i \in DOMAIN ir.operands[f.code[b][j]] : Precedes(ir.operands[f.code[b][j]][i], b, j)

OrderOK ==
  ReadsEarlier =>
    \A k \in DOMAIN f.bbs : \A j \in DOMAIN f.code[f.bbs[k]] :
      f.opcode[f.code[f.bbs[k]][j]] # "phi" =>
        \A i \in DOMAIN ir.operands[f.code[f.bbs[k]][j]] :
          Earlier(ir.operands[f.code[f.bbs[k]][j]][i], k, j)

\* What the map holds may take the place of the next instruction.
Replacement(v) ==
  /\ v \notin delete_list
  /\ Precedes(v, bb, line + 1)
  /\ ReadsEarlier => Earlier(v, at, line + 1)

MapOK == \A k \in DOMAIN map_ : Replacement(map_[k])

\* Only what was replaced has a use list that is not exact, and nothing reads it.
UsesOK  == \A v \in DOMAIN ir.use_list \ delete_list : Exact(ir, InstrsIn(ir), v)
ReadsOK == \A x \in InstrsIn(ir) : \A i \in DOMAIN ir.operands[x] : ir.operands[x][i] \notin delete_list

\* x is an instruction on constants that run has a case for.
Foldable(x) ==
  \/ /\ f.opcode[x] \in IntOps \cup Compares \cup {"sitofp"}
     /\ \A v \in Range(ir.operands[x]) : v[1] = "const"
  \/ /\ f.opcode[x] \in FloatOps \cup FCompares \cup {"fptosi"}
     /\ \A v \in Range(ir.operands[x]) : v[1] = "fconst"

FoldedOK ==
  ReadsEarlier =>
    \A b \in Block : \A j \in DOMAIN f.code[b] :
      Passed(b, j) /\ f.code[b][j] \notin delete_list => ~Foldable(f.code[b][j])

IInv ==
  /\ f \in Functions
  /\ CodeOK
  /\ OperandsOK
  /\ OrderOK
  /\ MapOK
  /\ UsesOK
  /\ ReadsOK
  /\ FoldedOK

-----------------------------------------------------------------------------
\* What IsFunction says of the function: its lists,
LEMMA Lists ==
  ASSUME f \in Functions
  PROVE  /\ Len(f.bbs) \in Nat \ {0} /\ DOMAIN f.bbs = 1..Len(f.bbs)
         /\ \A k \in DOMAIN f.bbs : k \in Nat \ {0} /\ f.bbs[k] \in Block
         /\ \A b \in Block : Len(f.code[b]) \in Nat /\ DOMAIN f.code[b] = 1..Len(f.code[b])
         /\ \A b \in Block : \A j \in DOMAIN f.code[b] : j \in Nat \ {0} /\ f.code[b][j] \in InstrsIn(f)
<1>1. f.bbs \in Seq(Block) /\ f.bbs # << >> /\ f.code \in [Block -> Seq(InstrsIn(f))]
  <2>1. IsFunction(f)
    BY FunctionsAssumption
  <2> QED BY <2>1, Zenon DEF IsFunction
<1>2. Len(f.bbs) \in Nat \ {0} /\ DOMAIN f.bbs = 1..Len(f.bbs)
  BY <1>1
<1>3. \A k \in DOMAIN f.bbs : k \in Nat \ {0} /\ f.bbs[k] \in Block
  BY <1>1
<1>4. ASSUME NEW b \in Block
      PROVE  /\ Len(f.code[b]) \in Nat /\ DOMAIN f.code[b] = 1..Len(f.code[b])
             /\ \A j \in DOMAIN f.code[b] : j \in Nat \ {0} /\ f.code[b][j] \in InstrsIn(f)
  <2>1. f.code[b] \in Seq(InstrsIn(f))
    BY <1>1
  <2> QED BY <2>1
<1> QED BY <1>2, <1>3, <1>4, Zenon

\* its graph,
LEMMA Graph ==
  ASSUME f \in Functions
  PROVE  /\ EdgesInside(f) /\ AllReached(f) /\ Blocks(f) \subseteq Block
         /\ \A b \in Block : \A j \in DOMAIN f.code[b] : b \in Blocks(f)
         /\ \A b \in Blocks(f) : \E k \in DOMAIN f.bbs : f.bbs[k] = b
<1>1. /\ f.succ \in [Block -> Seq(Blocks(f))]
      /\ \A b \in Block \ Blocks(f) : f.code[b] = << >>
      /\ \A X \in SUBSET Blocks(f) :
           Entry(f) \in X /\ (\A b \in X : SuccOf(f, b) \subseteq X) => X = Blocks(f)
  <2>1. IsFunction(f)
    BY FunctionsAssumption
  <2> QED BY <2>1, Zenon DEF IsFunction
<1>2. AllReached(f)
  BY <1>1, Zenon DEF AllReached
<1>3. Blocks(f) \subseteq Block /\ Entry(f) \in Blocks(f)
  BY Lists DEF Blocks, Entry
<1>4. \A b \in Blocks(f) : SuccOf(f, b) \subseteq Blocks(f)
  BY <1>1, <1>3 DEF SuccOf
<1>5. EdgesInside(f)
  BY <1>3, <1>4 DEF EdgesInside
<1>6. \A b \in Block : \A j \in DOMAIN f.code[b] : b \in Blocks(f)
  BY <1>1
<1>7. \A b \in Blocks(f) : \E k \in DOMAIN f.bbs : f.bbs[k] = b
  BY DEF Blocks
<1> QED BY <1>2, <1>3, <1>5, <1>6, <1>7

\* and that a block and an instruction are in one place.
LEMMA Places ==
  ASSUME f \in Functions
  PROVE  /\ \A k, m \in DOMAIN f.bbs : f.bbs[k] = f.bbs[m] => k = m
         /\ \A b, c \in Block : \A j \in DOMAIN f.code[b] : \A k \in DOMAIN f.code[c] :
              f.code[b][j] = f.code[c][k] => b = c /\ j = k
         /\ \A x \in InstrsIn(f) : \E b \in Block : \E j \in DOMAIN f.code[b] : f.code[b][j] = x
<1>1. /\ IsInjective(f.bbs)
      /\ \A b \in Block : IsInjective(f.code[b])
      /\ \A b, c \in Block : b # c => Range(f.code[b]) \cap Range(f.code[c]) = {}
  <2>1. IsFunction(f)
    BY FunctionsAssumption
  <2> QED BY <2>1, Zenon DEF IsFunction
<1>2. \A k, m \in DOMAIN f.bbs : f.bbs[k] = f.bbs[m] => k = m
  BY <1>1, Zenon DEF IsInjective
<1>3. ASSUME NEW b \in Block, NEW c \in Block, NEW j \in DOMAIN f.code[b], NEW k \in DOMAIN f.code[c],
             f.code[b][j] = f.code[c][k]
      PROVE  b = c /\ j = k
  <2>1. f.code[b][j] \in Range(f.code[b]) /\ f.code[c][k] \in Range(f.code[c])
    BY DEF Range
  <2>2. b = c
    BY <1>1, <1>3, <2>1
  <2> QED BY <1>1, <1>3, <2>2, Zenon DEF IsInjective
<1>4. \A x \in InstrsIn(f) : \E b \in Block : \E j \in DOMAIN f.code[b] : f.code[b][j] = x
  BY Zenon DEF InstrsIn, Range
<1> QED BY <1>2, <1>3, <1>4, Zenon

LEMMA Kinds ==
  ASSUME f \in Functions, NEW x \in InstrsIn(f)
  PROVE  /\ x[1] \notin {"const", "fconst"} /\ x # Zero
         /\ f.opcode[x] \in Binary \cup {"store"} => DOMAIN f.operands[x] = 1..2
         /\ f.opcode[x] \in {"load", "fptosi", "sitofp"} => DOMAIN f.operands[x] = 1..1
<1>1. IsFunction(f)
  BY FunctionsAssumption
<1>2. /\ x[1] \notin {"const", "fconst"} /\ x # Zero
      /\ f.opcode[x] \in Binary \cup {"store"} => Len(f.operands[x]) = 2
      /\ f.opcode[x] \in {"load", "fptosi", "sitofp"} => Len(f.operands[x]) = 1
  BY <1>1, Zenon DEF IsFunction
<1>3. f.operands \in [InstrsIn(f) -> Seq(ValuesIn(f))]
  BY <1>1, Zenon DEF IsFunction
<1>4. DOMAIN f.operands[x] = 1..Len(f.operands[x])
  BY <1>3
<1> QED BY <1>2, <1>4

\* What precedes an instruction is another one, and what precedes that precedes
\* whatever reads it.
LEMMA PrecedesOrder ==
  ASSUME f \in Functions, NEW d \in Block, NEW h \in DOMAIN f.code[d],
         NEW v, Precedes(v, d, h)
  PROVE  /\ v # f.code[d][h]
         /\ \A b \in Block : \A j \in DOMAIN f.code[b] :
              Precedes(f.code[d][h], b, j) => Precedes(v, b, j)
<1>1. CASE v \notin InstrsIn(f)
  BY <1>1, Lists DEF Precedes
<1>2. CASE \E m \in 1..(h - 1) : f.code[d][m] = v
  <2>1. PICK m \in 1..(h - 1) : f.code[d][m] = v
    BY <1>2
  <2>2. m \in DOMAIN f.code[d] /\ m \in Nat /\ h \in Nat /\ m < h
    BY Lists
  <2>3. v # f.code[d][h]
    BY <2>1, <2>2, Places
  <2>4. ASSUME NEW b \in Block, NEW j \in DOMAIN f.code[b], Precedes(f.code[d][h], b, j)
        PROVE  Precedes(v, b, j)
    <3>1. Available(f, f.code[d][h], b, j)
      BY <2>4, Lists DEF Precedes
    <3>2. CASE \E n \in 1..(j - 1) : f.code[b][n] = f.code[d][h]
      <4>1. PICK n \in 1..(j - 1) : f.code[b][n] = f.code[d][h]
        BY <3>2
      <4>2. n \in DOMAIN f.code[b] /\ j \in Nat
        BY Lists
      <4>3. b = d /\ n = h
        BY <4>1, <4>2, Places
      <4>4. m \in 1..(j - 1)
        BY <2>2, <4>2, <4>3
      <4> QED BY <2>1, <4>3, <4>4 DEF Precedes, Available
    <3>3. CASE \E e \in Blocks(f) : StrictlyDominates(f, e, b) /\ f.code[d][h] \in Range(f.code[e])
      <4>1. PICK e \in Blocks(f) : StrictlyDominates(f, e, b) /\ f.code[d][h] \in Range(f.code[e])
        BY <3>3
      <4>2. e = d
        BY <4>1, Places, Graph DEF Range
      <4>3. v \in Range(f.code[d])
        BY <2>1, <2>2 DEF Range
      <4> QED BY <4>1, <4>2, <4>3 DEF Precedes, Available
    <3> QED BY <3>1, <3>2, <3>3 DEF Available
  <2> QED BY <2>3, <2>4
<1>3. CASE \E c \in Blocks(f) : StrictlyDominates(f, c, d) /\ v \in Range(f.code[c])
  <2>1. PICK c \in Blocks(f) : StrictlyDominates(f, c, d) /\ v \in Range(f.code[c])
    BY <1>3
  <2>2. PICK m \in DOMAIN f.code[c] : f.code[c][m] = v
    BY <2>1 DEF Range
  <2>3. c # d /\ Dominates(f, c, d) /\ c \in Block /\ d \in Blocks(f)
    BY <2>1, Graph DEF StrictlyDominates
  <2>4. v # f.code[d][h]
    BY <2>2, <2>3, Places
  <2>5. ASSUME NEW b \in Block, NEW j \in DOMAIN f.code[b], Precedes(f.code[d][h], b, j)
        PROVE  Precedes(v, b, j)
    <3>1. Available(f, f.code[d][h], b, j)
      BY <2>5, Lists DEF Precedes
    <3>2. CASE \E n \in 1..(j - 1) : f.code[b][n] = f.code[d][h]
      <4>1. PICK n \in 1..(j - 1) : f.code[b][n] = f.code[d][h]
        BY <3>2
      <4>2. n \in DOMAIN f.code[b] /\ j \in Nat
        BY Lists
      <4>3. b = d
        BY <4>1, <4>2, Places
      <4> QED BY <2>1, <4>3 DEF Precedes, Available
    <3>3. CASE \E e \in Blocks(f) : StrictlyDominates(f, e, b) /\ f.code[d][h] \in Range(f.code[e])
      <4>1. PICK e \in Blocks(f) : StrictlyDominates(f, e, b) /\ f.code[d][h] \in Range(f.code[e])
        BY <3>3
      <4>2. e = d
        BY <4>1, Graph, Places DEF Range
      <4>3. Dominates(f, c, b)
        BY <2>3, <4>1, <4>2, DominatesTransitive DEF StrictlyDominates
      <4>4. c # b
        BY <2>3, <4>1, <4>2, Graph, DominatesAntisymmetric DEF StrictlyDominates
      <4> QED BY <2>1, <4>3, <4>4 DEF Precedes, Available, StrictlyDominates
    <3> QED BY <3>1, <3>2, <3>3 DEF Available
  <2> QED BY <2>4, <2>5
<1> QED BY <1>1, <1>2, <1>3 DEF Precedes, Available

\* The same for the order of the blocks.
LEMMA EarlierOrder ==
  ASSUME f \in Functions, NEW k \in DOMAIN f.bbs, NEW h \in DOMAIN f.code[f.bbs[k]],
         NEW v, Earlier(v, k, h)
  PROVE  \A m \in DOMAIN f.bbs : \A j \in DOMAIN f.code[f.bbs[m]] :
           Earlier(f.code[f.bbs[k]][h], m, j) =>
             /\ Earlier(v, m, j)
             /\ k < m \/ (k = m /\ h < j)
<1>1. k \in Nat /\ f.bbs[k] \in Block /\ h \in Nat /\ f.code[f.bbs[k]][h] \in InstrsIn(f)
  BY Lists
<1> SUFFICES ASSUME NEW m \in DOMAIN f.bbs, NEW j \in DOMAIN f.code[f.bbs[m]],
                    Earlier(f.code[f.bbs[k]][h], m, j)
             PROVE  /\ Earlier(v, m, j)
                    /\ k < m \/ (k = m /\ h < j)
  OBVIOUS
<1>2. m \in Nat /\ f.bbs[m] \in Block /\ j \in Nat
  BY Lists
<1>3. k < m \/ (k = m /\ h < j)
  <2>1. CASE \E n \in 1..(m - 1) : f.code[f.bbs[k]][h] \in Range(f.code[f.bbs[n]])
    <3>1. PICK n \in 1..(m - 1) : f.code[f.bbs[k]][h] \in Range(f.code[f.bbs[n]])
      BY <2>1
    <3>2. n \in DOMAIN f.bbs /\ f.bbs[n] \in Block
      BY Lists
    <3>3. n = k
      BY <1>1, <3>1, <3>2, Places DEF Range
    <3> QED BY <1>2, <3>1, <3>3
  <2>2. CASE \E n \in 1..(j - 1) : f.code[f.bbs[m]][n] = f.code[f.bbs[k]][h]
    <3>1. PICK n \in 1..(j - 1) : f.code[f.bbs[m]][n] = f.code[f.bbs[k]][h]
      BY <2>2
    <3>2. n \in DOMAIN f.code[f.bbs[m]]
      BY <1>2, Lists
    <3>3. f.bbs[m] = f.bbs[k] /\ n = h
      <4>1. f.bbs[k] \in Block /\ f.bbs[m] \in Block
        BY <1>1, <1>2
      <4>2. \A i \in DOMAIN f.code[f.bbs[m]] : \A l \in DOMAIN f.code[f.bbs[k]] :
              f.code[f.bbs[m]][i] = f.code[f.bbs[k]][l] => f.bbs[m] = f.bbs[k] /\ i = l
        BY <4>1, Places
      <4> QED BY <3>1, <3>2, <4>2
    <3>4. m = k
      BY <3>3, Places
    <3> QED BY <1>2, <3>1, <3>3, <3>4
  <2> QED BY <1>1, <2>1, <2>2 DEF Earlier
<1>4. ASSUME v \in InstrsIn(f) PROVE Earlier(v, m, j)
  <2>1. CASE \E n \in 1..(k - 1) : v \in Range(f.code[f.bbs[n]])
    BY <1>1, <1>2, <1>3, <2>1 DEF Earlier
  <2>2. CASE k < m /\ \E n \in 1..(h - 1) : f.code[f.bbs[k]][n] = v
    <3>1. PICK n \in 1..(h - 1) : f.code[f.bbs[k]][n] = v
      BY <2>2
    <3>2. n \in DOMAIN f.code[f.bbs[k]]
      BY <1>1, Lists
    <3>3. v \in Range(f.code[f.bbs[k]])
      BY <3>1, <3>2 DEF Range
    <3>4. k \in 1..(m - 1)
      BY <1>1, <1>2, <2>2, Lists
    <3> QED BY <3>3, <3>4 DEF Earlier
  <2>3. CASE k = m /\ h < j /\ \E n \in 1..(h - 1) : f.code[f.bbs[k]][n] = v
    BY <1>1, <1>2, <2>3 DEF Earlier
  <2> QED BY <1>3, <1>4, <2>1, <2>2, <2>3 DEF Earlier
<1> QED BY <1>3, <1>4 DEF Earlier

-----------------------------------------------------------------------------
\* The instruction that comes next is in its block as it was.
LEMMA AtBlock ==
  ASSUME f \in Functions, CodeOK, pc # "done"
  PROVE  /\ bb \in Block /\ at \in Nat \ {0} /\ ~Left(bb) /\ ir.code[bb] = f.code[bb]
         /\ \A b \in Block : \A j \in DOMAIN f.code[b] : Passed(b, j) => ~(b = bb /\ j > line)
<1>1. at \in DOMAIN f.bbs /\ at \in Nat \ {0} /\ bb \in Block
  BY Lists DEF CodeOK, bb
<1>2. ~Left(bb)
  <2> SUFFICES ASSUME NEW k \in 1..(at - 1), f.bbs[k] = bb PROVE FALSE
    BY DEF Left
  <2>1. k \in DOMAIN f.bbs
    BY <1>1, Lists
  <2>2. k = at
    BY <1>1, <2>1, Places DEF bb
  <2> QED BY <1>1, <2>2
<1>3. ir.code[bb] = f.code[bb]
  BY <1>1, <1>2 DEF CodeOK
<1>4. ASSUME NEW b \in Block, NEW j \in DOMAIN f.code[b], Passed(b, j), b = bb, j > line PROVE FALSE
  <2>1. j \in Nat /\ line \in Nat
    BY Lists DEF CodeOK
  <2> QED BY <1>2, <1>4, <2>1 DEF Passed
<1> QED BY <1>1, <1>2, <1>3, <1>4

LEMMA Inside ==
  ASSUME f \in Functions, CodeOK
  PROVE  InstrsIn(ir) \subseteq InstrsIn(f) /\ delete_list \subseteq InstrsIn(f)
<1>1. \A b \in Block : Range(ir.code[b]) \subseteq Range(f.code[b])
  BY DEF CodeOK
<1>2. InstrsIn(ir) \subseteq InstrsIn(f)
  BY <1>1 DEF InstrsIn
<1>3. delete_list \subseteq InstrsIn(f)
  BY Lists DEF CodeOK
<1> QED BY <1>2, <1>3

LEMMA AtInstr ==
  ASSUME f \in Functions, CodeOK, InBlock
  PROVE  /\ line + 1 \in DOMAIN f.code[bb] /\ instr = f.code[bb][line + 1]
         /\ instr \in InstrsIn(f) /\ instr \in InstrsIn(ir) /\ instr \notin delete_list
<1>1. bb \in Block /\ ir.code[bb] = f.code[bb] /\ pc = "instr" /\ line < Len(f.code[bb]) /\ line \in Nat
  BY AtBlock DEF InBlock, CodeOK
<1>2. line + 1 \in DOMAIN f.code[bb]
  BY <1>1, Lists
<1>3. instr = f.code[bb][line + 1]
  BY <1>1 DEF instr
<1>4. instr \in Range(ir.code[bb])
  BY <1>1, <1>2, <1>3 DEF Range
<1>5. instr \in InstrsIn(ir) /\ instr \in InstrsIn(f)
  BY <1>1, <1>4, Inside DEF InstrsIn
<1>6. instr \notin delete_list
  <2> SUFFICES ASSUME instr \in delete_list PROVE FALSE
    OBVIOUS
  <2>1. PICK b \in Block : \E j \in DOMAIN f.code[b] : f.code[b][j] = instr /\ Passed(b, j)
    BY DEF CodeOK
  <2>2. PICK j \in DOMAIN f.code[b] : f.code[b][j] = instr /\ Passed(b, j)
    BY <2>1
  <2>3. b = bb /\ j = line + 1
    BY <1>1, <1>2, <1>3, <2>2, Places
  <2>4. ~(b = bb /\ j > line)
    BY <1>1, <2>2, AtBlock
  <2> QED BY <1>1, <2>3, <2>4
<1> QED BY <1>2, <1>3, <1>5, <1>6

\* What the source reads does not depend on what the pass has done.
LEMMA ReadsEarlierFixed ==
  ASSUME f' = f
  PROVE  ReadsEarlier' <=> ReadsEarlier
BY SMT DEF ReadsEarlier

\* What may replace an instruction may replace the one after it, and is another.
LEMMA ReplacementStays ==
  ASSUME f \in Functions, CodeOK, InBlock, NEW v, Replacement(v),
         f' = f, at' = at, line' = line + 1, delete_list' \subseteq delete_list \cup {instr}
  PROVE  v # instr /\ Replacement(v)'
<1>1. /\ bb \in Block /\ line \in Nat /\ at \in Nat
      /\ line + 1 \in DOMAIN f.code[bb] /\ instr = f.code[bb][line + 1]
  BY AtInstr, AtBlock DEF CodeOK, InBlock
<1>2. v # instr
  BY <1>1, PrecedesOrder DEF Replacement
<1>3. 1..((line + 1) - 1) \subseteq 1..((line + 2) - 1) /\ line' + 1 = line + 2
  BY <1>1
<1>4. Precedes(v, bb, line + 2)
  <2> DEFINE j == line + 1
             i == line + 2
  <2>1. Precedes(v, bb, j) /\ 1..(j - 1) \subseteq 1..(i - 1)
    BY <1>3 DEF Replacement
  <2> HIDE DEF i, j
  <2>2. Precedes(v, bb, i)
    BY <2>1 DEF Precedes, Available
  <2> QED BY <2>2 DEF i
<1>5. ReadsEarlier => Earlier(v, at, line + 2)
  <2> DEFINE j == line + 1
             i == line + 2
  <2>1. (ReadsEarlier => Earlier(v, at, j)) /\ 1..(j - 1) \subseteq 1..(i - 1)
    BY <1>3 DEF Replacement
  <2> HIDE DEF i, j
  <2>2. ReadsEarlier => Earlier(v, at, i)
    BY <2>1 DEF Earlier
  <2> QED BY <2>2 DEF i
<1>6. Precedes(v, bb, line + 1)'
  BY <1>3, <1>4 DEF Precedes, Available, bb
<1>7. (ReadsEarlier => Earlier(v, at, line + 1))'
  <2>1. ReadsEarlier' <=> ReadsEarlier
    BY ReadsEarlierFixed, Zenon
  <2> QED BY <1>3, <1>5, <2>1 DEF Earlier
<1>8. v \notin delete_list'
  BY <1>2 DEF Replacement
<1> QED BY <1>2, <1>6, <1>7, <1>8 DEF Replacement

\* When an instruction was replaced, its readers read the value in its place.
LEMMA Readers ==
  ASSUME f \in Functions, CodeOK, UsesOK, InBlock, NEW v, ReplaceBy(v)
  PROVE  /\ \A x \in InstrsIn(f) : /\ DOMAIN ir'.operands[x] = DOMAIN ir.operands[x]
                                   /\ \A i \in DOMAIN ir.operands[x] :
                                        \/ ir'.operands[x][i] = ir.operands[x][i]
                                        \/ ir.operands[x][i] = instr /\ ir'.operands[x][i] = v
         /\ \A x \in InstrsIn(ir) : \A i \in DOMAIN ir.operands[x] :
              ir.operands[x][i] = instr => ir'.operands[x][i] = v
         /\ Exact(ir, InstrsIn(ir), instr)
<1>1. /\ DOMAIN ir.operands = InstrsIn(f) /\ InstrsIn(ir) \subseteq InstrsIn(f)
      /\ instr \in DOMAIN ir.use_list \ delete_list
  BY AtInstr, Inside DEF CodeOK
<1>2. Exact(ir, InstrsIn(ir), instr)
  BY <1>1 DEF UsesOK
<1>3. /\ \A u \in ir.use_list[instr] : \E x \in InstrsIn(ir) : \E i \in DOMAIN ir.operands[x] :
           u = <<x, i>> /\ ir.operands[x][i] = instr
      /\ \A x \in InstrsIn(ir) : \A i \in DOMAIN ir.operands[x] :
           ir.operands[x][i] = instr => <<x, i>> \in ir.use_list[instr]
  BY <1>2, ExactMeans
<1>4. /\ \A x \in DOMAIN ir.operands : DOMAIN ir'.operands[x] = DOMAIN ir.operands[x]
      /\ \A x \in DOMAIN ir.operands : \A i \in DOMAIN ir.operands[x] :
           /\ <<x, i>> \in ir.use_list[instr] => ir'.operands[x][i] = v
           /\ <<x, i>> \notin ir.use_list[instr] => ir'.operands[x][i] = ir.operands[x][i]
  BY Replaced DEF ReplaceBy, CodeOK
<1>5. \A x \in InstrsIn(f) : \A i \in DOMAIN ir.operands[x] :
        <<x, i>> \in ir.use_list[instr] => ir.operands[x][i] = instr
  BY <1>3
<1> QED BY <1>1, <1>2, <1>3, <1>4, <1>5

LEMMA Replacing ==
  ASSUME IInv, InBlock, NEW v, Replacement(v), ReplaceBy(v),
         line' = line + 1, UNCHANGED <<f, pc, at, map_>>
  PROVE  IInv'
<1>1. /\ f \in Functions /\ f' = f /\ pc' = pc /\ at' = at /\ map_' = map_ /\ line' = line + 1
      /\ CodeOK /\ OperandsOK /\ OrderOK /\ MapOK /\ UsesOK /\ ReadsOK /\ FoldedOK
      /\ ir' = ReplaceAllUseWith(ir, instr, v) /\ delete_list' = delete_list \cup {instr}
      /\ IsData(ir) /\ pc # "done"
  BY DEF IInv, ReplaceBy, CodeOK, InBlock
<1>2. /\ bb \in Block /\ at \in Nat \ {0} /\ at \in DOMAIN f.bbs /\ line \in Nat /\ ~Left(bb)
      /\ line + 1 \in DOMAIN f.code[bb] /\ instr = f.code[bb][line + 1]
      /\ instr \in InstrsIn(f) /\ instr \in InstrsIn(ir) /\ instr \notin delete_list
      /\ \A b \in Block : \A j \in DOMAIN f.code[b] : Passed(b, j) => ~(b = bb /\ j > line)
  BY <1>1, AtBlock, AtInstr DEF CodeOK
<1>3. /\ IsData(ir') /\ ir'.code = ir.code
      /\ DOMAIN ir'.operands = DOMAIN ir.operands /\ DOMAIN ir'.use_list = DOMAIN ir.use_list
  BY <1>1, Replaced
<1>4. /\ \A x \in InstrsIn(f) : /\ DOMAIN ir'.operands[x] = DOMAIN ir.operands[x]
                                /\ \A i \in DOMAIN ir.operands[x] :
                                     \/ ir'.operands[x][i] = ir.operands[x][i]
                                     \/ ir.operands[x][i] = instr /\ ir'.operands[x][i] = v
      /\ \A x \in InstrsIn(ir) : \A i \in DOMAIN ir.operands[x] :
           ir.operands[x][i] = instr => ir'.operands[x][i] = v
      /\ Exact(ir, InstrsIn(ir), instr)
  BY <1>1, Readers
<1>5. v # instr /\ Replacement(v)'
  BY <1>1, ReplacementStays
<1>6. \A b : Left(b)' <=> Left(b)
  BY <1>1 DEF Left
<1>7. \A b, j : j \in Nat => (Passed(b, j)' <=> Passed(b, j) \/ (b = bb /\ j = line + 1))
  BY <1>1, <1>2, <1>6 DEF Passed, bb
<1>8. InstrsIn(ir') = InstrsIn(ir) /\ InstrsIn(f') = InstrsIn(f) /\ bb' = bb
  BY <1>1, <1>3 DEF InstrsIn, bb
<1>9. CodeOK'
  <2>1. line' \in Nat /\ line' <= Len(f'.code[bb'])
    BY <1>1, <1>2, <1>8, Lists
  <2>2. ASSUME NEW b \in Block
        PROVE  /\ ~Left(b) => ir'.code[b] = f.code[b]
               /\ Left(b) => Range(ir'.code[b]) = Range(f.code[b]) \ delete_list'
    <3>1. ASSUME Left(b), instr \in Range(f.code[b]) PROVE FALSE
      <4>1. PICK j \in DOMAIN f.code[b] : f.code[b][j] = instr
        BY <3>1 DEF Range
      <4>2. b = bb
        BY <1>1, <1>2, <4>1, Places
      <4> QED BY <1>2, <3>1, <4>2
    <3>2. /\ ~Left(b) => ir.code[b] = f.code[b]
          /\ Left(b) => Range(ir.code[b]) = Range(f.code[b]) \ delete_list
      BY <1>1 DEF CodeOK
    <3> QED BY <1>1, <1>3, <3>1, <3>2
  <2>3. ASSUME NEW x \in delete_list'
        PROVE  \E b \in Block : \E j \in DOMAIN f.code[b] : f.code[b][j] = x /\ Passed(b, j)'
    <3>1. CASE x = instr
      BY <1>2, <1>7, <3>1
    <3>2. CASE x \in delete_list
      BY <1>1, <1>7, <3>2, Lists DEF CodeOK
    <3> QED BY <1>1, <3>1, <3>2
  <2>4. /\ pc' \in {"instr", "done", "crash"} /\ at' \in DOMAIN f'.bbs /\ pc' # "done"
        /\ DOMAIN ir'.code = Block /\ DOMAIN ir'.operands = InstrsIn(f)
        /\ InstrsIn(f) \subseteq DOMAIN ir'.use_list
        /\ \A x \in InstrsIn(f) : DOMAIN ir'.operands[x] = DOMAIN f.operands[x]
    BY <1>1, <1>3, <1>4 DEF CodeOK
  <2> QED BY <1>1, <1>3, <1>6, <1>8, <2>1, <2>2, <2>3, <2>4 DEF CodeOK
<1>10. OperandsOK'
  <2> SUFFICES ASSUME NEW b \in Block, NEW j \in DOMAIN f'.code[b], f'.opcode[f'.code[b][j]] # "phi",
                      NEW i \in DOMAIN ir'.operands[f'.code[b][j]]
               PROVE  Precedes(ir.operands[f.code[b][j]][i], b, j)'
    BY DEF OperandsOK
  <2>1. /\ j \in DOMAIN f.code[b] /\ f.code[b][j] \in InstrsIn(f) /\ f'.code[b][j] = f.code[b][j]
        /\ f.opcode[f.code[b][j]] # "phi" /\ i \in DOMAIN ir.operands[f.code[b][j]]
    BY <1>1, <1>4, Lists
  <2>2. Precedes(ir.operands[f.code[b][j]][i], b, j)
    BY <1>1, <2>1 DEF OperandsOK
  <2>3. Precedes(v, bb, line + 1)
    BY DEF Replacement
  <2>4. Precedes(instr, b, j) => Precedes(v, b, j)
    BY <1>1, <1>2, <2>1, <2>3, PrecedesOrder
  <2>5. PICK w : w = ir'.operands[f.code[b][j]][i]
    OBVIOUS
  <2>6. Precedes(w, b, j)
    BY <1>4, <2>1, <2>2, <2>4, <2>5
  <2> QED BY <1>1, <1>8, <2>1, <2>5, <2>6 DEF Precedes
<1>11. OrderOK'
  <2> SUFFICES ASSUME ReadsEarlier',
                      NEW k \in DOMAIN f'.bbs, NEW j \in DOMAIN f'.code[f'.bbs[k]],
                      f'.opcode[f'.code[f'.bbs[k]][j]] # "phi",
                      NEW i \in DOMAIN ir'.operands[f'.code[f'.bbs[k]][j]]
               PROVE  Earlier(ir.operands[f.code[f.bbs[k]][j]][i], k, j)'
    BY DEF OrderOK
  <2>1. /\ k \in DOMAIN f.bbs /\ j \in DOMAIN f.code[f.bbs[k]] /\ f.code[f.bbs[k]][j] \in InstrsIn(f)
        /\ f'.code[f'.bbs[k]][j] = f.code[f.bbs[k]][j]
        /\ f.opcode[f.code[f.bbs[k]][j]] # "phi" /\ i \in DOMAIN ir.operands[f.code[f.bbs[k]][j]]
    BY <1>1, <1>4, Lists
  <2>2. ReadsEarlier
    <3>1. f' = f
      BY ONLY <1>1
    <3> QED BY <3>1, ReadsEarlierFixed, Zenon
  <2>3. Earlier(ir.operands[f.code[f.bbs[k]][j]][i], k, j)
    BY <1>1, <2>1, <2>2 DEF OrderOK
  <2>4. Earlier(v, at, line + 1)
    BY <2>2 DEF Replacement
  <2>5. Earlier(instr, k, j) => Earlier(v, k, j)
    BY <1>1, <1>2, <2>1, <2>4, EarlierOrder DEF bb
  <2>6. PICK w : w = ir'.operands[f.code[f.bbs[k]][j]][i]
    OBVIOUS
  <2>7. Earlier(w, k, j)
    BY <1>4, <2>1, <2>3, <2>5, <2>6
  <2> QED BY <1>1, <1>8, <2>1, <2>6, <2>7 DEF Earlier
<1>12. MapOK'
  <2> SUFFICES ASSUME NEW k \in DOMAIN map_, NEW w, w = map_[k] PROVE Replacement(w)'
    BY <1>1 DEF MapOK
  <2>1. Replacement(w)
    BY <1>1 DEF MapOK
  <2> QED BY <1>1, <2>1, ReplacementStays
<1>13. UsesOK'
  <2> SUFFICES ASSUME NEW w \in DOMAIN ir.use_list \ delete_list, w # instr
               PROVE  Exact(ir', InstrsIn(ir), w)
    BY <1>1, <1>3, <1>8 DEF UsesOK
  <2>1. InstrsIn(ir) \subseteq DOMAIN ir.operands
    BY <1>1, Inside DEF CodeOK
  <2>2. Exact(ir, InstrsIn(ir), w)
    BY <1>1 DEF UsesOK
  <2> QED BY <1>1, <1>4, <1>5, <2>1, <2>2, ReplacedExact
<1>14. ReadsOK'
  <2> SUFFICES ASSUME NEW x \in InstrsIn(ir), NEW i \in DOMAIN ir.operands[x]
               PROVE  ir'.operands[x][i] \notin delete_list \cup {instr}
    BY <1>1, <1>4, <1>8, Inside DEF ReadsOK
  <2>1. ir.operands[x][i] \notin delete_list /\ x \in InstrsIn(f)
    BY <1>1, Inside DEF ReadsOK
  <2>2. v \notin delete_list
    BY DEF Replacement
  <2> QED BY <1>4, <1>5, <2>1, <2>2
<1>15. FoldedOK'
  <2> SUFFICES ASSUME ReadsEarlier, NEW b \in Block, NEW j \in DOMAIN f.code[b],
                      Passed(b, j), f.code[b][j] \notin delete_list
               PROVE  ~Foldable(f.code[b][j])'
    <3>1. ReadsEarlier' <=> ReadsEarlier
      <4>1. f' = f
        BY ONLY <1>1
      <4> QED BY <4>1, ReadsEarlierFixed, Zenon
    <3> QED BY <1>1, <1>2, <1>7, <3>1, Lists DEF FoldedOK
  <2> DEFINE x == f.code[b][j]
  <2>1. x \in InstrsIn(f) /\ ~Foldable(x)
    BY <1>1, Lists DEF FoldedOK
  <2>2. CASE f.opcode[x] = "phi"
    BY <1>1, <2>2 DEF Foldable, IntOps, FloatOps, Compares, FCompares
  <2>3. CASE f.opcode[x] # "phi"
    <3>1. PICK k \in DOMAIN f.bbs : f.bbs[k] = b /\ k \in Nat
      BY <1>1, Graph, Lists
    <3>2. ASSUME NEW i \in DOMAIN ir.operands[x] PROVE ir.operands[x][i] # instr
      <4> SUFFICES ASSUME ir.operands[x][i] = instr PROVE FALSE
        OBVIOUS
      <4>1. Earlier(instr, k, j)
        BY <1>1, <2>3, <3>1 DEF OrderOK
      <4>2. Earlier(v, at, line + 1)
        BY DEF Replacement
      <4>3. at < k \/ (at = k /\ line + 1 < j)
        BY <1>1, <1>2, <3>1, <4>1, <4>2, EarlierOrder DEF bb
      <4>4. ~Left(b)
        <5> SUFFICES ASSUME NEW m \in 1..(at - 1), f.bbs[m] = b PROVE FALSE
          BY <1>1 DEF Left
        <5>1. m \in DOMAIN f.bbs /\ m < at
          BY <1>1, <1>2, Lists
        <5>2. m = k
          BY <1>1, <3>1, <5>1, Places
        <5> QED BY <1>2, <3>1, <4>3, <5>1, <5>2
      <4>5. b = bb /\ j <= line
        BY <4>4 DEF Passed
      <4>6. at = k
        BY <1>1, <1>2, <3>1, <4>5, Places DEF bb
      <4>7. j \in Nat
        BY <1>1, Lists
      <4> QED BY <1>2, <4>3, <4>5, <4>6, <4>7
    <3>3. /\ DOMAIN ir'.operands[x] = DOMAIN ir.operands[x]
          /\ \A i \in DOMAIN ir.operands[x] : ir'.operands[x][i] = ir.operands[x][i]
      BY <1>4, <2>1, <3>2
    <3>4. Range(ir'.operands[x]) = Range(ir.operands[x])
      BY <3>3 DEF Range
    <3> QED BY <1>1, <2>1, <3>4 DEF Foldable
  <2> QED BY <2>2, <2>3
<1> QED BY <1>1, <1>9, <1>10, <1>11, <1>12, <1>13, <1>14, <1>15, Zenon DEF IInv

LEMMA SameOperands ==
  ASSUME f' = f, ir'.operands = ir.operands
  PROVE  (OperandsOK => OperandsOK') /\ (OrderOK => OrderOK')
<1>1. OperandsOK => OperandsOK'
  BY DEF OperandsOK, Precedes
<1>2. OrderOK => OrderOK'
  <2> SUFFICES ASSUME OrderOK, ReadsEarlier',
                      NEW k \in DOMAIN f.bbs, NEW j \in DOMAIN f.code[f.bbs[k]],
                      f.opcode[f.code[f.bbs[k]][j]] # "phi",
                      NEW i \in DOMAIN ir.operands[f.code[f.bbs[k]][j]]
               PROVE  Earlier(ir.operands[f.code[f.bbs[k]][j]][i], k, j)'
    BY DEF OrderOK
  <2>1. ReadsEarlier
    BY ReadsEarlierFixed, Zenon
  <2>2. Earlier(ir.operands[f.code[f.bbs[k]][j]][i], k, j)
    BY <2>1 DEF OrderOK
  <2> QED BY <2>2 DEF Earlier
<1> QED BY <1>1, <1>2

\* The step over an instruction that stays, whatever it leaves in the map.
LEMMA Keeping ==
  ASSUME IInv, InBlock, ir' = ir, line' = line + 1, UNCHANGED <<f, pc, at, delete_list>>,
         \A k \in DOMAIN map_' : Replacement(map_'[k]),
         ~Foldable(instr)
  PROVE  IInv'
<1>1. /\ f \in Functions /\ f' = f /\ pc' = pc /\ at' = at /\ line' = line + 1
      /\ CodeOK /\ OperandsOK /\ OrderOK /\ UsesOK /\ ReadsOK /\ FoldedOK
      /\ ir' = ir /\ delete_list' = delete_list /\ pc # "done"
  BY DEF IInv, CodeOK, InBlock
<1>2. /\ bb \in Block /\ line \in Nat /\ bb' = bb
      /\ line + 1 \in DOMAIN f.code[bb] /\ instr = f.code[bb][line + 1]
  BY <1>1, AtBlock, AtInstr DEF CodeOK, bb
<1>3. \A b : Left(b)' <=> Left(b)
  BY <1>1 DEF Left
<1>4. \A b, j : j \in Nat => (Passed(b, j)' <=> Passed(b, j) \/ (b = bb /\ j = line + 1))
  BY <1>1, <1>2, <1>3 DEF Passed
<1>5. CodeOK'
  <2>1. line' \in Nat /\ line' <= Len(f'.code[bb'])
    BY <1>1, <1>2, Lists
  <2>2. \A x \in delete_list : \E b \in Block : \E j \in DOMAIN f.code[b] : f.code[b][j] = x /\ Passed(b, j)'
    BY <1>1, <1>4, Lists DEF CodeOK
  <2>3. \A b \in Block : /\ ~Left(b)' => ir'.code[b] = f'.code[b]
                         /\ Left(b)' => Range(ir'.code[b]) = Range(f'.code[b]) \ delete_list'
    BY <1>1, <1>3 DEF CodeOK
  <2> QED BY <1>1, <2>1, <2>2, <2>3 DEF CodeOK
<1>6. OperandsOK' /\ OrderOK'
  BY <1>1, SameOperands
<1>7. MapOK'
  <2> SUFFICES ASSUME NEW k \in DOMAIN map_', NEW w, w = map_'[k] PROVE Replacement(w)'
    BY DEF MapOK
  <2> QED BY <1>1, ReplacementStays
<1>8. UsesOK' /\ ReadsOK'
  BY <1>1 DEF UsesOK, ReadsOK, InstrsIn, Exact
<1>9. FoldedOK'
  <2> SUFFICES ASSUME ReadsEarlier', NEW b \in Block, NEW j \in DOMAIN f.code[b],
                      Passed(b, j)', f.code[b][j] \notin delete_list
               PROVE  ~Foldable(f.code[b][j])'
    BY <1>1 DEF FoldedOK
  <2>1. ReadsEarlier /\ j \in Nat
    <3>1. f' = f
      BY ONLY <1>1
    <3>2. ReadsEarlier
      BY <3>1, ReadsEarlierFixed, Zenon
    <3> QED BY <1>1, <3>2, Lists
  <2>2. ~Foldable(f.code[b][j])
    BY <1>1, <1>2, <1>4, <2>1 DEF FoldedOK
  <2> QED BY <1>1, <2>2 DEF Foldable
<1> QED BY <1>1, <1>5, <1>6, <1>7, <1>8, <1>9, Zenon DEF IInv

\* A step that leaves the function and the place alone, and one that crashes.
LEMMA Standing ==
  ASSUME IInv, UNCHANGED <<f, ir, at, line, map_, delete_list>>,
         pc' = pc \/ (pc = "instr" /\ pc' = "crash")
  PROVE  IInv'
<1>1. /\ f' = f /\ ir' = ir /\ at' = at /\ line' = line /\ map_' = map_
      /\ delete_list' = delete_list
  OBVIOUS
<1>2. \A b : Left(b)' <=> Left(b)
  BY <1>1 DEF Left
<1>3. \A b, j : Passed(b, j)' <=> Passed(b, j)
  BY <1>1, <1>2 DEF Passed, bb
<1>4. CodeOK'
  BY <1>1, <1>2, <1>3 DEF IInv, CodeOK, bb
<1>5. OperandsOK' /\ OrderOK'
  BY <1>1, SameOperands DEF IInv
<1>6. ReadsEarlier' <=> ReadsEarlier
  BY <1>1, ReadsEarlierFixed, Zenon
<1>7. MapOK'
  BY <1>1, <1>6 DEF IInv, MapOK, Replacement, Precedes, Earlier, bb
<1>8. UsesOK' /\ ReadsOK'
  BY <1>1 DEF IInv, UsesOK, ReadsOK
<1>9. \A x : Foldable(x)' <=> Foldable(x)
  BY <1>1, Zenon DEF Foldable
<1>10. FoldedOK'
  BY <1>1, <1>3, <1>6, <1>9 DEF IInv, FoldedOK
<1> QED BY <1>1, <1>4, <1>5, <1>7, <1>8, <1>10, Zenon DEF IInv

\* What an instruction reads may replace it.
LEMMA OperandsReplace ==
  ASSUME IInv, InBlock, op # "phi", NEW i \in DOMAIN ops
  PROVE  Replacement(ops[i])
<1>1. /\ f \in Functions /\ CodeOK /\ OperandsOK /\ OrderOK /\ ReadsOK /\ pc # "done"
  BY DEF IInv, InBlock
<1>2. /\ bb \in Block /\ at \in DOMAIN f.bbs
      /\ line + 1 \in DOMAIN f.code[bb] /\ instr = f.code[bb][line + 1] /\ instr \in InstrsIn(ir)
  BY <1>1, AtBlock, AtInstr DEF CodeOK
<1>3. ops[i] \notin delete_list
  BY <1>1, <1>2 DEF ReadsOK, ops
<1>4. Precedes(ops[i], bb, line + 1)
  BY <1>1, <1>2 DEF OperandsOK, ops, op
<1>5. ReadsEarlier => Earlier(ops[i], at, line + 1)
  BY <1>1, <1>2 DEF OrderOK, ops, op, bb
<1> QED BY <1>3, <1>4, <1>5 DEF Replacement

LEMMA FoldedIsConstant ==
  ASSUME NEW c \in Folded
  PROVE  c[1] \in {"const", "fconst"}
BY DEF Folded

LEMMA StepInstr ==
  ASSUME IInv, FoldInstr \/ FoldDivision \/ NoteStore \/ ReplaceLoad \/ Skip
  PROVE  IInv'
<1>1. f \in Functions /\ CodeOK /\ MapOK /\ InBlock /\ pc # "done" /\ instr \in InstrsIn(f)
  <2>1. InBlock /\ pc # "done"
    BY DEF FoldInstr, FoldDivision, NoteStore, ReplaceLoad, Skip, InBlock, DividesConst
  <2> QED BY <2>1, AtInstr DEF IInv
<1>2. /\ op \in Binary \cup {"store"} => DOMAIN ops = 1..2
      /\ op \in {"load", "fptosi", "sitofp"} => DOMAIN ops = 1..1
  BY <1>1, Kinds DEF ops, op, CodeOK
<1>3. CASE FoldInstr
  <2>1. PICK c \in Folded : ReplaceBy(c)
    BY <1>3 DEF FoldInstr
  <2>2. c \notin InstrsIn(f) /\ c \notin delete_list
    BY <1>1, FoldedIsConstant, Kinds, Inside
  <2>3. Replacement(c)
    BY <2>2 DEF Replacement, Precedes, Earlier
  <2> QED BY <1>1, <1>3, <2>1, <2>3, Replacing DEF FoldInstr
<1>4. CASE ReplaceLoad
  <2>1. PICK v : v = map_[Key(ops[1])]
    OBVIOUS
  <2>2. Replacement(v) /\ ReplaceBy(v)
    BY <1>1, <1>4, <2>1 DEF MapOK, ReplaceLoad
  <2> QED BY <1>1, <1>4, <2>2, Replacing DEF ReplaceLoad
<1>5. CASE NoteStore
  <2>1. op = "store" /\ 1 \in DOMAIN ops
    BY <1>2, <1>5 DEF NoteStore
  <2>2. Replacement(ops[1])
    BY <1>1, <2>1, OperandsReplace
  <2>3. \A k \in DOMAIN map_' : Replacement(map_'[k])
    <3>1. \A k \in DOMAIN map_' : map_'[k] = ops[1] \/ (k \in DOMAIN map_ /\ map_'[k] = map_[k])
      BY <1>5 DEF NoteStore, Remember
    <3> QED BY <1>1, <2>2, <3>1 DEF MapOK
  <2>4. ~Foldable(instr)
    BY <2>1 DEF Foldable, op, IntOps, FloatOps, Compares, FCompares
  <2> QED BY <1>1, <1>5, <2>3, <2>4, Keeping DEF NoteStore
<1>6. CASE Skip
  <2>1. \A k \in DOMAIN map_' : Replacement(map_'[k])
    BY <1>1, <1>6 DEF Skip, MapOK
  <2>2. ~Foldable(instr)
    <3> SUFFICES ASSUME Foldable(instr) PROVE FALSE
      OBVIOUS
    <3>1. \A i \in DOMAIN ops : ops[i] \in Range(ir.operands[instr])
      BY DEF ops, Range
    <3>2. CASE op \in IntOps \cup Compares
      <4>1. Both("const")
        BY <1>2, <3>1, <3>2 DEF Foldable, op, Both, Is, Binary, IntOps, FloatOps, Compares, FCompares
      <4> QED BY <1>6, <3>2, <4>1 DEF Skip, Folded, IntOps, FloatOps, Compares, FCompares
    <3>3. CASE op \in FloatOps \cup FCompares
      <4>1. Both("fconst")
        BY <1>2, <3>1, <3>3 DEF Foldable, op, Both, Is, Binary, IntOps, FloatOps, Compares, FCompares
      <4> QED BY <1>6, <3>3, <4>1 DEF Skip, Folded, IntOps, FloatOps, Compares, FCompares
    <3>4. CASE op = "sitofp"
      <4>1. Is(1, "const")
        BY <1>2, <3>1, <3>4 DEF Foldable, op, Is, IntOps, FloatOps, Compares, FCompares
      <4> QED BY <1>6, <3>4, <4>1 DEF Skip, Folded, IntOps, FloatOps, Compares, FCompares
    <3>5. CASE op = "fptosi"
      <4>1. Is(1, "fconst")
        BY <1>2, <3>1, <3>5 DEF Foldable, op, Is, IntOps, FloatOps, Compares, FCompares
      <4> QED BY <1>6, <3>5, <4>1 DEF Skip, Folded, IntOps, FloatOps, Compares, FCompares
    <3> QED BY <3>2, <3>3, <3>4, <3>5 DEF Foldable, op
  <2> QED BY <1>1, <1>6, <2>1, <2>2, Keeping DEF Skip
<1>7. CASE FoldDivision
  BY <1>1, <1>7, Standing DEF FoldDivision, DividesConst, InBlock
<1> QED BY <1>3, <1>4, <1>5, <1>6, <1>7

LEMMA StepBlock ==
  ASSUME IInv, EndBlock
  PROVE  IInv'
<1>1. /\ f \in Functions /\ f' = f /\ line' = 0 /\ delete_list' = delete_list /\ map_' = << >>
      /\ CodeOK /\ OperandsOK /\ OrderOK /\ UsesOK /\ ReadsOK /\ FoldedOK
      /\ ir' = DeleteInstrs(ir, bb, delete_list) /\ IsData(ir)
      /\ pc = "instr" /\ line = Len(ir.code[bb])
  BY Zenon DEF IInv, EndBlock, CodeOK
<1>2. /\ bb \in Block /\ at \in Nat \ {0} /\ at \in DOMAIN f.bbs /\ ~Left(bb)
      /\ ir.code[bb] = f.code[bb] /\ line = Len(f.code[bb])
  BY <1>1, AtBlock DEF CodeOK
<1>3. /\ IsData(ir') /\ ir'.operands = ir.operands /\ DOMAIN ir'.code = Block
      /\ DOMAIN ir'.use_list = DOMAIN ir.use_list
      /\ \A c \in Block : c # bb => ir'.code[c] = ir.code[c]
      /\ ir'.code[bb] = Without(ir.code[bb], delete_list)
  BY <1>1, <1>2, Deletion DEF CodeOK
<1>4. Range(ir'.code[bb]) = Range(f.code[bb]) \ delete_list
  <2>1. f.code[bb] \in Seq(InstrsIn(f))
    BY <1>1, <1>2, FunctionsAssumption DEF IsFunction
  <2> QED BY <1>2, <1>3, <2>1, WithoutKeeps
<1>5. /\ at' \in DOMAIN f.bbs /\ at' \in Nat
      /\ \/ at < Len(f.bbs) /\ at' = at + 1 /\ pc' = "instr"
         \/ at = Len(f.bbs) /\ at' = at /\ pc' = "done"
  BY <1>1, <1>2, Lists DEF EndBlock
<1>6. \A b \in Block : Left(b)' <=> pc' = "done" \/ Left(b) \/ b = bb
  <2>1. CASE pc' = "done"
    BY <2>1 DEF Left
  <2>2. CASE pc' # "done"
    <3>1. 1..(at' - 1) = 1..(at - 1) \cup {at}
      BY <1>2, <1>5, <2>2
    <3> QED BY <1>1, <2>2, <3>1 DEF Left, bb
  <2> QED BY <2>1, <2>2
<1>7. \A b \in Block : \A j \in DOMAIN f.code[b] : Left(b)' <=> Left(b) \/ b = bb
  <2> SUFFICES ASSUME NEW b \in Block, NEW j \in DOMAIN f.code[b], pc' = "done" PROVE Left(b) \/ b = bb
    BY <1>6
  <2>1. PICK k \in DOMAIN f.bbs : f.bbs[k] = b
    BY <1>1, Graph
  <2>2. at = Len(f.bbs) /\ k \in 1..at
    BY <1>1, <1>5, <2>1, Lists
  <2> QED BY <1>2, <2>1, <2>2 DEF Left, bb
<1>8. \A b \in Block : \A j \in DOMAIN f.code[b] : Passed(b, j)' <=> Passed(b, j)
  <2> SUFFICES ASSUME NEW b \in Block, NEW j \in DOMAIN f.code[b] PROVE Passed(b, j)' <=> Left(b)'
    BY <1>1, <1>2, <1>7, Lists DEF Passed
  <2>1. j \in Nat \ {0}
    BY <1>1, Lists
  <2> QED BY <1>1, <2>1 DEF Passed
<1>9. CodeOK'
  <2>1. ASSUME NEW b \in Block
        PROVE  /\ ~Left(b)' => ir'.code[b] = f.code[b]
               /\ Left(b)' => Range(ir'.code[b]) = Range(f.code[b]) \ delete_list
    <3>1. CASE b = bb
      BY <1>4, <1>6, <3>1
    <3>2. CASE b # bb /\ Left(b)
      BY <1>1, <1>3, <1>6, <3>2 DEF CodeOK
    <3>3. CASE b # bb /\ ~Left(b)
      <4>1. ir'.code[b] = f.code[b]
        BY <1>1, <1>3, <3>3 DEF CodeOK
      <4>2. Left(b)' => DOMAIN f.code[b] = {}
        BY <1>7, <3>3
      <4> QED BY <4>1, <4>2 DEF Range
    <3> QED BY <3>1, <3>2, <3>3
  <2>2. \A x \in delete_list : \E b \in Block : \E j \in DOMAIN f.code[b] : f.code[b][j] = x /\ Passed(b, j)'
    BY <1>1, <1>8 DEF CodeOK
  <2>3. 0 <= Len(f'.code[bb'])
    BY <1>1, <1>5, Lists DEF bb
  <2>4. pc' = "done" => at' = Len(f'.bbs)
    BY <1>1, <1>5
  <2>5. /\ DOMAIN ir'.operands = InstrsIn(f') /\ InstrsIn(f') \subseteq DOMAIN ir'.use_list
        /\ \A x \in InstrsIn(f') : DOMAIN ir'.operands[x] = DOMAIN f'.operands[x]
    BY <1>1, <1>3 DEF CodeOK
  <2> QED BY <1>1, <1>3, <1>5, <2>1, <2>2, <2>3, <2>4, <2>5 DEF CodeOK
<1>10. OperandsOK' /\ OrderOK'
  BY <1>1, <1>3, SameOperands
<1>11. MapOK'
  BY <1>1 DEF MapOK
<1>12. InstrsIn(ir') = InstrsIn(ir) \ delete_list
  <2>1. ASSUME NEW c \in Block, c # bb PROVE Range(ir.code[c]) \cap delete_list = {}
    <3> SUFFICES ASSUME NEW x \in Range(ir.code[c]), x \in delete_list PROVE FALSE
      OBVIOUS
    <3>1. ~Left(c) /\ ir.code[c] = f.code[c]
      BY <1>1 DEF CodeOK
    <3>2. PICK i \in DOMAIN f.code[c] : f.code[c][i] = x
      BY <3>1 DEF Range
    <3>3. PICK b \in Block : \E j \in DOMAIN f.code[b] : f.code[b][j] = x /\ Passed(b, j)
      BY <1>1 DEF CodeOK
    <3>4. b = c
      BY <1>1, <3>2, <3>3, Places
    <3> QED BY <2>1, <3>1, <3>3, <3>4 DEF Passed
  <2>2. \A c \in Block : Range(ir'.code[c]) = Range(ir.code[c]) \ delete_list
    BY <1>2, <1>3, <1>4, <2>1
  <2> QED BY <2>2 DEF InstrsIn
<1>13. UsesOK'
  <2> SUFFICES ASSUME NEW w \in DOMAIN ir.use_list \ delete_list
               PROVE  Exact(ir', InstrsIn(ir) \ delete_list, w)
    BY <1>1, <1>3, <1>12 DEF UsesOK
  <2>1. Exact(ir, InstrsIn(ir), w)
    BY <1>1 DEF UsesOK
  <2> QED BY <1>1, <2>1, DeletedExact
<1>14. ReadsOK'
  BY <1>1, <1>3, <1>12 DEF ReadsOK
<1>15. FoldedOK'
  <2> SUFFICES ASSUME ReadsEarlier', NEW b \in Block, NEW j \in DOMAIN f.code[b],
                      Passed(b, j)', f.code[b][j] \notin delete_list
               PROVE  ~Foldable(f.code[b][j])'
    BY <1>1 DEF FoldedOK
  <2>1. ReadsEarlier
    <3>1. f' = f
      BY ONLY <1>1
    <3> QED BY <3>1, ReadsEarlierFixed, Zenon
  <2>2. ~Foldable(f.code[b][j])
    BY <1>1, <1>8, <2>1 DEF FoldedOK
  <2> QED BY <1>1, <1>3, <2>2 DEF Foldable
<1> QED BY <1>1, <1>9, <1>10, <1>11, <1>13, <1>14, <1>15, Zenon DEF IInv

LEMMA Starting ==
  ASSUME InitPass
  PROVE  IInv
<1>1. /\ f \in Functions /\ pc = "instr" /\ at = 1 /\ line = 0 /\ delete_list = {}
      /\ ir = [code |-> f.code, operands |-> f.operands,
               use_list |-> [v \in ValuesIn(f) \cup Block \cup Constants \cup {Zero} |-> Users(f, v)]]
      /\ \A k \in DOMAIN map_ : map_[k] = Zero
  BY DEF InitPass
<1>2. /\ ir.code = f.code /\ ir.operands = f.operands /\ IsData(ir)
      /\ ir.use_list = [v \in ValuesIn(f) \cup Block \cup Constants \cup {Zero} |-> Users(f, v)]
  BY <1>1 DEF IsData
<1>3. /\ f.bbs \in Seq(Block) /\ f.code \in [Block -> Seq(InstrsIn(f))]
      /\ f.operands \in [InstrsIn(f) -> Seq(ValuesIn(f))]
      /\ \A b \in Block : \A j \in DOMAIN f.code[b] :
           f.opcode[f.code[b][j]] # "phi" =>
             \A v \in Range(f.operands[f.code[b][j]]) \cap InstrsIn(f) : Available(f, v, b, j)
  <2>1. IsFunction(f)
    BY <1>1, FunctionsAssumption
  <2> QED BY <2>1, Zenon DEF IsFunction
<1>4. \A b : ~Left(b)
  BY <1>1 DEF Left
<1>5. \A b \in Block : \A j \in DOMAIN f.code[b] : ~Passed(b, j)
  <2> SUFFICES ASSUME NEW b \in Block, NEW j \in DOMAIN f.code[b] PROVE ~(j <= 0)
    BY <1>1, <1>4 DEF Passed
  <2> QED BY <1>1, Lists
<1>6. InstrsIn(ir) = InstrsIn(f)
  BY <1>2 DEF InstrsIn
<1>7. CodeOK
  <2>1. at \in DOMAIN f.bbs /\ line \in Nat /\ bb \in Block /\ line <= Len(f.code[bb])
    BY <1>1, Lists DEF bb
  <2>2. InstrsIn(f) \subseteq DOMAIN ir.use_list /\ DOMAIN ir.code = Block /\ DOMAIN ir.operands = InstrsIn(f)
    BY <1>2, <1>3 DEF ValuesIn
  <2> QED BY <1>1, <1>2, <1>4, <2>1, <2>2 DEF CodeOK
<1>8. OperandsOK
  BY <1>2, <1>3 DEF OperandsOK, Precedes, Range
<1>9. OrderOK
  <2> SUFFICES ASSUME ReadsEarlier,
                      NEW k \in DOMAIN f.bbs, NEW j \in DOMAIN f.code[f.bbs[k]],
                      f.opcode[f.code[f.bbs[k]][j]] # "phi",
                      NEW i \in DOMAIN ir.operands[f.code[f.bbs[k]][j]]
               PROVE  Earlier(ir.operands[f.code[f.bbs[k]][j]][i], k, j)
    BY DEF OrderOK
  <2>1. PICK v : v = ir.operands[f.code[f.bbs[k]][j]][i]
    OBVIOUS
  <2>2. v \in Range(f.operands[f.code[f.bbs[k]][j]])
    BY <1>2, <2>1 DEF Range
  <2>3. v \in InstrsIn(f) =>
          \/ \E m \in 1..(k - 1) : v \in Range(f.code[f.bbs[m]])
          \/ \E m \in 1..(j - 1) : f.code[f.bbs[k]][m] = v
    BY <2>2 DEF ReadsEarlier
  <2> QED BY <2>1, <2>3 DEF Earlier
<1>10. MapOK
  <2>1. Zero \notin InstrsIn(f)
    BY <1>1, Kinds
  <2> QED BY <1>1, <2>1 DEF MapOK, Replacement, Precedes, Earlier
<1>11. UsesOK
  BY <1>2, <1>6 DEF UsesOK, Exact, Users
<1>12. ReadsOK
  BY <1>1 DEF ReadsOK
<1>13. FoldedOK
  BY <1>5 DEF FoldedOK
<1> QED BY <1>1, <1>7, <1>8, <1>9, <1>10, <1>11, <1>12, <1>13, Zenon DEF IInv

(***************************************************************************)
(* At every step of ConstPropagation::run what is read is computed before  *)
(* its reader, in the graph and in the order of the blocks; the map holds  *)
(* what the next instruction may read; and delete_list names all whose     *)
(* use lists replace_all_use_with left wrong.                              *)
(***************************************************************************)
THEOREM Invariance == Spec => []IInv
<1>1. Init => IInv
  BY Starting DEF Init
<1>2. IInv /\ [Next]_vars => IInv'
  <2> SUFFICES ASSUME IInv, [Next]_vars PROVE IInv'
    OBVIOUS
  <2>1. CASE NextPass
    BY <2>1, StepInstr, StepBlock DEF NextPass
  <2>2. CASE UNCHANGED pass
    BY <2>2, Standing DEF pass
  <2> QED BY <2>1, <2>2 DEF Next, Propagate, Alone0, Alone1, Together, vars
<1> QED BY <1>1, <1>2, PTL DEF Spec

(***************************************************************************)
(* ConstPropagation::run: delete_instr and replace_all_use_with together   *)
(* keep the use lists of all that is left.                                 *)
(***************************************************************************)
THEOREM UsersNamed == Spec => []UseListsExact
<1>1. IInv => UseListsExact
  BY DEF IInv, UsesOK, Exact, UseListsExact, Users
<1> QED BY <1>1, Invariance, PTL

(***************************************************************************)
(* ConstPropagation::run: nothing reads what was deleted, and one pass     *)
(* over the blocks leaves nothing on constants but zext, for which it has  *)
(* no case, where definitions are listed before uses.                      *)
(***************************************************************************)
THEOREM OnePass == Spec => []OnlyZextLeft
<1>1. ASSUME IInv, pc = "done", NEW x \in InstrsIn(ir)
      PROVE  /\ Range(ir.operands[x]) \cap delete_list = {}
             /\ ReadsEarlier /\ OnConstants(x) => f.opcode[x] = "zext"
  <2>1. PICK b \in Block : x \in Range(ir.code[b])
    BY DEF InstrsIn
  <2>2. x \in Range(f.code[b]) /\ x \notin delete_list
    BY <1>1, <2>1 DEF IInv, CodeOK, Left
  <2>3. PICK j \in DOMAIN f.code[b] : f.code[b][j] = x
    BY <2>2 DEF Range
  <2>4. ReadsEarlier => ~Foldable(x)
    BY <1>1, <2>2, <2>3 DEF IInv, FoldedOK, Passed, Left
  <2>5. OnConstants(x) => Foldable(x) \/ f.opcode[x] = "zext"
    BY DEF OnConstants, Foldable
  <2> QED BY <1>1, <2>4, <2>5 DEF IInv, ReadsOK, Range
<1>2. IInv => OnlyZextLeft
  BY <1>1, Zenon DEF OnlyZextLeft
<1> QED BY <1>2, Invariance, PTL

\* The integers are half below zero.
LEMMA Halves ==
  /\ MinInt \in Int /\ MinInt < -1 /\ 2 ^ Width = -2 * MinInt /\ 2 ^ Width \in Nat \ {0}
  /\ MaxFloat = 2 * (-MinInt - 1) /\ MaxFloat \in Nat
<1> DEFINE h == 2 ^ (Width - 1)
<1>1. h \in Nat \ {0, 1} /\ 2 ^ Width = 2 * h BY WidthAssumption
<1>2. MinInt = -h /\ MaxFloat = 2 * (h - 1) BY DEF MinInt, MaxFloat
<1> HIDE DEF h
<1> QED BY <1>1, <1>2

LEMMA DivMod ==
  ASSUME NEW a \in Int, NEW m \in Nat \ {0}
  PROVE  /\ a % m \in 0..(m - 1) /\ a \div m \in Int
         /\ a = m * (a \div m) + (a % m)
<1>1. a % m \in 0..(m - 1) OBVIOUS
<1>2. a \div m \in Int OBVIOUS
<1>3. a = m * (a \div m) + (a % m) OBVIOUS
<1> QED BY <1>1, <1>2, <1>3

LEMMA Multiples ==
  ASSUME NEW m \in Nat \ {0}, NEW q \in Int, m * q < m, -m < m * q
  PROVE  q = 0
<1>1. CASE q >= 1
  <2>1. m * q >= m * 1 BY <1>1
  <2> QED BY <2>1
<1>2. CASE q <= -1
  <2>1. m * q <= m * (-1) BY <1>2
  <2> QED BY <2>1
<1> QED BY <1>1, <1>2

\* Wrap gives the one integer that differs by a multiple of 2 ^ Width.
LEMMA Wrapped ==
  ASSUME NEW s \in Int
  PROVE  /\ Wrap(s) \in MinInt..(-MinInt - 1)
         /\ (Wrap(s) - s) % (2 ^ Width) = 0
         /\ \A n \in MinInt..(-MinInt - 1) : (n - s) % (2 ^ Width) = 0 => n = Wrap(s)
         /\ s \in MinInt..(-MinInt - 1) => Wrap(s) = s
<1> DEFINE m == 2 ^ Width
           r == (s - MinInt) % m
           q == (s - MinInt) \div m
<1>1. m \in Nat \ {0} /\ MinInt \in Int /\ m = -2 * MinInt BY Halves
<1>2. Wrap(s) = MinInt + r BY DEF Wrap
<1> HIDE DEF m
<1>3. r \in 0..(m - 1) /\ q \in Int /\ s - MinInt = m * q + r
  <2>1. s - MinInt \in Int BY <1>1
  <2> QED BY <1>1, <2>1, DivMod
<1> HIDE DEF r, q
<1>4. Wrap(s) \in MinInt..(-MinInt - 1) BY <1>1, <1>2, <1>3
<1>5. Wrap(s) - s = m * (-q) BY <1>1, <1>2, <1>3
<1>6. ASSUME NEW a \in Int PROVE (m * a) % m = 0
  <2> DEFINE t == (m * a) % m
             p == (m * a) \div m
  <2>1. t \in 0..(m - 1) /\ p \in Int /\ m * a = m * p + t
    <3>1. m * a \in Int BY <1>1
    <3> QED BY <1>1, <3>1, DivMod
  <2> HIDE DEF t, p
  <2>2. m * (a - p) = t BY <1>1, <2>1
  <2>3. a - p = 0 BY <1>1, <2>1, <2>2, Multiples
  <2>4. t = 0 BY <1>1, <2>2, <2>3
  <2> QED BY <2>4 DEF t
<1>7. (Wrap(s) - s) % m = 0 BY <1>3, <1>5, <1>6
<1>8. ASSUME NEW n \in MinInt..(-MinInt - 1), (n - s) % m = 0 PROVE n = Wrap(s)
  <2> DEFINE p == (n - s) \div m
  <2>1. p \in Int /\ n - s = m * p BY <1>1, <1>8
  <2> HIDE DEF p
  <2>2. n - Wrap(s) = m * (p + q) BY <1>1, <1>2, <1>3, <2>1
  <2>3. p + q = 0 BY <1>1, <1>3, <1>4, <2>1, <2>2, Multiples
  <2>4. n - Wrap(s) = 0 BY <1>1, <2>2, <2>3
  <2> QED BY <1>1, <1>4, <2>4
<1>9. s \in MinInt..(-MinInt - 1) => Wrap(s) = s
  <2>1. (m * 0) % m = 0 BY <1>6
  <2>2. (s - s) % m = 0 BY <1>1, <2>1
  <2> QED BY <1>8, <2>2
<1> QED BY <1>4, <1>7, <1>8, <1>9 DEF m

IntRange == MinInt..(-MinInt - 1)

LEMMA AbsIs ==
  ASSUME NEW a \in Int
  PROVE  /\ Abs(a) \in Nat
         /\ a < 0 => Abs(a) = -a
         /\ a >= 0 => Abs(a) = a
BY DEF Abs

\* Division towards zero is the one that multiplication defines.
LEMMA Divided ==
  ASSUME NEW a \in IntRange, NEW b \in IntRange, b # 0, ~(a = MinInt /\ b = -1)
  PROVE  /\ Quotient(a, b) \in IntRange
         /\ Divides(Quotient(a, b), a, b)
         /\ \A n \in IntRange : Divides(n, a, b) => n = Quotient(a, b)
<1> DEFINE c == Abs(a) \div Abs(b)
           d == Abs(a) % Abs(b)
           q == Quotient(a, b)
<1>1. /\ MinInt \in Int /\ MinInt < 0 /\ a \in Int /\ b \in Int
      /\ MinInt <= a /\ a <= -MinInt - 1 /\ MinInt <= b /\ b <= -MinInt - 1
  BY Halves DEF IntRange
<1>2. Abs(a) \in Nat /\ Abs(b) \in Nat \ {0} BY <1>1, AbsIs
<1>3. d \in 0..(Abs(b) - 1) /\ c \in Int /\ Abs(a) = Abs(b) * c + d
  <2>1. PICK x, y : x = Abs(a) /\ y = Abs(b) OBVIOUS
  <2>2. x \in Int /\ y \in Nat \ {0} BY <1>2, <2>1
  <2>3. x % y \in 0..(y - 1) /\ x \div y \in Int /\ x = y * (x \div y) + (x % y) BY <2>2, DivMod
  <2> QED BY <2>1, <2>3, Zenon
<1>4. q = IF (a < 0) = (b < 0) THEN c ELSE -c BY DEF Quotient
<1> HIDE DEF c, d, q
<1>5. c >= 0
  <2> SUFFICES ASSUME c <= -1 PROVE FALSE
    BY <1>3
  <2>1. Abs(b) * c <= Abs(b) * (-1) BY <1>2, <1>3
  <2> QED BY <1>2, <1>3, <2>1
<1>6. c <= Abs(a) /\ (Abs(b) # 1 => 2 * c <= Abs(a))
  <2>1. Abs(b) * c >= 1 * c BY <1>2, <1>3, <1>5
  <2>2. Abs(b) # 1 => Abs(b) * c >= 2 * c BY <1>2, <1>3, <1>5
  <2> QED BY <1>2, <1>3, <2>1, <2>2
<1>7. q \in IntRange
  <2>1. q \in Int /\ (q = c \/ q = -c) /\ ((a < 0) # (b < 0) => q = -c) BY <1>3, <1>4
  <2>2. CASE Abs(a) <= -MinInt - 1
    BY <1>1, <1>2, <1>3, <1>5, <1>6, <2>1, <2>2 DEF IntRange
  <2>3. CASE Abs(a) > -MinInt - 1
    <3>1. a = MinInt BY <1>1, <2>3, AbsIs
    <3>2. b # -1 BY <3>1
    <3>3. CASE b = 1
      <4>1. Abs(b) = 1 /\ q = -c BY <1>1, <2>1, <3>1, <3>3, AbsIs
      <4> QED BY <1>1, <1>2, <1>3, <1>5, <1>6, <3>1, <4>1, AbsIs DEF IntRange
    <3>4. CASE b # 1
      <4>1. Abs(b) # 1 BY <1>1, <3>2, <3>4, AbsIs
      <4>2. 2 * c <= -MinInt BY <1>1, <1>6, <3>1, <4>1, AbsIs
      <4> QED BY <1>1, <1>3, <1>5, <2>1, <4>2 DEF IntRange
    <3> QED BY <3>3, <3>4
  <2> QED BY <1>1, <1>2, <2>2, <2>3
<1>8. Divides(q, a, b)
  <2> DEFINE r == IF a < 0 THEN -d ELSE d
  <2>1. r \in MinInt..(-MinInt) /\ Abs(r) < Abs(b) /\ (r # 0 => (r < 0) = (a < 0))
    <3>1. r \in Int /\ Abs(r) = d BY <1>3, AbsIs
    <3>2. Abs(b) <= -MinInt BY <1>1, AbsIs
    <3> QED BY <1>1, <1>2, <1>3, <3>1, <3>2
  <2>2. a = q * b + r
    <3>1. CASE a < 0 /\ b < 0
      <4>1. Abs(a) = -a /\ Abs(b) = -b /\ q = c /\ r = -d BY <1>1, <1>4, <3>1, AbsIs
      <4>2. -a = (-b) * c + d BY <1>3, <4>1
      <4> QED BY <1>1, <1>3, <4>1, <4>2
    <3>2. CASE a < 0 /\ ~(b < 0)
      <4>1. Abs(a) = -a /\ Abs(b) = b /\ q = -c /\ r = -d BY <1>1, <1>4, <3>2, AbsIs
      <4>2. -a = b * c + d BY <1>3, <4>1
      <4> QED BY <1>1, <1>3, <4>1, <4>2
    <3>3. CASE ~(a < 0) /\ b < 0
      <4>1. Abs(a) = a /\ Abs(b) = -b /\ q = -c /\ r = d BY <1>1, <1>4, <3>3, AbsIs
      <4>2. a = (-b) * c + d BY <1>3, <4>1
      <4> QED BY <1>1, <1>3, <4>1, <4>2
    <3>4. CASE ~(a < 0) /\ ~(b < 0)
      <4>1. Abs(a) = a /\ Abs(b) = b /\ q = c /\ r = d BY <1>1, <1>4, <3>4, AbsIs
      <4>2. a = b * c + d BY <1>3, <4>1
      <4> QED BY <1>1, <1>3, <4>1, <4>2
    <3> QED BY <3>1, <3>2, <3>3, <3>4
  <2> HIDE DEF r
  <2> QED BY <2>1, <2>2 DEF Divides
<1>9. ASSUME NEW n \in IntRange, Divides(n, a, b) PROVE n = q
  <2>1. PICK r \in MinInt..(-MinInt) : a = n * b + r /\ Abs(r) < Abs(b) /\ (r # 0 => (r < 0) = (a < 0))
    BY <1>9 DEF Divides
  <2>2. PICK s \in MinInt..(-MinInt) : a = q * b + s /\ Abs(s) < Abs(b) /\ (s # 0 => (s < 0) = (a < 0))
    BY <1>8 DEF Divides
  <2>3. n \in Int /\ q \in Int /\ r \in Int /\ s \in Int BY <1>1, <1>7, <2>1, <2>2 DEF IntRange
  <2>4. (n - q) * b = s - r BY <1>1, <2>1, <2>2, <2>3
  <2>5. s - r < Abs(b) /\ -Abs(b) < s - r
    <3>1. \/ s >= 0 /\ r >= 0
          \/ s <= 0 /\ r <= 0
      BY <1>1, <2>1, <2>2, <2>3
    <3>2. /\ Abs(r) = IF r < 0 THEN -r ELSE r
          /\ Abs(s) = IF s < 0 THEN -s ELSE s
      BY DEF Abs
    <3> QED BY <1>2, <2>1, <2>2, <2>3, <3>1, <3>2
  <2>6. \E p \in {n - q, q - n} : Abs(b) * p = s - r
    <3>1. CASE b < 0
      <4>1. Abs(b) = -b BY <1>1, <3>1, AbsIs
      <4>2. (-b) * (q - n) = s - r BY <1>1, <2>3, <2>4
      <4> QED BY <4>1, <4>2
    <3>2. CASE ~(b < 0)
      <4>1. Abs(b) = b BY <1>1, <3>2, AbsIs
      <4>2. b * (n - q) = s - r BY <1>1, <2>3, <2>4
      <4> QED BY <4>1, <4>2
    <3> QED BY <3>1, <3>2
  <2>7. PICK p \in {n - q, q - n} : Abs(b) * p = s - r BY <2>6
  <2>8. p = 0
    <3>1. p \in Int BY <2>3
    <3> QED BY <1>2, <2>5, <2>7, <3>1, Multiples
  <2> QED BY <2>3, <2>7, <2>8
<1> QED BY <1>7, <1>8, <1>9 DEF q

\* compute_i is the arithmetic of the machine.
LEMMA ComputedInt ==
  ASSUME NEW o \in IntOps, NEW a \in IntRange, NEW b \in IntRange,
         o = "sdiv" => b # 0 /\ ~(a = MinInt /\ b = -1)
  PROVE  compute_i(o, a, b) \in IntRange /\ compute_i(o, a, b) = IntResult(o, a, b)
<1>1. a \in Int /\ b \in Int /\ MinInt \in Int BY Halves DEF IntRange
<1> DEFINE Is_(n) ==
    CASE o = "add" -> (n - (a + b)) % (2 ^ Width) = 0
      [] o = "sub" -> (n - (a - b)) % (2 ^ Width) = 0
      [] o = "mul" -> (n - (a * b)) % (2 ^ Width) = 0
      [] o = "sdiv" -> IF b = 0 THEN n = -1
                       ELSE IF a = MinInt /\ b = -1 THEN n = a ELSE Divides(n, a, b)
<1>2. IntResult(o, a, b) = CHOOSE n \in IntRange : Is_(n) BY DEF IntResult, IntRange
<1>3. \E w \in IntRange : /\ compute_i(o, a, b) = w /\ Is_(w)
                          /\ \A n \in IntRange : Is_(n) => n = w
  <2>1. CASE o = "add"
    <3>4. PICK s : s = a + b OBVIOUS
    <3>1. compute_i(o, a, b) = Wrap(s) BY <3>4, <2>1 DEF compute_i
    <3>2. s \in Int BY <1>1, <3>4
    <3>3. \A n : Is_(n) <=> (n - s) % (2 ^ Width) = 0 BY <3>4, <2>1
    <3> HIDE DEF Is_
    <3> QED BY <3>1, <3>2, <3>3, Wrapped DEF IntRange
  <2>2. CASE o = "sub"
    <3>4. PICK s : s = a - b OBVIOUS
    <3>1. compute_i(o, a, b) = Wrap(s) BY <3>4, <2>2 DEF compute_i
    <3>2. s \in Int BY <1>1, <3>4
    <3>3. \A n : Is_(n) <=> (n - s) % (2 ^ Width) = 0 BY <3>4, <2>2
    <3> HIDE DEF Is_
    <3> QED BY <3>1, <3>2, <3>3, Wrapped DEF IntRange
  <2>3. CASE o = "mul"
    <3>4. PICK s : s = a * b OBVIOUS
    <3>1. compute_i(o, a, b) = Wrap(s) BY <3>4, <2>3 DEF compute_i
    <3>2. s \in Int BY <1>1, <3>4
    <3>3. \A n : Is_(n) <=> (n - s) % (2 ^ Width) = 0 BY <3>4, <2>3
    <3> HIDE DEF Is_
    <3> QED BY <3>1, <3>2, <3>3, Wrapped DEF IntRange
  <2>4. CASE o = "sdiv"
    <3>1. compute_i(o, a, b) = Wrap(Quotient(a, b)) BY <2>4 DEF compute_i
    <3>2. \A n : Is_(n) <=> Divides(n, a, b) BY <2>4
    <3>3. Quotient(a, b) \in IntRange BY <2>4, Divided
    <3>4. Wrap(Quotient(a, b)) = Quotient(a, b)
      <4>1. Quotient(a, b) \in Int BY <1>1, <3>3 DEF IntRange
      <4> QED BY <3>3, <4>1, Wrapped DEF IntRange
    <3> QED BY <2>4, <3>1, <3>2, <3>3, <3>4, Divided
  <2> QED BY <2>1, <2>2, <2>3, <2>4 DEF IntOps
<1> HIDE DEF Is_
<1>4. PICK w \in IntRange : /\ compute_i(o, a, b) = w /\ Is_(w)
                            /\ \A n \in IntRange : Is_(n) => n = w
  BY <1>3
<1>5. (CHOOSE n \in IntRange : Is_(n)) = w BY <1>4
<1> QED BY <1>2, <1>4, <1>5

LEMMA NearIs ==
  ASSUME NEW n \in Int
  PROVE  Near(n) \in (-MaxFloat)..MaxFloat
BY Halves DEF Near

\* f_to_i gives the integer part.
LEMMA ComputedPart ==
  ASSUME NEW a \in (-MaxFloat)..MaxFloat
  PROVE  /\ f_to_i(a) \in IntRange
         /\ f_to_i(a) = CHOOSE n \in IntRange : IntPart(n, a)
<1> DEFINE w == f_to_i(a)
<1>1. MinInt \in Int /\ MinInt < 0 /\ MaxFloat = 2 * (-MinInt - 1) /\ MaxFloat \in Nat /\ a \in Int
  BY Halves
<1>2. Abs(2) = 2 BY DEF Abs
<1>3. w = IF a < 0 THEN -(Abs(a) \div 2) ELSE Abs(a) \div 2 BY <1>1, <1>2 DEF f_to_i, Quotient
<1>4. Abs(a) \div 2 \in Int /\ Abs(a) = 2 * (Abs(a) \div 2) + (Abs(a) % 2) /\ Abs(a) % 2 \in 0..1
  <2>1. PICK x : x = Abs(a) OBVIOUS
  <2>2. x \in Int BY <1>1, <2>1, AbsIs
  <2>3. x \div 2 \in Int /\ x = 2 * (x \div 2) + (x % 2) /\ x % 2 \in 0..1 BY <2>2
  <2> QED BY <2>1, <2>3, Zenon
<1>5. w \in IntRange BY <1>1, <1>3, <1>4, AbsIs DEF IntRange
<1>6. \A n \in Int : IntPart(n, a) <=>
         /\ (IF 2 * n < 0 THEN -(2 * n) ELSE 2 * n) <= (IF a < 0 THEN -a ELSE a)
         /\ (IF a - 2 * n < 0 THEN -(a - 2 * n) ELSE a - 2 * n) < 2
  BY DEF IntPart, Abs
<1>7. w \in Int BY <1>1, <1>5 DEF IntRange
<1> HIDE DEF w
<1>8. IntPart(w, a) BY <1>1, <1>3, <1>4, <1>6, <1>7, AbsIs
<1>9. \A n \in IntRange : IntPart(n, a) => n = w
  <2> SUFFICES ASSUME NEW n \in IntRange, IntPart(n, a) PROVE n = w
    OBVIOUS
  <2>1. n \in Int BY <1>1 DEF IntRange
  <2> QED BY <1>1, <1>6, <1>7, <1>8, <2>1
<1>10. (CHOOSE n \in IntRange : IntPart(n, a)) = w BY <1>5, <1>8, <1>9
<1> QED BY <1>5, <1>10 DEF w

LEMMA Compared ==
  ASSUME NEW o \in Compares \cup FCompares, NEW a \in Int, NEW b \in Int
  PROVE  /\ compare(o, a, b) = IF Holds(o, a, b) THEN 1 ELSE 0
         /\ compare(o, a, b) \in IntRange
<1>1. compare(o, a, b) = (IF Holds(o, a, b) THEN 1 ELSE 0) /\ compare(o, a, b) \in {0, 1}
  BY DEF compare, Holds, Truth, Compares, FCompares
<1>2. {0, 1} \subseteq IntRange BY Halves DEF IntRange
<1> QED BY <1>1, <1>2

-----------------------------------------------------------------------------
\* What has become of the values: rho says for each instruction what took its place.
Sub(rho, v) == IF v \in InstrsIn(f) THEN rho[v] ELSE v
IsLike(v)   == v \in InstrsIn(f) \cup Constants \cup {Zero} \/ (v[1] = "arg" /\ v \in ValuesIn(f))

\* Operands are lists, and a block keeps the order it had.
FormOK ==
  /\ \A x \in InstrsIn(f) : ir.operands[x] \in Seq(ValuesIn(f) \cup Constants \cup {Zero})
  /\ \A b \in Block :
       /\ ir.code[b] \in Seq(InstrsIn(f))
       /\ \A m, n \in DOMAIN ir.code[b] : m < n =>
            \E i, k \in DOMAIN f.code[b] : i < k /\ ir.code[b][m] = f.code[b][i] /\ ir.code[b][n] = f.code[b][k]

\* c is what the operation o comes to on the constants v and w.
FoldOf(o, v, w, c) ==
  \/ /\ o \in IntOps /\ v[1] = "const" /\ w[1] = "const"
     /\ c = <<"const", compute_i(o, v[2], w[2])>>
     /\ o = "sdiv" => w[2] # 0 /\ ~(v[2] = MinInt /\ w[2] = -1)
  \/ /\ o \in FloatOps /\ v[1] = "fconst" /\ w[1] = "fconst"
     /\ c = <<"fconst", compute_f(o, v[2], w[2])>>
  \/ o = "fptosi" /\ v[1] = "fconst" /\ c = <<"const", f_to_i(v[2])>>
  \/ o = "sitofp" /\ v[1] = "const" /\ c = <<"fconst", i_to_f(v[2])>>
  \/ /\ o \in Compares /\ v[1] = "const" /\ w[1] = "const"
     /\ c = <<"const", compare(o, v[2], w[2])>>
  \/ /\ o \in FCompares /\ v[1] = "fconst" /\ w[1] = "fconst"
     /\ c = <<"const", compare(o, v[2], w[2])>>

\* Instruction j of b loads what instruction i of the block stored, or what a global begins with.
AddressAt(b, j) == f.operands[f.code[b][j]][1]
StoredAt(b, i)  == f.operands[f.code[b][i]][1]
Fresh(b, j, k)  == /\ f.first /\ b = Entry(f) /\ k[1] = "global"
                   /\ \A i \in 1..(j - 1) : ~StoresTo(f, b, i, k)

Replaces(rho, b, j, v) ==
  LET x == f.code[b][j]
  IN  \/ /\ x[1] = "op"
         /\ FoldOf(f.opcode[x], Sub(rho, f.operands[x][1]), Sub(rho, f.operands[x][2]), v)
         /\ FromBit(x) => Sub(rho, f.operands[x][1])[2] = 0
      \/ x[1] = "load" /\ \E i \in DOMAIN f.code[b] :
           StoredLast(f, b, i, j, Key(AddressAt(b, j))) /\ v = Sub(rho, StoredAt(b, i))
      \/ x[1] = "load" /\ Fresh(b, j, Key(AddressAt(b, j))) /\ v = Zero

SubstOK(rho) ==
  /\ DOMAIN rho = InstrsIn(f)
  /\ \A x \in InstrsIn(f) \ delete_list : rho[x] = x
  /\ \A x \in delete_list : rho[x] \notin delete_list /\ IsLike(rho[x])
  /\ \A x \in InstrsIn(ir) : \A i \in DOMAIN f.operands[x] : ir.operands[x][i] = Sub(rho, f.operands[x][i])
  /\ \A b \in Block : \A j \in DOMAIN f.code[b] : f.code[b][j] \in delete_list =>
       Precedes(rho[f.code[b][j]], b, j) /\ Replaces(rho, b, j, rho[f.code[b][j]])

MapKnown(rho, k) ==
  \/ \E i \in DOMAIN f.code[bb] : StoredLast(f, bb, i, line + 1, k) /\ map_[k] = Sub(rho, StoredAt(bb, i))
  \/ Fresh(bb, line + 1, k) /\ map_[k] = Zero

MapSaysOK(rho) == pc = "instr" => \A k \in DOMAIN map_ : MapKnown(rho, k)

LEMMA Executable ==
  ASSUME f \in Functions
  PROVE  IsExecutable(f) /\ MapIsTrue(f)
BY ExecutionAssumption

LEMMA InstrKinds ==
  ASSUME f \in Functions, NEW x \in InstrsIn(f)
  PROVE  /\ x[1] \in {"op", "load", "store", "phi", "call", "br", "ret"}
         /\ x[1] = "op" => f.opcode[x] \in Binary \cup {"fptosi", "sitofp", "zext"}
         /\ x[1] # "op" => f.opcode[x] = x[1]
         /\ \A o \in {"load", "store", "phi"} : f.opcode[x] = o <=> x[1] = o
         /\ \A i \in DOMAIN f.operands[x] :
              /\ IsAddress(x, i) => f.operands[x][i][1] \in {"global", "cell"}
              /\ x[1] \in {"op", "load", "store", "call", "ret"} /\ ~IsAddress(x, i) => IsValue(f, f.operands[x][i])
<1>1. /\ x[1] \in {"op", "load", "store", "phi", "call", "br", "ret"}
      /\ IF x[1] = "op" THEN f.opcode[x] \in Binary \cup {"fptosi", "sitofp", "zext"} ELSE f.opcode[x] = x[1]
      /\ \A i \in DOMAIN f.operands[x] :
           IF IsAddress(x, i) THEN f.operands[x][i][1] \in {"global", "cell"}
           ELSE x[1] \in {"br", "phi"} \/ IsValue(f, f.operands[x][i])
  BY Executable, Zenon DEF IsExecutable
<1>2. \A o \in {"load", "store", "phi"} : o \notin Binary \cup {"fptosi", "sitofp", "zext"}
  BY DEF Binary, IntOps, FloatOps, Compares, FCompares
<1> QED BY <1>1, <1>2

\* What is no instruction: addresses, constants, arguments, labels.
LEMMA NotInstr ==
  ASSUME f \in Functions, NEW v
  PROVE  /\ v[1] \in {"global", "cell", "const", "fconst", "arg", "bb", "zero"} => v \notin InstrsIn(f)
         /\ v \in Constants => v \notin InstrsIn(f)
         /\ v \in Block => v \notin InstrsIn(f)
         /\ Zero \notin InstrsIn(f)
<1>1. v[1] \in {"global", "cell", "const", "fconst", "arg", "bb", "zero"} => v \notin InstrsIn(f)
  BY InstrKinds
<1>2. v \in Constants => v[1] \in {"const", "fconst"} BY DEF Constants
<1>3. v \in Block => v[1] = "bb" BY Executable DEF IsExecutable
<1>4. Zero \notin InstrsIn(f) BY Kinds
<1> QED BY <1>1, <1>2, <1>3, <1>4

LEMMA OperandIsValue ==
  ASSUME f \in Functions, NEW x \in InstrsIn(f)
  PROVE  /\ \A i \in DOMAIN f.operands[x] : f.operands[x][i] \in ValuesIn(f)
         /\ \A i \in DOMAIN f.operands[x] : IsValue(f, f.operands[x][i]) => IsLike(f.operands[x][i])
         /\ x \in ValuesIn(f)
         /\ f.operands[x] \in Seq(ValuesIn(f))
<1>1. f.operands \in [InstrsIn(f) -> Seq(ValuesIn(f))]
  <2>1. IsFunction(f) BY FunctionsAssumption
  <2> QED BY <2>1, Zenon DEF IsFunction
<1>2. \A i \in DOMAIN f.operands[x] : f.operands[x][i] \in ValuesIn(f)
  BY DEF ValuesIn, Range
<1>3. x \in ValuesIn(f) BY DEF ValuesIn
<1> QED BY <1>1, <1>2, <1>3 DEF IsLike, IsValue

LEMMA SameStatic ==
  ASSUME f' = f
  PROVE  /\ \A rho, v : Sub(rho, v)' = Sub(rho, v)
         /\ \A v : IsLike(v)' <=> IsLike(v)
         /\ \A v, b, j : Precedes(v, b, j)' <=> Precedes(v, b, j)
         /\ \A rho, b, j, v : Replaces(rho, b, j, v)' <=> Replaces(rho, b, j, v)
         /\ \A b, j, k : Fresh(b, j, k)' <=> Fresh(b, j, k)
         /\ \A x : FromBit(x)' <=> FromBit(x)
<1>1. \A rho, v : Sub(rho, v)' = Sub(rho, v) BY DEF Sub
<1>2. \A v : IsLike(v)' <=> IsLike(v) BY DEF IsLike
<1>3. \A v, b, j : Precedes(v, b, j)' <=> Precedes(v, b, j) BY DEF Precedes
<1>4. \A b, j, k : Fresh(b, j, k)' <=> Fresh(b, j, k) BY DEF Fresh
<1>5. \A x : FromBit(x)' <=> FromBit(x) BY DEF FromBit, InstrsIn
<1>6. ASSUME NEW rho, NEW b, NEW j, NEW v PROVE Replaces(rho, b, j, v)' <=> Replaces(rho, b, j, v)
  <2>1. PICK x, g : x = f.code[b][j] /\ g = f OBVIOUS
  <2>2. f' = g /\ f'.code[b][j] = x /\ f.code[b][j] = x BY <2>1
  <2>3. FromBit(f.code[b][j])' <=> FromBit(x) BY <1>5, <2>2 DEF FromBit, InstrsIn
  <2>4. \A w : Sub(rho, w)' = Sub(rho, w) BY <1>1
  <2>5. Sub(rho, f.operands[f.code[b][j]][1])' = Sub(rho, f.operands[f.code[b][j]][1]) BY <2>2 DEF Sub
  <2>6. Sub(rho, f.operands[f.code[b][j]][2])' = Sub(rho, f.operands[f.code[b][j]][2]) BY <2>2 DEF Sub
  <2>7. \A i : Sub(rho, StoredAt(b, i))' = Sub(rho, StoredAt(b, i)) BY <2>2 DEF Sub, StoredAt
  <2>8. AddressAt(b, j)' = AddressAt(b, j) BY <2>2 DEF AddressAt
  <2>9. \A k : Fresh(b, j, k)' <=> Fresh(b, j, k) BY <1>4
  <2>10. Fresh(b, j, Key(AddressAt(b, j)))' <=> Fresh(b, j, Key(AddressAt(b, j))) BY <2>2 DEF Fresh, AddressAt
  <2>11. PICK k : k = Key(AddressAt(b, j)) OBVIOUS
  <2>12. Key(AddressAt(b, j))' = k BY <2>8, <2>11
  <2> QED BY <2>1, <2>2, <2>3, <2>5, <2>6, <2>7, <2>8, <2>10, <2>11, <2>12 DEF Replaces
<1> QED BY <1>1, <1>2, <1>3, <1>4, <1>5, <1>6

LEMMA SubstStays ==
  ASSUME NEW rho, SubstOK(rho), f' = f, ir'.operands = ir.operands, delete_list' = delete_list,
         InstrsIn(ir') \subseteq InstrsIn(ir)
  PROVE  SubstOK(rho)'
<1>1. InstrsIn(f)' = InstrsIn(f) /\ InstrsIn(ir)' \subseteq InstrsIn(ir) BY DEF InstrsIn
<1> QED BY <1>1, SameStatic DEF SubstOK

\* When v takes the place of the instruction y, it does so in what rho says as well.
LEMMA SubstComposed ==
  ASSUME f \in Functions, NEW rho, DOMAIN rho = InstrsIn(f), NEW y \in InstrsIn(f), NEW v, rho[y] = y,
         NEW r, r = [x \in InstrsIn(f) |-> IF rho[x] = y THEN v ELSE rho[x]]
  PROVE  /\ \A w : Sub(r, w) = IF Sub(rho, w) = y THEN v ELSE Sub(rho, w)
         /\ \A b \in Block : \A j \in DOMAIN f.code[b] : \A w :
              Replaces(rho, b, j, w) => Replaces(r, b, j, IF w = y THEN v ELSE w)
<1>1. \A w : Sub(r, w) = IF Sub(rho, w) = y THEN v ELSE Sub(rho, w) BY DEF Sub
<1>2. y[1] \notin {"const", "fconst"} /\ y # Zero BY Kinds
<1>3. \A w : Sub(rho, w)[1] \in {"const", "fconst"} => Sub(r, w) = Sub(rho, w) BY <1>1, <1>2
<1>4. ASSUME NEW b \in Block, NEW j \in DOMAIN f.code[b], NEW w, Replaces(rho, b, j, w)
      PROVE  Replaces(r, b, j, IF w = y THEN v ELSE w)
  <2> DEFINE x == f.code[b][j]
  <2>1. CASE /\ x[1] = "op"
             /\ FoldOf(f.opcode[x], Sub(rho, f.operands[x][1]), Sub(rho, f.operands[x][2]), w)
             /\ FromBit(x) => Sub(rho, f.operands[x][1])[2] = 0
    <3>0. PICK p1, p2 : p1 = f.operands[x][1] /\ p2 = f.operands[x][2] OBVIOUS
    <3>1. PICK a1, a2, b1, b2 : a1 = Sub(rho, p1) /\ a2 = Sub(rho, p2) /\ b1 = Sub(r, p1) /\ b2 = Sub(r, p2)
      OBVIOUS
    <3>2. /\ a1[1] \in {"const", "fconst"} => b1 = a1
          /\ a2[1] \in {"const", "fconst"} => b2 = a2
      BY <1>3, <3>1
    <3>3. FoldOf(f.opcode[x], b1, b2, w) /\ w[1] \in {"const", "fconst"}
      <4>1. PICK o : o = f.opcode[x] OBVIOUS
      <4>2. FoldOf(o, a1, a2, w) BY <2>1, <3>0, <3>1, <4>1
      <4>3. FoldOf(o, b1, b2, w) /\ w[1] \in {"const", "fconst"} BY <3>2, <4>2 DEF FoldOf
      <4> QED BY <4>1, <4>3
    <3>4. w # y BY <1>2, <3>3
    <3>5. FromBit(x) => b1[2] = 0
      <4> SUFFICES ASSUME FromBit(x) PROVE b1[2] = 0
        OBVIOUS
      <4>1. f.opcode[x] = "sitofp" BY DEF FromBit
      <4>2. a1[1] = "const" BY <2>1, <3>0, <3>1, <4>1 DEF FoldOf, IntOps, FloatOps, Compares, FCompares
      <4> QED BY <2>1, <3>0, <3>1, <3>2, <4>2
    <3> QED BY <2>1, <3>0, <3>1, <3>3, <3>4, <3>5 DEF Replaces
  <2>2. CASE x[1] = "load" /\ \E i \in DOMAIN f.code[b] :
           StoredLast(f, b, i, j, Key(AddressAt(b, j))) /\ w = Sub(rho, StoredAt(b, i))
    BY <1>1, <2>2 DEF Replaces
  <2>3. CASE x[1] = "load" /\ Fresh(b, j, Key(AddressAt(b, j))) /\ w = Zero
    BY <1>2, <2>3 DEF Replaces
  <2> QED BY <1>4, <2>1, <2>2, <2>3, Zenon DEF Replaces
<1> QED BY <1>1, <1>4

LEMMA SubstReplacing ==
  ASSUME IInv, InBlock, NEW rho, SubstOK(rho), NEW v, Replacement(v), IsLike(v), ReplaceBy(v), f' = f,
         Replaces(rho, bb, line + 1, v),
         NEW r, r = [x \in InstrsIn(f) |-> IF rho[x] = instr THEN v ELSE rho[x]]
  PROVE  /\ SubstOK(r)'
         /\ \A w : Sub(rho, w) # instr => Sub(r, w) = Sub(rho, w)
<1>1. /\ f \in Functions /\ CodeOK /\ UsesOK /\ IsData(ir)
      /\ line + 1 \in DOMAIN f.code[bb] /\ instr = f.code[bb][line + 1] /\ bb \in Block
      /\ instr \in InstrsIn(f) /\ instr \in InstrsIn(ir) /\ instr \notin delete_list
  <2>1. f \in Functions /\ CodeOK /\ UsesOK /\ IsData(ir) BY DEF IInv, CodeOK
  <2>2. pc # "done" BY DEF InBlock
  <2> QED BY <2>1, <2>2, AtInstr, AtBlock
<1>2. ir' = ReplaceAllUseWith(ir, instr, v) /\ delete_list' = delete_list \cup {instr}
  BY DEF ReplaceBy
<1>3. /\ rho[instr] = instr /\ DOMAIN rho = InstrsIn(f)
      /\ v \notin delete_list /\ Precedes(v, bb, line + 1) /\ v # instr
  BY <1>1, PrecedesOrder DEF SubstOK, Replacement
<1>4. /\ \A w : Sub(r, w) = IF Sub(rho, w) = instr THEN v ELSE Sub(rho, w)
      /\ \A b \in Block : \A j \in DOMAIN f.code[b] : \A w :
           Replaces(rho, b, j, w) => Replaces(r, b, j, IF w = instr THEN v ELSE w)
  BY <1>1, <1>3, SubstComposed
<1>5. InstrsIn(ir)' = InstrsIn(ir) /\ InstrsIn(f)' = InstrsIn(f) /\ InstrsIn(ir) \subseteq InstrsIn(f)
  <2>1. ir'.code = ir.code BY <1>1, <1>2, Replaced
  <2> QED BY <1>1, <2>1, Inside DEF InstrsIn
<1>6. \A x \in InstrsIn(ir) : \A i \in DOMAIN f.operands[x] :
        ir'.operands[x][i] = IF ir.operands[x][i] = instr THEN v ELSE ir.operands[x][i]
  <2> SUFFICES ASSUME NEW x \in InstrsIn(ir), NEW i \in DOMAIN f.operands[x]
               PROVE  ir'.operands[x][i] = IF ir.operands[x][i] = instr THEN v ELSE ir.operands[x][i]
    OBVIOUS
  <2>1. x \in DOMAIN ir.operands /\ i \in DOMAIN ir.operands[x] /\ instr \in DOMAIN ir.use_list
    BY <1>1, <1>5 DEF CodeOK
  <2>2. /\ <<x, i>> \in ir.use_list[instr] => ir'.operands[x][i] = v
        /\ <<x, i>> \notin ir.use_list[instr] => ir'.operands[x][i] = ir.operands[x][i]
    BY <1>1, <1>2, <2>1, Replaced
  <2>3. Exact(ir, InstrsIn(ir), instr) BY <1>1, <2>1 DEF UsesOK
  <2>4. ir.operands[x][i] = instr => <<x, i>> \in ir.use_list[instr] BY <2>1, <2>3, ExactMeans
  <2>5. <<x, i>> \in ir.use_list[instr] => ir.operands[x][i] = instr
    <3> SUFFICES ASSUME <<x, i>> \in ir.use_list[instr] PROVE ir.operands[x][i] = instr
      OBVIOUS
    <3>1. PICK y \in InstrsIn(ir) : \E k \in DOMAIN ir.operands[y] : <<x, i>> = <<y, k>> /\ ir.operands[y][k] = instr
      BY <2>3, ExactMeans
    <3> QED BY <3>1
  <2> QED BY <2>2, <2>4, <2>5
<1>7. \A x \in InstrsIn(ir) : \A i \in DOMAIN f.operands[x] : ir'.operands[x][i] = Sub(r, f.operands[x][i])
  BY <1>4, <1>6 DEF SubstOK
<1>8. \A x \in InstrsIn(f) : r[x] = IF rho[x] = instr THEN v ELSE rho[x] OBVIOUS
<1>9. \A x \in InstrsIn(f) \ delete_list' : r[x] = x BY <1>2, <1>8 DEF SubstOK
<1>10. \A x \in delete_list' : r[x] \notin delete_list' /\ IsLike(r[x])
  <2>1. delete_list \subseteq InstrsIn(f) BY <1>1, Inside
  <2> QED BY <1>1, <1>2, <1>3, <1>8, <2>1 DEF SubstOK
<1>11. ASSUME NEW b \in Block, NEW j \in DOMAIN f.code[b], f.code[b][j] \in delete_list'
       PROVE  Precedes(r[f.code[b][j]], b, j) /\ Replaces(r, b, j, r[f.code[b][j]])
  <2> DEFINE x == f.code[b][j]
  <2>0. x \in InstrsIn(f) BY <1>1, Lists
  <2>1. CASE x = instr
    <3>1. b = bb /\ j = line + 1 BY <1>1, <2>1, Places
    <3>2. r[x] = v BY <1>1, <1>3, <1>8, <2>1
    <3> QED BY <1>3, <1>4, <3>1, <3>2
  <2>2. CASE x # instr
    <3>1. x \in delete_list BY <1>2, <1>11, <2>2
    <3>2. Precedes(rho[x], b, j) /\ Replaces(rho, b, j, rho[x]) BY <3>1 DEF SubstOK
    <3>3. Replaces(r, b, j, r[x]) BY <1>4, <1>8, <2>0, <3>2
    <3>4. Precedes(instr, b, j) => Precedes(v, b, j) BY <1>1, <1>3, PrecedesOrder
    <3>5. Precedes(r[x], b, j) BY <1>8, <2>0, <3>2, <3>4
    <3> QED BY <3>3, <3>5
  <2> QED BY <2>1, <2>2
<1>12. DOMAIN r = InstrsIn(f) OBVIOUS
<1>13. SubstOK(r)'
  BY <1>5, <1>7, <1>9, <1>10, <1>11, <1>12, SameStatic DEF SubstOK
<1> QED BY <1>4, <1>13

\* Replacing leaves what is no reader as it is, also of instructions already deleted.
LEMMA OthersKept ==
  ASSUME IInv, InBlock, NEW v, Replacement(v), ReplaceBy(v), NEW x \in InstrsIn(f), NEW i \in DOMAIN f.operands[x],
         ir.operands[x][i] # instr
  PROVE  ir'.operands[x][i] = ir.operands[x][i]
<1>1. /\ f \in Functions /\ CodeOK /\ UsesOK /\ IsData(ir)
      /\ instr \in InstrsIn(f) /\ instr \in InstrsIn(ir) /\ instr \notin delete_list
  <2>1. f \in Functions /\ CodeOK /\ UsesOK /\ IsData(ir) BY DEF IInv, CodeOK
  <2>2. pc # "done" BY DEF InBlock
  <2> QED BY <2>1, <2>2, AtInstr, AtBlock
<1>2. ir' = ReplaceAllUseWith(ir, instr, v) BY DEF ReplaceBy
<1>3. x \in DOMAIN ir.operands /\ i \in DOMAIN ir.operands[x] /\ instr \in DOMAIN ir.use_list
  BY <1>1 DEF CodeOK
<1>4. Exact(ir, InstrsIn(ir), instr) BY <1>1, <1>3 DEF UsesOK
<1>5. <<x, i>> \notin ir.use_list[instr]
  <2> SUFFICES ASSUME <<x, i>> \in ir.use_list[instr] PROVE ir.operands[x][i] = instr
    OBVIOUS
  <2>1. PICK y \in InstrsIn(ir) : \E k \in DOMAIN ir.operands[y] : <<x, i>> = <<y, k>> /\ ir.operands[y][k] = instr
    BY <1>4, ExactMeans
  <2> QED BY <2>1
<1> QED BY <1>1, <1>2, <1>3, <1>5, Replaced

PassOK == FormOK /\ \E rho : SubstOK(rho) /\ MapSaysOK(rho)

\* What the pass reads of the next instruction.
LEMMA AtOps ==
  ASSUME IInv, InBlock, NEW rho, SubstOK(rho)
  PROVE  /\ f \in Functions /\ bb \in Block /\ line \in Nat /\ pc = "instr"
         /\ line + 1 \in DOMAIN f.code[bb] /\ instr = f.code[bb][line + 1]
         /\ instr \in InstrsIn(f) /\ op = f.opcode[instr] /\ rho[instr] = instr
         /\ \A i \in DOMAIN f.operands[instr] : ops[i] = Sub(rho, f.operands[instr][i])
         /\ op = "load" <=> instr[1] = "load"
         /\ op = "store" <=> instr[1] = "store"
         /\ op = "load" => ops[1] = f.operands[instr][1]
         /\ op = "store" => ops[2] = f.operands[instr][2] /\ ops[1] = Sub(rho, f.operands[instr][1])
                            /\ IsValue(f, f.operands[instr][1])
<1>1. /\ f \in Functions /\ CodeOK /\ pc = "instr"
  BY DEF IInv, InBlock
<1>2. /\ bb \in Block /\ line \in Nat
      /\ line + 1 \in DOMAIN f.code[bb] /\ instr = f.code[bb][line + 1]
      /\ instr \in InstrsIn(f) /\ instr \in InstrsIn(ir) /\ instr \notin delete_list
  BY <1>1, AtInstr, AtBlock DEF CodeOK
<1>3. \A i \in DOMAIN f.operands[instr] : ops[i] = Sub(rho, f.operands[instr][i])
  BY <1>2 DEF SubstOK, ops
<1>4. rho[instr] = instr BY <1>2 DEF SubstOK
<1>5. op = f.opcode[instr] BY DEF op
<1>6. PICK x : x = instr OBVIOUS
<1>7. x \in InstrsIn(f) BY <1>2, <1>6
<1>8. /\ f.opcode[x] = "load" <=> x[1] = "load"
      /\ f.opcode[x] = "store" <=> x[1] = "store"
  BY <1>1, <1>7, InstrKinds
<1>9. f.opcode[x] = "load" => Sub(rho, f.operands[x][1]) = f.operands[x][1] /\ 1 \in DOMAIN f.operands[x]
  <2> SUFFICES ASSUME f.opcode[x] = "load" PROVE Sub(rho, f.operands[x][1]) = f.operands[x][1] /\ 1 \in DOMAIN f.operands[x]
    OBVIOUS
  <2>1. 1 \in DOMAIN f.operands[x] BY <1>1, <1>7, Kinds
  <2>2. f.operands[x][1][1] \in {"global", "cell"} BY <1>1, <1>7, <1>8, <2>1, InstrKinds DEF IsAddress
  <2>3. f.operands[x][1] \notin InstrsIn(f) BY <1>1, <2>2, NotInstr
  <2> QED BY <2>1, <2>3 DEF Sub
<1>10. f.opcode[x] = "store" =>
         /\ Sub(rho, f.operands[x][2]) = f.operands[x][2] /\ {1, 2} \subseteq DOMAIN f.operands[x]
         /\ IsValue(f, f.operands[x][1])
  <2> SUFFICES ASSUME f.opcode[x] = "store"
               PROVE  /\ Sub(rho, f.operands[x][2]) = f.operands[x][2] /\ {1, 2} \subseteq DOMAIN f.operands[x]
                      /\ IsValue(f, f.operands[x][1])
    OBVIOUS
  <2>1. {1, 2} \subseteq DOMAIN f.operands[x] BY <1>1, <1>7, Kinds
  <2>2. f.operands[x][2][1] \in {"global", "cell"} BY <1>1, <1>7, <1>8, <2>1, InstrKinds DEF IsAddress
  <2>3. f.operands[x][2] \notin InstrsIn(f) BY <1>1, <2>2, NotInstr
  <2>4. IsValue(f, f.operands[x][1]) BY <1>1, <1>7, <1>8, <2>1, InstrKinds DEF IsAddress
  <2> QED BY <2>1, <2>3, <2>4 DEF Sub
<1> QED BY <1>1, <1>2, <1>3, <1>4, <1>5, <1>6, <1>8, <1>9, <1>10

\* A value stands for a value.
LEMMA SubLike ==
  ASSUME f \in Functions, NEW rho, SubstOK(rho), NEW v, IsLike(v)
  PROVE  IsLike(Sub(rho, v))
<1>1. CASE v \in InstrsIn(f)
  <2>1. Sub(rho, v) = rho[v] BY <1>1 DEF Sub
  <2>2. v \notin delete_list => rho[v] = v BY <1>1 DEF SubstOK
  <2> QED BY <2>1, <2>2 DEF SubstOK
<1>2. CASE v \notin InstrsIn(f)
  BY <1>2 DEF Sub
<1> QED BY <1>1, <1>2

LEMMA MapIsLike ==
  ASSUME f \in Functions, bb \in Block, NEW rho, SubstOK(rho), NEW k, MapKnown(rho, k)
  PROVE  IsLike(map_[k])
<1>1. CASE \E i \in DOMAIN f.code[bb] : StoredLast(f, bb, i, line + 1, k) /\ map_[k] = Sub(rho, StoredAt(bb, i))
  <2>1. PICK i \in DOMAIN f.code[bb] : StoresTo(f, bb, i, k) /\ map_[k] = Sub(rho, StoredAt(bb, i))
    BY <1>1 DEF StoredLast
  <2>2. PICK x : x = f.code[bb][i] OBVIOUS
  <2>3. x \in InstrsIn(f) /\ x[1] = "store" BY <2>1, <2>2, Lists DEF StoresTo
  <2>4. f.opcode[x] = "store" BY <2>3, InstrKinds
  <2>5. 1 \in DOMAIN f.operands[x] BY <2>3, <2>4, Kinds
  <2>6. IsLike(f.operands[x][1]) BY <2>3, <2>5, InstrKinds, OperandIsValue DEF IsAddress
  <2>7. IsLike(StoredAt(bb, i)) BY <2>2, <2>6 DEF StoredAt
  <2> QED BY <2>1, <2>7, SubLike
<1>2. CASE map_[k] = Zero
  BY <1>2 DEF IsLike
<1> QED BY <1>1, <1>2 DEF MapKnown

LEMMA PassStays ==
  ASSUME PassOK, UNCHANGED <<f, ir, at, line, map_, delete_list>>, pc' = pc \/ pc' # "instr"
  PROVE  PassOK'
<1>1. PICK rho : SubstOK(rho) /\ MapSaysOK(rho) BY DEF PassOK
<1>2. SubstOK(rho)' BY <1>1, SubstStays DEF InstrsIn
<1>0. FormOK' BY DEF FormOK, PassOK
<1>3. MapSaysOK(rho)'
  <2> SUFFICES ASSUME pc' = "instr", NEW k \in DOMAIN map_ PROVE MapKnown(rho, k)'
    BY DEF MapSaysOK
  <2>1. MapKnown(rho, k) BY <1>1 DEF MapSaysOK
  <2> QED BY <2>1 DEF MapKnown, bb, Fresh, StoredAt, Sub
<1> QED BY <1>0, <1>2, <1>3 DEF PassOK

\* The instruction just passed stores nothing under k.
LEMMA KnownAfter ==
  ASSUME f \in Functions, bb \in Block, line \in Nat, f' = f, at' = at, line' = line + 1,
         NEW k, ~StoresTo(f, bb, line + 1, k), map_'[k] = map_[k],
         NEW rho, NEW r, MapKnown(rho, k),
         Sub(r, map_[k]) = Sub(r, map_[k]),
         \A w : Sub(rho, w) = map_[k] => Sub(r, w) = map_[k]
  PROVE  MapKnown(r, k)'
<1>1. bb' = bb BY DEF bb
<1>2. CASE \E i \in DOMAIN f.code[bb] : StoredLast(f, bb, i, line + 1, k) /\ map_[k] = Sub(rho, StoredAt(bb, i))
  <2>1. PICK i \in DOMAIN f.code[bb] : StoredLast(f, bb, i, line + 1, k) /\ map_[k] = Sub(rho, StoredAt(bb, i))
    BY <1>2
  <2>2. i \in Nat BY Lists
  <2>3. \A h \in (i + 1)..(line + 2 - 1) : ~StoresTo(f, bb, h, k)
    <3> SUFFICES ASSUME NEW h \in (i + 1)..(line + 2 - 1) PROVE ~StoresTo(f, bb, h, k)
      OBVIOUS
    <3>1. h \in (i + 1)..(line + 1 - 1) \/ h = line + 1 BY <2>2
    <3> QED BY <2>1, <3>1 DEF StoredLast
  <2>4. i < line + 2 BY <2>1, <2>2 DEF StoredLast
  <2>5. StoredLast(f, bb, i, line + 2, k) BY <2>1, <2>3, <2>4 DEF StoredLast
  <2>6. line' + 1 = line + 2 OBVIOUS
  <2>7. map_'[k] = Sub(r, StoredAt(bb, i)) BY <2>1
  <2> QED BY <1>1, <2>5, <2>6, <2>7, SameStatic DEF MapKnown, StoredAt
<1>3. CASE Fresh(bb, line + 1, k) /\ map_[k] = Zero
  <2>1. \A i \in 1..(line + 2 - 1) : ~StoresTo(f, bb, i, k)
    <3> SUFFICES ASSUME NEW i \in 1..(line + 2 - 1) PROVE ~StoresTo(f, bb, i, k)
      OBVIOUS
    <3>1. i \in 1..(line + 1 - 1) \/ i = line + 1 OBVIOUS
    <3> QED BY <1>3, <3>1 DEF Fresh
  <2>2. Fresh(bb, line + 2, k) BY <1>3, <2>1 DEF Fresh
  <2>3. line' + 1 = line + 2 OBVIOUS
  <2> QED BY <1>1, <1>3, <2>2, <2>3, SameStatic DEF MapKnown
<1> QED BY <1>2, <1>3 DEF MapKnown

LEMMA PassReplaces ==
  ASSUME IInv, FormOK, InBlock, op # "store", NEW rho, SubstOK(rho), MapSaysOK(rho),
         NEW v, Replacement(v), IsLike(v), ReplaceBy(v), Replaces(rho, bb, line + 1, v),
         line' = line + 1, UNCHANGED <<f, pc, at, map_>>
  PROVE  PassOK'
<1>1. PICK r : r = [x \in InstrsIn(f) |-> IF rho[x] = instr THEN v ELSE rho[x]] OBVIOUS
<1>2. /\ SubstOK(r)'
      /\ \A w : Sub(rho, w) # instr => Sub(r, w) = Sub(rho, w)
  BY <1>1, SubstReplacing
<1>3. /\ f \in Functions /\ bb \in Block /\ line \in Nat /\ pc = "instr"
      /\ line + 1 \in DOMAIN f.code[bb] /\ instr = f.code[bb][line + 1]
      /\ instr[1] # "store"
  BY AtOps
<1>4. MapSaysOK(r)'
  <2> SUFFICES ASSUME NEW k \in DOMAIN map_ PROVE MapKnown(r, k)'
    BY DEF MapSaysOK
  <2>1. MapKnown(rho, k) BY <1>3 DEF MapSaysOK
  <2>2. Precedes(map_[k], bb, line + 1) BY DEF IInv, MapOK, Replacement
  <2>3. map_[k] # instr BY <1>3, <2>2, PrecedesOrder
  <2>4. ~StoresTo(f, bb, line + 1, k) BY <1>3 DEF StoresTo
  <2> QED BY <1>2, <1>3, <2>1, <2>3, <2>4, KnownAfter
<1>5. FormOK'
  <2>1. CodeOK /\ ir' = ReplaceAllUseWith(ir, instr, v) BY DEF IInv, ReplaceBy
  <2>2. ir'.code = ir.code BY <2>1, Replaced DEF CodeOK
  <2>3. v \in ValuesIn(f) \cup Constants \cup {Zero} BY DEF IsLike, ValuesIn
  <2>4. ASSUME NEW x \in InstrsIn(f) PROVE ir'.operands[x] \in Seq(ValuesIn(f) \cup Constants \cup {Zero})
    <3>1. PICK T : T = ValuesIn(f) \cup Constants \cup {Zero} OBVIOUS
    <3>2. ir.operands[x] \in Seq(T) /\ T \cup {v} = T BY <2>3, <3>1 DEF FormOK
    <3>3. x \in DOMAIN ir.operands /\ IsData(ir) BY <2>1 DEF CodeOK
    <3>4. ir'.operands[x] \in Seq(T \cup {v}) BY <2>1, <3>2, <3>3, Replaced
    <3> QED BY <3>1, <3>2, <3>4
  <2>5. InstrsIn(f)' = InstrsIn(f) /\ ValuesIn(f)' = ValuesIn(f) BY DEF InstrsIn, ValuesIn
  <2> QED BY <2>2, <2>4, <2>5 DEF FormOK
<1> QED BY <1>2, <1>4, <1>5 DEF PassOK

\* A constant made from constants.
LEMMA FoldMakes ==
  ASSUME NEW o, NEW v, NEW w, NEW c, FoldOf(o, v, w, c),
         v \in Constants \/ v[1] \notin {"const", "fconst"}, w \in Constants \/ w[1] \notin {"const", "fconst"}
  PROVE  c \in Constants
<1>1. /\ v[1] = "const" => v[2] \in IntRange
      /\ w[1] = "const" => w[2] \in IntRange
      /\ v[1] = "fconst" => v[2] \in (-MaxFloat)..MaxFloat
      /\ w[1] = "fconst" => w[2] \in (-MaxFloat)..MaxFloat
  BY DEF Constants, IntRange
<1>2. \A n : n \in IntRange => <<"const", n>> \in Constants BY DEF Constants, IntRange
<1>3. \A n : n \in (-MaxFloat)..MaxFloat => <<"fconst", n>> \in Constants BY DEF Constants
<1>4. IntRange \subseteq Int /\ MaxFloat \in Nat /\ (-MaxFloat)..MaxFloat \subseteq Int BY Halves DEF IntRange
<1>5. CASE o \in IntOps /\ v[1] = "const" /\ w[1] = "const" /\ c = <<"const", compute_i(o, v[2], w[2])>>
           /\ (o = "sdiv" => w[2] # 0 /\ ~(v[2] = MinInt /\ w[2] = -1))
  BY <1>1, <1>2, <1>5, ComputedInt
<1>6. CASE o \in FloatOps /\ v[1] = "fconst" /\ w[1] = "fconst" /\ c = <<"fconst", compute_f(o, v[2], w[2])>>
  <2>1. PICK a, b : a = v[2] /\ b = w[2] OBVIOUS
  <2>2. a \in Int /\ b \in Int BY <1>1, <1>4, <1>6, <2>1
  <2>3. \A m, n \in Int : n # 0 => Quotient(m, n) \in Int
    <3> SUFFICES ASSUME NEW m \in Int, NEW n \in Int, n # 0 PROVE Quotient(m, n) \in Int
      OBVIOUS
    <3>1. Abs(m) \in Int /\ Abs(n) \in Nat \ {0} BY DEF Abs
    <3>2. PICK x, y : x = Abs(m) /\ y = Abs(n) OBVIOUS
    <3>3. x \div y \in Int BY <3>1, <3>2
    <3> QED BY <3>2, <3>3 DEF Quotient
  <2>4. compute_f(o, a, b) \in (-MaxFloat)..MaxFloat
    <3>1. CASE o = "fadd"
      <4>1. compute_f(o, a, b) = Near(a + b) BY <3>1 DEF compute_f
      <4> QED BY <2>2, <4>1, NearIs
    <3>2. CASE o = "fsub"
      <4>1. compute_f(o, a, b) = Near(a - b) BY <3>2 DEF compute_f
      <4> QED BY <2>2, <4>1, NearIs
    <3>3. CASE o = "fmul"
      <4>1. compute_f(o, a, b) = Near(Quotient(a * b, 2)) BY <3>3 DEF compute_f
      <4>2. Quotient(a * b, 2) \in Int BY <2>2, <2>3
      <4> QED BY <4>1, <4>2, NearIs
    <3>4. CASE o = "fdiv"
      <4>1. compute_f(o, a, b) = Near(IF b = 0 THEN MaxFloat ELSE Quotient(2 * a, b)) BY <3>4 DEF compute_f
      <4>2. b # 0 => Quotient(2 * a, b) \in Int BY <2>2, <2>3
      <4>3. (IF b = 0 THEN MaxFloat ELSE Quotient(2 * a, b)) \in Int BY <1>4, <4>2
      <4> QED BY <4>1, <4>3, NearIs
    <3> QED BY <1>6, <3>1, <3>2, <3>3, <3>4 DEF FloatOps
  <2> QED BY <1>3, <1>6, <2>1, <2>4
<1>7. CASE o = "fptosi" /\ v[1] = "fconst" /\ c = <<"const", f_to_i(v[2])>>
  BY <1>1, <1>2, <1>7, ComputedPart
<1>8. CASE o = "sitofp" /\ v[1] = "const" /\ c = <<"fconst", i_to_f(v[2])>>
  <2>1. PICK a : a = v[2] OBVIOUS
  <2>2. 2 * a \in Int
    <3>1. a \in Int BY <1>1, <1>4, <1>8, <2>1
    <3> QED BY <3>1
  <2>3. i_to_f(a) \in (-MaxFloat)..MaxFloat BY <2>2, NearIs DEF i_to_f
  <2> QED BY <1>3, <1>8, <2>1, <2>3
<1>9. CASE o \in Compares /\ v[1] = "const" /\ w[1] = "const" /\ c = <<"const", compare(o, v[2], w[2])>>
  <2>1. v[2] \in Int /\ w[2] \in Int BY <1>1, <1>4, <1>9
  <2> QED BY <1>2, <1>9, <2>1, Compared
<1>10. CASE o \in FCompares /\ v[1] = "fconst" /\ w[1] = "fconst" /\ c = <<"const", compare(o, v[2], w[2])>>
  <2>1. v[2] \in Int /\ w[2] \in Int BY <1>1, <1>4, <1>10
  <2> QED BY <1>2, <1>10, <2>1, Compared
<1> QED BY <1>5, <1>6, <1>7, <1>8, <1>9, <1>10 DEF FoldOf

\* A value that looks like a constant is one.
LEMMA LikeConstant ==
  ASSUME f \in Functions, NEW v, IsLike(v), v[1] \in {"const", "fconst"}
  PROVE  v \in Constants
<1>1. v \notin InstrsIn(f) BY NotInstr
<1>2. v # Zero BY DEF Zero
<1> QED BY <1>1, <1>2 DEF IsLike

LEMMA OpsApart ==
  ASSUME NEW o
  PROVE  /\ o \in IntOps => o \notin FloatOps \cup Compares \cup FCompares \cup {"fptosi", "sitofp", "zext", "bittofp"}
         /\ o \in FloatOps => o \notin IntOps \cup Compares \cup FCompares \cup {"fptosi", "sitofp", "zext", "bittofp"}
         /\ o \in Compares => o \notin IntOps \cup FloatOps \cup FCompares \cup {"fptosi", "sitofp", "zext", "bittofp"}
         /\ o \in FCompares => o \notin IntOps \cup FloatOps \cup Compares \cup {"fptosi", "sitofp", "zext", "bittofp"}
         /\ o \in {"fptosi", "sitofp", "zext", "bittofp"} => o \notin IntOps \cup FloatOps \cup Compares \cup FCompares
BY DEF IntOps, FloatOps, Compares, FCompares

\* Once it is a float the bit stays what it is.
LEMMA BitsStayFolded ==
  ASSUME IInv, FoldsBit, NextPass
  PROVE  FoldsBit'
<1>1. PICK x \in delete_list : FromBit(x) /\ ir.operands[x][1][1] = "const" /\ ir.operands[x][1][2] # 0
  BY DEF FoldsBit
<1>2. f' = f /\ f \in Functions /\ CodeOK
  BY DEF NextPass, FoldInstr, FoldDivision, NoteStore, ReplaceLoad, Skip, EndBlock, IInv
<1>3. x \in InstrsIn(f) /\ 1 \in DOMAIN f.operands[x]
  <2>1. x \in InstrsIn(f) BY <1>2, Inside
  <2> QED BY <1>1, <1>2, <2>1, Kinds DEF FromBit
<1>4. FromBit(x)' BY <1>1, <1>2, SameStatic
<1>5. CASE ir' = ir /\ delete_list' = delete_list BY <1>1, <1>4, <1>5 DEF FoldsBit
<1>6. CASE EndBlock
  <2>1. ir' = DeleteInstrs(ir, bb, delete_list) /\ delete_list' = delete_list /\ pc = "instr" BY <1>6 DEF EndBlock
  <2>2. bb \in Block /\ DOMAIN ir.code = Block /\ IsData(ir) BY <1>2, <2>1, AtBlock DEF CodeOK
  <2>3. ir'.operands = ir.operands BY <1>2, <2>1, <2>2, Deletion
  <2> QED BY <1>1, <1>4, <2>1, <2>3 DEF FoldsBit
<1>7. ASSUME InBlock, NEW v, Replacement(v), ReplaceBy(v) PROVE FoldsBit'
  <2>1. instr \in InstrsIn(f) BY <1>2, <1>7, AtInstr DEF InBlock
  <2>2. instr[1] # "const" BY <1>2, <2>1, Kinds
  <2>3. ir'.operands[x][1] = ir.operands[x][1] BY <1>1, <1>3, <1>7, <2>2, OthersKept
  <2>4. x \in delete_list' BY <1>7 DEF ReplaceBy
  <2> QED BY <1>1, <1>4, <2>3, <2>4 DEF FoldsBit
<1>8. CASE FoldInstr
  <2>1. InBlock BY <1>8 DEF FoldInstr
  <2>2. PICK c \in Folded : ReplaceBy(c) BY <1>8 DEF FoldInstr
  <2>3. c \notin InstrsIn(f) /\ c \notin delete_list BY <1>2, <2>2, FoldedIsConstant, Kinds, Inside
  <2>4. Replacement(c) BY <2>3 DEF Replacement, Precedes, Earlier
  <2> QED BY <1>7, <2>1, <2>2, <2>4
<1>9. CASE ReplaceLoad
  <2>1. PICK v : v = map_[Key(ops[1])] OBVIOUS
  <2>2. InBlock /\ Replacement(v) /\ ReplaceBy(v) BY <1>9, <2>1 DEF IInv, MapOK, ReplaceLoad
  <2> QED BY <1>7, <2>2
<1> QED BY <1>5, <1>6, <1>8, <1>9 DEF NextPass, FoldDivision, NoteStore, Skip

LEMMA FoldPass ==
  ASSUME IInv, PassOK, FoldInstr
  PROVE  PassOK' \/ FoldsBit'
<1>1. PICK rho : SubstOK(rho) /\ MapSaysOK(rho) BY DEF PassOK
<1>2. /\ InBlock /\ ~(DividesConst /\ Overflows) /\ line' = line + 1 /\ UNCHANGED <<f, pc, at, map_>>
  BY DEF FoldInstr
<1>3. PICK c \in Folded : ReplaceBy(c) BY DEF FoldInstr
<1>4. /\ f \in Functions /\ bb \in Block /\ line + 1 \in DOMAIN f.code[bb] /\ instr = f.code[bb][line + 1]
      /\ instr \in InstrsIn(f) /\ op = f.opcode[instr] /\ CodeOK
      /\ \A i \in DOMAIN f.operands[instr] : ops[i] = Sub(rho, f.operands[instr][i])
      /\ op = "store" <=> instr[1] = "store"
  BY <1>1, <1>2, AtOps DEF IInv
<1>5. /\ op \in Binary => {1, 2} \subseteq DOMAIN f.operands[instr]
      /\ op \in {"fptosi", "sitofp"} => 1 \in DOMAIN f.operands[instr]
  BY <1>4, Kinds
<1>6. op \in Binary \cup {"fptosi", "sitofp"}
  BY <1>3 DEF Folded, Binary
<1>7. instr[1] = "op" /\ op # "store"
  <2>1. PICK x : x = instr OBVIOUS
  <2>2. op # "store" /\ op \notin {"load", "phi", "call", "br", "ret"}
    BY <1>6 DEF Binary, IntOps, FloatOps, Compares, FCompares
  <2>3. /\ x[1] \in {"op", "load", "store", "phi", "call", "br", "ret"}
        /\ x[1] # "op" => f.opcode[x] = x[1]
    BY <1>4, <2>1, InstrKinds
  <2> QED BY <1>4, <2>1, <2>2, <2>3
<1>8. FoldOf(op, ops[1], ops[2], c)
  <2>1. CASE op \in IntOps
    <3>1. Both("const") /\ c = <<"const", compute_i(op, val(1), val(2))>> BY <1>3, <2>1, OpsApart DEF Folded
    <3>2. op = "sdiv" => ~Overflows BY <1>2, <3>1 DEF DividesConst
    <3> QED BY <2>1, <3>1, <3>2 DEF FoldOf, Both, Is, val, Overflows
  <2>2. CASE op \in FloatOps
    <3>1. Both("fconst") /\ c = <<"fconst", compute_f(op, val(1), val(2))>>
      BY <1>3, <2>2, OpsApart DEF Folded
    <3> QED BY <2>2, <3>1 DEF FoldOf, Both, Is, val
  <2>3. CASE op = "fptosi"
    <3>1. Is(1, "fconst") /\ c = <<"const", f_to_i(val(1))>>
      BY <1>3, <2>3, OpsApart DEF Folded
    <3> QED BY <2>3, <3>1 DEF FoldOf, Is, val
  <2>4. CASE op = "sitofp"
    <3>1. Is(1, "const") /\ c = <<"fconst", i_to_f(val(1))>>
      BY <1>3, <2>4, OpsApart DEF Folded
    <3> QED BY <2>4, <3>1 DEF FoldOf, Is, val
  <2>5. CASE op \in Compares
    <3>1. Both("const") /\ c = <<"const", compare(op, val(1), val(2))>>
      BY <1>3, <2>5, OpsApart DEF Folded
    <3> QED BY <2>5, <3>1 DEF FoldOf, Both, Is, val
  <2>6. CASE op \in FCompares
    <3>1. Both("fconst") /\ c = <<"const", compare(op, val(1), val(2))>>
      BY <1>3, <2>6, OpsApart DEF Folded
    <3> QED BY <2>6, <3>1 DEF FoldOf, Both, Is, val
  <2> QED BY <1>6, <2>1, <2>2, <2>3, <2>4, <2>5, <2>6 DEF Binary
<1>9. PICK p1, p2 : p1 = f.operands[instr][1] /\ p2 = f.operands[instr][2] OBVIOUS
<1>10. FoldOf(op, Sub(rho, p1), Sub(rho, p2), c)
  <2>1. ops[1] = Sub(rho, p1) BY <1>4, <1>5, <1>6, <1>9
  <2>2. CASE op \in Binary
    <3>1. ops[2] = Sub(rho, p2) BY <1>4, <1>5, <1>9, <2>2
    <3> QED BY <1>8, <2>1, <3>1
  <2>3. CASE op \in {"fptosi", "sitofp"}
    BY <1>8, <2>1, <2>3 DEF FoldOf, IntOps, FloatOps, Compares, FCompares
  <2> QED BY <1>6, <2>2, <2>3
<1>12. \A i \in {1, 2} : i \in DOMAIN f.operands[instr] => IsLike(Sub(rho, f.operands[instr][i]))
  <2> SUFFICES ASSUME NEW i \in DOMAIN f.operands[instr] PROVE IsLike(Sub(rho, f.operands[instr][i]))
    OBVIOUS
  <2>1. IsLike(f.operands[instr][i]) BY <1>4, <1>7, InstrKinds, OperandIsValue DEF IsAddress
  <2> QED BY <1>1, <1>4, <2>1, SubLike
<1>13. c \in Constants
  <2>1. \A v : IsLike(v) => v \in Constants \/ v[1] \notin {"const", "fconst"} BY <1>4, LikeConstant
  <2>2. CASE op \in Binary
    <3>1. IsLike(Sub(rho, p1)) /\ IsLike(Sub(rho, p2)) BY <1>5, <1>9, <1>12, <2>2
    <3> QED BY <1>10, <2>1, <3>1, FoldMakes
  <2>3. CASE op \in {"fptosi", "sitofp"}
    <3>1. IsLike(Sub(rho, p1)) BY <1>5, <1>9, <1>12, <2>3
    <3>2. FoldOf(op, Sub(rho, p1), Zero, c)
      BY <1>10, <2>3 DEF FoldOf, IntOps, FloatOps, Compares, FCompares
    <3>3. Zero[1] \notin {"const", "fconst"} BY DEF Zero
    <3> QED BY <2>1, <3>1, <3>2, <3>3, FoldMakes
  <2> QED BY <1>6, <2>2, <2>3
<1>14. Replacement(c)
  <2>1. c \notin InstrsIn(f) /\ c \notin delete_list BY <1>4, <1>13, NotInstr, Inside
  <2> QED BY <2>1 DEF Replacement, Precedes, Earlier
<1>15. IsLike(c) BY <1>13 DEF IsLike
<1>16. CASE FromBit(instr) /\ ops[1][2] # 0
  <2>1. op = "sitofp" /\ ops[1][1] = "const"
    <3>1. op = "sitofp" BY <1>4, <1>16 DEF FromBit
    <3> QED BY <1>8, <3>1 DEF FoldOf, IntOps, FloatOps, Compares, FCompares
  <2>2. 1 \in DOMAIN f.operands[instr] /\ instr[1] # "const" BY <1>4, <1>5, <2>1, Kinds
  <2>3. ir.operands[instr][1] = ops[1] /\ ir.operands[instr][1] # instr BY <2>1, <2>2 DEF ops
  <2>4. ir'.operands[instr][1] = ops[1] BY <1>2, <1>3, <1>4, <1>14, <2>2, <2>3, OthersKept
  <2>5. instr \in delete_list' BY <1>3 DEF ReplaceBy
  <2>6. PICK y : y = instr OBVIOUS
  <2>7. FromBit(y)' BY <1>2, <1>16, <2>6, SameStatic
  <2>8. y \in delete_list' /\ ir'.operands[y][1][1] = "const" /\ ir'.operands[y][1][2] # 0
    BY <1>16, <2>1, <2>4, <2>5, <2>6
  <2> QED BY <2>7, <2>8 DEF FoldsBit
<1>17. CASE ~(FromBit(instr) /\ ops[1][2] # 0)
  <2>1. FromBit(instr) => ops[1] = Sub(rho, p1)
    <3> SUFFICES ASSUME FromBit(instr) PROVE ops[1] = Sub(rho, p1)
      OBVIOUS
    <3>1. op = "sitofp" BY <1>4 DEF FromBit
    <3> QED BY <1>4, <1>5, <1>9, <3>1
  <2>2. FromBit(instr) => Sub(rho, p1)[2] = 0 BY <1>17, <2>1
  <2>3. Replaces(rho, bb, line + 1, c) BY <1>4, <1>7, <1>9, <1>10, <2>2 DEF Replaces
  <2> QED BY <1>1, <1>2, <1>3, <1>7, <1>14, <1>15, <2>3, PassReplaces DEF PassOK
<1> QED BY <1>16, <1>17

LEMMA LoadPass ==
  ASSUME IInv, PassOK, ReplaceLoad
  PROVE  PassOK'
<1>1. PICK rho : SubstOK(rho) /\ MapSaysOK(rho) BY DEF PassOK
<1>2. PICK k : k = Key(ops[1]) OBVIOUS
<1>3. /\ InBlock /\ op = "load" /\ k \in DOMAIN map_ /\ ReplaceBy(map_[k])
      /\ line' = line + 1 /\ UNCHANGED <<f, pc, at, map_>>
  BY <1>2 DEF ReplaceLoad
<1>4. /\ f \in Functions /\ bb \in Block /\ line + 1 \in DOMAIN f.code[bb] /\ instr = f.code[bb][line + 1]
      /\ instr[1] = "load" /\ ops[1] = f.operands[instr][1] /\ pc = "instr"
  BY <1>1, <1>3, AtOps
<1>5. MapKnown(rho, k) BY <1>1, <1>3, <1>4 DEF MapSaysOK
<1>6. IsLike(map_[k]) BY <1>1, <1>4, <1>5, MapIsLike
<1>7. Replacement(map_[k]) BY <1>3 DEF IInv, MapOK
<1>8. k = Key(AddressAt(bb, line + 1)) BY <1>2, <1>4 DEF AddressAt
<1>9. Replaces(rho, bb, line + 1, map_[k]) BY <1>4, <1>5, <1>8 DEF MapKnown, Replaces
<1> QED BY <1>1, <1>3, <1>6, <1>7, <1>9, PassReplaces DEF PassOK

LEMMA StorePass ==
  ASSUME IInv, PassOK, NoteStore
  PROVE  PassOK'
<1>1. PICK rho : SubstOK(rho) /\ MapSaysOK(rho) BY DEF PassOK
<1>2. /\ InBlock /\ op = "store" /\ map_' = Remember(ops[2], ops[1]) /\ line' = line + 1
      /\ UNCHANGED <<f, ir, pc, at, delete_list>>
  BY DEF NoteStore
<1>3. /\ f \in Functions /\ bb \in Block /\ line \in Nat /\ line + 1 \in DOMAIN f.code[bb]
      /\ instr = f.code[bb][line + 1] /\ instr[1] = "store" /\ pc = "instr"
      /\ ops[2] = f.operands[instr][2] /\ ops[1] = Sub(rho, f.operands[instr][1])
  BY <1>1, <1>2, AtOps
<1>4. SubstOK(rho)' BY <1>1, <1>2, SubstStays DEF InstrsIn
<1>5. ASSUME NEW k \in DOMAIN map_' PROVE MapKnown(rho, k)'
  <2>1. CASE k = Key(ops[2])
    <3>1. map_'[k] = ops[1] BY <1>2, <2>1 DEF Remember
    <3>2. StoresTo(f, bb, line + 1, k) BY <1>3, <2>1 DEF StoresTo
    <3>3. /\ line' + 1 = line + 2 /\ line + 1 < line + 2
          /\ \A h \in (line + 1 + 1)..(line + 2 - 1) : ~StoresTo(f, bb, h, k)
      BY <1>2, <1>3
    <3>4. StoredLast(f, bb, line + 1, line + 2, k)
      <4>1. PICK m \in Nat, n \in Nat : m = line + 1 /\ n = line + 2 BY <1>3
      <4>2. StoresTo(f, bb, m, k) /\ m < n BY <1>3, <3>2, <4>1
      <4>3. \A h \in (m + 1)..(n - 1) : ~StoresTo(f, bb, h, k) BY <1>3, <4>1
      <4> QED BY <4>1, <4>2, <4>3 DEF StoredLast
    <3>5. map_'[k] = Sub(rho, StoredAt(bb, line + 1)) BY <1>3, <3>1 DEF StoredAt
    <3>6. bb' = bb BY <1>2 DEF bb
    <3> QED BY <1>2, <1>3, <3>3, <3>4, <3>5, <3>6, SameStatic DEF MapKnown, StoredAt
  <2>2. CASE k # Key(ops[2])
    <3>1. k \in DOMAIN map_ /\ map_'[k] = map_[k] BY <1>2, <2>2 DEF Remember
    <3>2. MapKnown(rho, k) BY <1>1, <1>3, <3>1 DEF MapSaysOK
    <3>3. ~StoresTo(f, bb, line + 1, k) BY <1>3, <2>2 DEF StoresTo
    <3> QED BY <1>2, <1>3, <3>1, <3>2, <3>3, KnownAfter
  <2> QED BY <2>1, <2>2
<1>6. MapSaysOK(rho)' BY <1>5 DEF MapSaysOK
<1>7. FormOK' BY <1>2 DEF PassOK, FormOK
<1> QED BY <1>4, <1>6, <1>7 DEF PassOK

LEMMA SkipPass ==
  ASSUME IInv, PassOK, Skip
  PROVE  PassOK'
<1>1. PICK rho : SubstOK(rho) /\ MapSaysOK(rho) BY DEF PassOK
<1>2. InBlock /\ op # "store" /\ line' = line + 1 /\ UNCHANGED <<f, ir, pc, at, map_, delete_list>>
  BY DEF Skip
<1>3. /\ f \in Functions /\ bb \in Block /\ line \in Nat /\ instr = f.code[bb][line + 1]
      /\ instr[1] # "store" /\ pc = "instr"
  BY <1>1, <1>2, AtOps
<1>4. SubstOK(rho)' BY <1>1, <1>2, SubstStays DEF InstrsIn
<1>5. ASSUME NEW k \in DOMAIN map_' PROVE MapKnown(rho, k)'
  <2>1. MapKnown(rho, k) BY <1>1, <1>2, <1>3, <1>5 DEF MapSaysOK
  <2>2. ~StoresTo(f, bb, line + 1, k) BY <1>3 DEF StoresTo
  <2> QED BY <1>2, <1>3, <2>1, <2>2, KnownAfter
<1>6. FormOK' BY <1>2 DEF PassOK, FormOK
<1> QED BY <1>4, <1>5, <1>6 DEF PassOK, MapSaysOK

LEMMA BlockPass ==
  ASSUME IInv, PassOK, EndBlock
  PROVE  PassOK'
<1>1. PICK rho : SubstOK(rho) /\ MapSaysOK(rho) BY DEF PassOK
<1>2. /\ pc = "instr" /\ ir' = DeleteInstrs(ir, bb, delete_list) /\ map_' = << >> /\ UNCHANGED <<f, delete_list>>
      /\ f \in Functions /\ CodeOK /\ IsData(ir)
  BY Zenon DEF EndBlock, IInv, CodeOK
<1>3. bb \in Block /\ DOMAIN ir.code = Block /\ ir.code[bb] = f.code[bb] BY <1>2, AtBlock DEF CodeOK
<1>4. /\ ir'.operands = ir.operands /\ ir'.code[bb] = Without(ir.code[bb], delete_list)
      /\ \A c \in Block : c # bb => ir'.code[c] = ir.code[c]
  BY <1>2, <1>3, Deletion
<1>5. Range(ir'.code[bb]) \subseteq Range(ir.code[bb])
  <2>1. f.code[bb] \in Seq(InstrsIn(f)) BY <1>2, <1>3, FunctionsAssumption DEF IsFunction
  <2> QED BY <1>3, <1>4, <2>1, WithoutKeeps
<1>6. InstrsIn(ir') \subseteq InstrsIn(ir)
  <2>1. \A c \in Block : Range(ir'.code[c]) \subseteq Range(ir.code[c]) BY <1>4, <1>5
  <2> QED BY <2>1 DEF InstrsIn
<1>7. SubstOK(rho)' BY <1>1, <1>2, <1>4, <1>6, SubstStays
<1>8. MapSaysOK(rho)' BY <1>2 DEF MapSaysOK
<1>9. FormOK'
  <2>0. f.code[bb] \in Seq(InstrsIn(f)) BY <1>2, <1>3, FunctionsAssumption DEF IsFunction
  <2>1. InstrsIn(f)' = InstrsIn(f) /\ ValuesIn(f)' = ValuesIn(f) BY <1>2 DEF InstrsIn, ValuesIn
  <2>2. /\ ir'.code[bb] \in Seq(InstrsIn(f))
        /\ \A m, n \in DOMAIN ir'.code[bb] : m < n =>
             \E i, k \in DOMAIN f.code[bb] :
               i < k /\ ir'.code[bb][m] = f.code[bb][i] /\ ir'.code[bb][n] = f.code[bb][k]
    BY <1>3, <1>4, <2>0, WithoutKeeps
  <2>3. ASSUME NEW c \in Block
        PROVE  /\ ir'.code[c] \in Seq(InstrsIn(f))
               /\ \A m, n \in DOMAIN ir'.code[c] : m < n =>
                    \E i, k \in DOMAIN f.code[c] :
                      i < k /\ ir'.code[c][m] = f.code[c][i] /\ ir'.code[c][n] = f.code[c][k]
    <3>1. CASE c = bb BY <2>2, <3>1
    <3>2. CASE c # bb
      <4>1. ir'.code[c] = ir.code[c] BY <1>4, <3>2
      <4> QED BY <4>1 DEF PassOK, FormOK
    <3> QED BY <3>1, <3>2
  <2> QED BY <1>2, <1>4, <2>1, <2>3 DEF PassOK, FormOK
<1> QED BY <1>7, <1>8, <1>9 DEF PassOK

LEMMA InitPassed == InitPass => PassOK
<1> SUFFICES ASSUME InitPass PROVE PassOK
  OBVIOUS
<1>1. /\ f \in Functions /\ at = 1 /\ line = 0 /\ delete_list = {}
      /\ ir.code = f.code /\ ir.operands = f.operands
      /\ map_ = [g \in IF f.first THEN GlobalsOf(f) ELSE {} |-> Zero]
  BY DEF InitPass
<1>2. PICK rho : rho = [x \in InstrsIn(f) |-> x] OBVIOUS
<1>3. \A v : Sub(rho, v) = v BY <1>2 DEF Sub
<1>4. SubstOK(rho) BY <1>1, <1>2, <1>3 DEF SubstOK
<1>5. MapSaysOK(rho)
  <2> SUFFICES ASSUME NEW k \in DOMAIN map_ PROVE MapKnown(rho, k)
    BY DEF MapSaysOK
  <2>1. f.first /\ k[1] = "global" /\ map_[k] = Zero BY <1>1 DEF GlobalsOf
  <2>2. bb = Entry(f) BY <1>1 DEF bb, Entry
  <2>3. line + 1 = 1 BY <1>1
  <2>4. \A i \in 1..(1 - 1) : FALSE OBVIOUS
  <2>5. Fresh(bb, 1, k) BY <2>1, <2>2, <2>4 DEF Fresh
  <2> QED BY <2>1, <2>3, <2>5 DEF MapKnown
<1>6. FormOK
  <2>1. \A x \in InstrsIn(f) : f.operands[x] \in Seq(ValuesIn(f)) BY <1>1, OperandIsValue
  <2>2. ASSUME NEW x \in InstrsIn(f) PROVE f.operands[x] \in Seq(ValuesIn(f) \cup Constants \cup {Zero})
    BY <2>1
  <2>3. \A b \in Block : f.code[b] \in Seq(InstrsIn(f)) BY <1>1, FunctionsAssumption DEF IsFunction
  <2> QED BY <1>1, <2>2, <2>3 DEF FormOK
<1> QED BY <1>4, <1>5, <1>6 DEF PassOK

LEMMA BitsStay == IInv /\ FoldsBit /\ [Next]_vars => FoldsBit'
<1> SUFFICES ASSUME IInv, FoldsBit, [Next]_vars PROVE FoldsBit'
  OBVIOUS
<1>1. CASE NextPass BY <1>1, BitsStayFolded
<1>2. CASE UNCHANGED pass
  <2>1. UNCHANGED <<f, ir, delete_list>> BY <1>2 DEF pass
  <2> QED BY <2>1, SameStatic DEF FoldsBit
<1> QED BY <1>1, <1>2 DEF Next, Propagate, Alone0, Alone1, Together, vars

LEMMA NextPassed == IInv /\ PassOK /\ [Next]_vars => PassOK' \/ FoldsBit'
<1> SUFFICES ASSUME IInv, PassOK, [Next]_vars PROVE PassOK' \/ FoldsBit'
  OBVIOUS
<1>1. CASE NextPass
  <2>1. CASE FoldDivision BY <2>1, PassStays DEF FoldDivision
  <2> QED BY <1>1, <2>1, FoldPass, LoadPass, StorePass, SkipPass, BlockPass DEF NextPass
<1>2. CASE UNCHANGED pass BY <1>2, PassStays DEF pass
<1> QED BY <1>1, <1>2 DEF Next, Propagate, Alone0, Alone1, Together, vars

-----------------------------------------------------------------------------
(***************************************************************************)
(* The two executions.  The old one runs ahead to the next call, branch or *)
(* return; what it has executed of a block and the new one has not is      *)
(* pending: instructions that are left, from line1 on.                     *)
(***************************************************************************)
V0(v) == Before!Value(v)
V1(v) == After!Value(v)

\* What has a place in the environments.
Slots(g) == {v \in ValuesIn(g) : Named(v)} \cup {<<"fconst", n>> : n \in (-MaxFloat)..MaxFloat} \cup {Zero}

\* What is now instruction m of b was instruction i.
Same(b, m, i) == m \in DOMAIN ir.code[b] /\ i \in DOMAIN f.code[b] /\ ir.code[b][m] = f.code[b][i]

Pending(i) == i < line0 /\ \E m \in DOMAIN ir.code[bb0] : line1 <= m /\ Same(bb0, m, i)
Lags(x)    == \E i \in DOMAIN f.code[bb0] : Pending(i) /\ f.code[bb0][i] = x

\* n is in the cell a before instruction i, once the pending stores before it are done.
StorePending(h, a) ==
  Pending(h) /\ f.code[bb0][h][1] = "store" /\ f.operands[f.code[bb0][h]][2] = a
Sees(n, a, i) ==
  \/ n = mem1[a] /\ \A h \in 1..(i - 1) : ~StorePending(h, a)
  \/ \E h \in 1..(i - 1) : /\ StorePending(h, a) /\ n = V0(StoredAt(bb0, h))
                           /\ \A k \in (h + 1)..(i - 1) : ~StorePending(k, a)

EnvOK ==
  /\ bb0 \in Blocks(f) /\ line0 \in Nat \ {0} /\ line1 \in Nat \ {0}
  /\ DOMAIN env0 = Slots(f) /\ DOMAIN env1 = Slots(f)
  /\ DOMAIN mem0 = Cells(f) /\ DOMAIN mem1 = Cells(f)
  /\ env0[Zero] = 0
  /\ \A n \in (-MaxFloat)..MaxFloat : env0[<<"fconst", n>>] = n

LagOK ==
  /\ \A i \in DOMAIN f.code[bb0] : Pending(i) => f.code[bb0][i][1] \in {"op", "load", "store"}
  /\ \A i \in DOMAIN f.code[bb0] : \A m \in DOMAIN ir.code[bb0] :
       line0 <= i /\ Same(bb0, m, i) => line1 <= m

\* What was deleted is what took its place, where it can be read.
ValueOK(rho) == \A y \in delete_list : Precedes(y, bb0, line0) => V0(y) = V0(rho[y])

AgreeOK == \A y \in Slots(f) \ delete_list : (Lags(y) => y[1] = "store") => env1[y] = env0[y]

MemoryOK ==
  /\ \A a \in Cells(f) : Sees(mem0[a], a, line0)
  /\ \A i \in DOMAIN f.code[bb0] : Pending(i) /\ f.code[bb0][i][1] = "load" =>
       Sees(env0[f.code[bb0][i]], AddressAt(bb0, i), i)

Operation(x) == Result(OpOf(x), [k \in 1..Len(f.operands[x]) |-> V0(f.operands[x][k])])
ComputedOK ==
  \A i \in DOMAIN f.code[bb0] : Pending(i) /\ f.code[bb0][i][1] = "op" =>
    env0[f.code[bb0][i]] = Operation(f.code[bb0][i])

\* What the map said of a load to come is true.
KeptOK ==
  \A j \in DOMAIN f.code[bb0] : line0 <= j /\ f.code[bb0][j][1] = "load" =>
    LET a == AddressAt(bb0, j)
    IN  /\ \A i \in DOMAIN f.code[bb0] : i < line0 /\ StoredLast(f, bb0, i, j, Key(a)) => mem0[a] = V0(StoredAt(bb0, i))
        /\ Fresh(bb0, j, Key(a)) => mem0[a] = 0

Running(rho) == EnvOK /\ LagOK /\ ValueOK(rho) /\ AgreeOK /\ MemoryOK /\ ComputedOK /\ KeptOK

NotBegun ==
  /\ bb0 = Entry(f) /\ line0 = 1 /\ line1 = 1 /\ env1 = env0 /\ mem1 = mem0
  /\ DOMAIN env0 = Slots(f) /\ DOMAIN mem0 = Cells(f)
  /\ env0[Zero] = 0
  /\ \A n \in (-MaxFloat)..MaxFloat : env0[<<"fconst", n>>] = n
  /\ f.main => \A a \in Cells(f) : mem0[a] = 0

\* The memories are functions of the cells.
MemoriesOK == mem0 = [a \in Cells(f) |-> mem0[a]] /\ mem1 = [a \in Cells(f) |-> mem1[a]]

RunOK == MemoriesOK /\ IF pc = "done" THEN \E rho : SubstOK(rho) /\ Running(rho) ELSE NotBegun

\* The two codes of a block.
LEMMA Aligned ==
  ASSUME IInv, FormOK, pc = "done", NEW b \in Block
  PROVE  /\ Len(ir.code[b]) \in Nat /\ DOMAIN ir.code[b] = 1..Len(ir.code[b])
         /\ \A m \in DOMAIN ir.code[b] : \E i \in DOMAIN f.code[b] : Same(b, m, i)
         /\ \A i \in DOMAIN f.code[b] : f.code[b][i] \notin delete_list => \E m \in DOMAIN ir.code[b] : Same(b, m, i)
         /\ \A m, i : Same(b, m, i) => f.code[b][i] \notin delete_list /\ f.code[b][i] \in InstrsIn(ir)
         /\ \A m, n, i, k : Same(b, m, i) /\ Same(b, n, k) => (m < n <=> i < k) /\ (m = n <=> i = k)
<1>1. f \in Functions /\ CodeOK /\ Left(b) BY DEF IInv, Left
<1>2. Range(ir.code[b]) = Range(f.code[b]) \ delete_list BY <1>1 DEF CodeOK
<1>3. Len(ir.code[b]) \in Nat /\ DOMAIN ir.code[b] = 1..Len(ir.code[b])
  <2>1. ir.code[b] \in Seq(InstrsIn(f)) BY DEF FormOK
  <2> QED BY <2>1
<1>4. DOMAIN f.code[b] = 1..Len(f.code[b]) /\ Len(f.code[b]) \in Nat BY <1>1, Lists
<1>5. \A m \in DOMAIN ir.code[b] : \E i \in DOMAIN f.code[b] : Same(b, m, i)
  BY <1>2 DEF Range, Same
<1>6. \A i \in DOMAIN f.code[b] : f.code[b][i] \notin delete_list => \E m \in DOMAIN ir.code[b] : Same(b, m, i)
  BY <1>2 DEF Range, Same
<1>7. \A m, i : Same(b, m, i) => f.code[b][i] \notin delete_list /\ f.code[b][i] \in InstrsIn(ir)
  BY <1>2 DEF Range, Same, InstrsIn
<1>8. \A m, n, i, k : Same(b, m, i) /\ Same(b, n, k) /\ m < n => i < k
  <2> SUFFICES ASSUME NEW m, NEW n, NEW i, NEW k, Same(b, m, i), Same(b, n, k), m < n PROVE i < k
    OBVIOUS
  <2>1. PICK i1, k1 \in DOMAIN f.code[b] : i1 < k1 /\ ir.code[b][m] = f.code[b][i1] /\ ir.code[b][n] = f.code[b][k1]
    BY DEF FormOK, Same
  <2>2. /\ i \in DOMAIN f.code[b] /\ f.code[b][i1] = f.code[b][i]
        /\ k \in DOMAIN f.code[b] /\ f.code[b][k1] = f.code[b][k]
    BY <2>1 DEF Same
  <2>3. \A p, q \in DOMAIN f.code[b] : f.code[b][p] = f.code[b][q] => p = q BY <1>1, Places
  <2>4. i1 = i /\ k1 = k BY <2>1, <2>2, <2>3
  <2> QED BY <2>1, <2>4
<1>9. \A m, n, i, k : Same(b, m, i) /\ Same(b, n, k) => (m < n <=> i < k) /\ (m = n <=> i = k)
  <2> SUFFICES ASSUME NEW m, NEW n, NEW i, NEW k, Same(b, m, i), Same(b, n, k)
               PROVE  (m < n <=> i < k) /\ (m = n <=> i = k)
    OBVIOUS
  <2>1. m \in Nat /\ n \in Nat /\ i \in Nat /\ k \in Nat BY <1>3, <1>4 DEF Same
  <2>2. (m < n => i < k) /\ (n < m => k < i) BY <1>8
  <2>3. m = n => i = k BY <1>1, Places DEF Same
  <2> QED BY <2>1, <2>2, <2>3
<1> QED BY <1>3, <1>5, <1>6, <1>7, <1>9

\* Only computations and loads are deleted.
LEMMA DeletedKinds ==
  ASSUME IInv, NEW rho, SubstOK(rho), NEW y \in delete_list
  PROVE  /\ y \in InstrsIn(f) /\ y[1] \in {"op", "load"}
         /\ \E b \in Block : \E j \in DOMAIN f.code[b] : f.code[b][j] = y
<1>1. PICK b \in Block : \E j \in DOMAIN f.code[b] : f.code[b][j] = y BY DEF IInv, CodeOK
<1>2. PICK j \in DOMAIN f.code[b] : f.code[b][j] = y BY <1>1
<1>3. Replaces(rho, b, j, rho[y]) BY <1>2 DEF SubstOK
<1> QED BY <1>2, <1>3, Lists DEF Replaces, IInv

LEMMA InSlots ==
  ASSUME f \in Functions, NEW v
  PROVE  /\ IsLike(v) => v[1] = "const" \/ v \in Slots(f)
         /\ v \in InstrsIn(f) => v \in Slots(f) /\ v[1] \notin {"const", "fconst"} /\ v # Zero
<1>1. v \in InstrsIn(f) => v \in Slots(f) /\ v[1] \notin {"const", "fconst"} /\ v # Zero
  <2> SUFFICES ASSUME v \in InstrsIn(f) PROVE v \in Slots(f) /\ v[1] \notin {"const", "fconst"} /\ v # Zero
    OBVIOUS
  <2>1. v[1] \in {"op", "load", "store", "phi", "call", "br", "ret"} BY InstrKinds
  <2> QED BY <2>1, OperandIsValue, Kinds DEF Slots, Named
<1>2. v \in Constants => v[1] = "const" \/ v \in Slots(f)
  <2>1. CASE v \in {<<"const", n>> : n \in MinInt..(-MinInt - 1)} BY <2>1
  <2>2. CASE v \in {<<"fconst", n>> : n \in (-MaxFloat)..MaxFloat} BY <2>2 DEF Slots
  <2> QED BY <2>1, <2>2 DEF Constants
<1>3. v[1] = "arg" /\ v \in ValuesIn(f) => v \in Slots(f) BY DEF Slots, Named
<1>4. v = Zero => v \in Slots(f) BY DEF Slots
<1> QED BY <1>1, <1>2, <1>3, <1>4 DEF IsLike

\* What an instruction reads is computed before it.
LEMMA OperandPrecedes ==
  ASSUME f \in Functions, NEW b \in Block, NEW j \in DOMAIN f.code[b], f.code[b][j][1] # "phi"
  PROVE  \A i \in DOMAIN f.operands[f.code[b][j]] : Precedes(f.operands[f.code[b][j]][i], b, j)
<1>1. PICK x : x = f.code[b][j] OBVIOUS
<1>2. x \in InstrsIn(f) BY <1>1, Lists
<1>3. f.opcode[x] # "phi" BY <1>1, <1>2, InstrKinds
<1>4. \A v \in Range(f.operands[x]) \cap InstrsIn(f) : Available(f, v, b, j)
  <2>1. IsFunction(f) BY FunctionsAssumption
  <2>2. \A c \in Block : \A i \in DOMAIN f.code[c] :
          f.opcode[f.code[c][i]] # "phi" =>
            \A v \in Range(f.operands[f.code[c][i]]) \cap InstrsIn(f) : Available(f, v, c, i)
    BY <2>1, Zenon DEF IsFunction
  <2> QED BY <1>1, <1>3, <2>2
<1> QED BY <1>1, <1>4 DEF Precedes, Range

\* What precedes an instruction of the block is not there later, and precedes what comes later.
LEMMA BeforeHere ==
  ASSUME f \in Functions, NEW b \in Blocks(f), NEW v, NEW i \in Nat, Precedes(v, b, i)
  PROVE  /\ \A h \in DOMAIN f.code[b] : i <= h => v # f.code[b][h]
         /\ \A k \in Nat : i <= k => Precedes(v, b, k)
<1>1. b \in Block BY Graph
<1>2. \A k \in Nat : i <= k => Precedes(v, b, k)
  <2> SUFFICES ASSUME NEW k \in Nat, i <= k PROVE Precedes(v, b, k)
    OBVIOUS
  <2>1. 1..(i - 1) \subseteq 1..(k - 1) OBVIOUS
  <2> QED BY <2>1 DEF Precedes, Available
<1>3. ASSUME NEW h \in DOMAIN f.code[b], i <= h PROVE v # f.code[b][h]
  <2>1. h \in Nat BY <1>1, Lists
  <2>2. Precedes(v, b, h) BY <1>2, <1>3, <2>1
  <2> QED BY <1>1, <2>2, PrecedesOrder
<1> QED BY <1>2, <1>3

\* What took the place of a value precedes what the value precedes.
LEMMA SubPrecedes ==
  ASSUME IInv, NEW rho, SubstOK(rho), NEW v, NEW b \in Block, NEW j \in DOMAIN f.code[b], Precedes(v, b, j)
  PROVE  Precedes(Sub(rho, v), b, j) /\ Sub(rho, v) \notin delete_list
<1>0. f \in Functions /\ delete_list \subseteq InstrsIn(f) BY Inside DEF IInv
<1>1. CASE v \in delete_list
  <2>1. v \in InstrsIn(f) /\ Sub(rho, v) = rho[v] BY <1>0, <1>1 DEF Sub
  <2>2. PICK d \in Block : \E h \in DOMAIN f.code[d] : f.code[d][h] = v BY <1>1, DeletedKinds
  <2>3. PICK h \in DOMAIN f.code[d] : f.code[d][h] = v BY <2>2
  <2>4. Precedes(rho[v], d, h) BY <1>1, <2>3 DEF SubstOK
  <2>5. Precedes(rho[v], b, j) BY <1>0, <2>3, <2>4, PrecedesOrder
  <2> QED BY <1>1, <2>1, <2>5 DEF SubstOK
<1>2. CASE v \notin delete_list
  <2>1. Sub(rho, v) = v BY <1>2 DEF Sub, SubstOK
  <2> QED BY <1>2, <2>1
<1> QED BY <1>1, <1>2

LEMMA ValueOfSub ==
  ASSUME IInv, NEW rho, SubstOK(rho), ValueOK(rho), NEW v, Precedes(v, bb0, line0)
  PROVE  V0(Sub(rho, v)) = V0(v)
<1>1. CASE v \in delete_list
  <2>1. v \in InstrsIn(f) BY <1>1, Inside DEF IInv
  <2>2. Sub(rho, v) = rho[v] BY <2>1 DEF Sub
  <2> QED BY <1>1, <2>2 DEF ValueOK
<1>2. CASE v \notin delete_list
  <2>1. Sub(rho, v) = v BY <1>2 DEF Sub, SubstOK
  <2> QED BY <2>1
<1> QED BY <1>1, <1>2

\* What instruction i reads is the same for both, if nothing before it is pending.
LEMMA NewReads ==
  ASSUME IInv, NEW rho, SubstOK(rho), Running(rho),
         NEW i \in DOMAIN f.code[bb0], i <= line0, \A h \in DOMAIN f.code[bb0] : Pending(h) => i <= h,
         NEW v, IsLike(v), Precedes(v, bb0, i)
  PROVE  V1(Sub(rho, v)) = V0(v)
<1>1. f \in Functions /\ bb0 \in Blocks(f) /\ bb0 \in Block /\ line0 \in Nat /\ i \in Nat
  <2>1. f \in Functions /\ bb0 \in Blocks(f) /\ line0 \in Nat BY DEF IInv, Running, EnvOK
  <2> QED BY <2>1, Graph, Lists
<1>2. PICK w : w = Sub(rho, v) OBVIOUS
<1>3. IsLike(w) /\ w \notin delete_list /\ Precedes(w, bb0, i) BY <1>1, <1>2, SubLike, SubPrecedes
<1>4. V0(w) = V0(v)
  <2>1. Precedes(v, bb0, line0) BY <1>1, BeforeHere
  <2> QED BY <1>2, <2>1, ValueOfSub DEF Running
<1>5. CASE w[1] = "const"
  BY <1>2, <1>4, <1>5 DEF V0, V1, Before!Value, After!Value, Before!Kind, After!Kind
<1>6. CASE w[1] # "const"
  <2>1. w \in Slots(f) BY <1>1, <1>3, <1>6, InSlots
  <2>2. ~Lags(w)
    <3> SUFFICES ASSUME NEW h \in DOMAIN f.code[bb0], Pending(h), f.code[bb0][h] = w PROVE FALSE
      BY DEF Lags
    <3>1. i <= h OBVIOUS
    <3> QED BY <1>1, <1>3, <3>1, BeforeHere
  <2>3. env1[w] = env0[w] BY <1>3, <2>1, <2>2 DEF Running, AgreeOK
  <2>4. V0(w) = env0[w] /\ V1(w) = env1[w]
    BY <1>6 DEF V0, V1, Before!Value, After!Value, Before!Kind, After!Kind
  <2> QED BY <1>2, <1>4, <2>3, <2>4
<1> QED BY <1>5, <1>6

LEMMA FixedRun ==
  ASSUME UNCHANGED pass
  PROVE  /\ Slots(f)' = Slots(f) /\ Cells(f)' = Cells(f)
         /\ \A b, m, i : Same(b, m, i)' <=> Same(b, m, i)
         /\ \A rho : SubstOK(rho) => SubstOK(rho)'
         /\ \A b, j : AddressAt(b, j)' = AddressAt(b, j) /\ StoredAt(b, j)' = StoredAt(b, j)
<1>1. f' = f /\ ir' = ir /\ delete_list' = delete_list BY DEF pass
<1>2. \A rho : SubstOK(rho) => SubstOK(rho)' BY <1>1, SubstStays DEF InstrsIn
<1>3. \A b, m, i : Same(b, m, i)' <=> Same(b, m, i) BY <1>1 DEF Same
<1>4. Slots(f)' = Slots(f) /\ Cells(f)' = Cells(f) BY <1>1 DEF Slots, Cells, ValuesIn, InstrsIn
<1> QED BY <1>1, <1>2, <1>3, <1>4 DEF AddressAt, StoredAt

\* The old execution moves on: what it has executed is pending if it is left.
LEMMA OldPending ==
  ASSUME IInv, FormOK, pc = "done", EnvOK, LagOK, UNCHANGED <<pass, bb0, line1>>,
         line0 \in DOMAIN f.code[bb0], line0' = line0 + 1
  PROVE  /\ \A i \in DOMAIN f.code[bb0] :
              Pending(i)' <=> Pending(i) \/ (i = line0 /\ f.code[bb0][line0] \notin delete_list)
         /\ \A y : Lags(y)' <=> Lags(y) \/ (y = f.code[bb0][line0] /\ y \notin delete_list)
<1>1. f \in Functions /\ bb0 \in Block /\ line0 \in Nat /\ line0 + 1 > line0
  BY Graph DEF IInv, EnvOK
<1>2. f' = f /\ ir' = ir /\ bb0' = bb0 /\ line1' = line1 BY DEF pass
<1>3. ASSUME NEW i \in DOMAIN f.code[bb0]
      PROVE  Pending(i)' <=> Pending(i) \/ (i = line0 /\ f.code[bb0][line0] \notin delete_list)
  <2>1. i \in Nat BY <1>1, Lists
  <2>2. (i < line0')  <=> i < line0 \/ i = line0 BY <1>1, <2>1
  <2>3. Pending(i)' <=> (i < line0 \/ i = line0) /\ \E m \in DOMAIN ir.code[bb0] : line1 <= m /\ Same(bb0, m, i)
    BY <1>2, <2>2, FixedRun DEF Pending
  <2>4. CASE i # line0 BY <2>3, <2>4 DEF Pending
  <2>5. CASE i = line0
    <3>1. ~(i < line0) BY <1>1, <2>5
    <3>2. f.code[bb0][i] \notin delete_list => \E m \in DOMAIN ir.code[bb0] : line1 <= m /\ Same(bb0, m, i)
      <4>1. f.code[bb0][i] \notin delete_list => \E m \in DOMAIN ir.code[bb0] : Same(bb0, m, i)
        BY <1>1, Aligned
      <4>2. line0 <= i BY <1>1, <2>5
      <4> QED BY <4>1, <4>2 DEF LagOK
    <3>3. \A m : Same(bb0, m, i) => f.code[bb0][i] \notin delete_list BY <1>1, Aligned
    <3> QED BY <2>3, <2>5, <3>1, <3>2, <3>3 DEF Pending
  <2> QED BY <2>4, <2>5
<1>4. ASSUME NEW y PROVE Lags(y)' <=> Lags(y) \/ (y = f.code[bb0][line0] /\ y \notin delete_list)
  <2>1. Lags(y)' <=> \E i \in DOMAIN f.code[bb0] : Pending(i)' /\ f.code[bb0][i] = y BY <1>2 DEF Lags
  <2> QED BY <1>3, <2>1 DEF Lags
<1> QED BY <1>3, <1>4

\* The constant that took the place of a computation is its result.
LEMMA FoldResult ==
  ASSUME EnvOK, NEW o, NEW v, NEW w, NEW c, FoldOf(o, v, w, c),
         v \in Constants \/ v[1] \notin {"const", "fconst"}, w \in Constants \/ w[1] \notin {"const", "fconst"},
         NEW args, args[1] = V0(v), o \in Binary => args[2] = V0(w),
         DOMAIN args = IF o \in Binary THEN 1..2 ELSE 1..1
  PROVE  Result(o, args) = V0(c)
<1>1. /\ v[1] = "const" => v[2] \in IntRange
      /\ w[1] = "const" => w[2] \in IntRange
      /\ v[1] = "fconst" => v[2] \in (-MaxFloat)..MaxFloat /\ v = <<"fconst", v[2]>>
      /\ w[1] = "fconst" => w[2] \in (-MaxFloat)..MaxFloat /\ w = <<"fconst", w[2]>>
  BY DEF Constants, IntRange
<1>2. IntRange \subseteq Int /\ MaxFloat \in Nat /\ (-MaxFloat)..MaxFloat \subseteq Int BY Halves DEF IntRange
<1>3. /\ v[1] = "const" => V0(v) = v[2]
      /\ w[1] = "const" => V0(w) = w[2]
      /\ c[1] = "const" => V0(c) = c[2]
  BY DEF V0, Before!Value, Before!Kind
<1>4. \A n \in (-MaxFloat)..MaxFloat : V0(<<"fconst", n>>) = n
  BY DEF V0, Before!Value, Before!Kind, EnvOK
<1>5. /\ v[1] = "fconst" => V0(v) = v[2]
      /\ w[1] = "fconst" => V0(w) = w[2]
  BY <1>1, <1>4
<1>6. c \in Constants BY FoldMakes
<1>7. c[1] = "fconst" => V0(c) = c[2]
  <2>1. c[1] = "fconst" => c[2] \in (-MaxFloat)..MaxFloat /\ c = <<"fconst", c[2]>> BY <1>6 DEF Constants
  <2> QED BY <1>4, <2>1
<1>8. args[1] \in Int /\ (o \in Binary => args[2] \in Int)
  <2>1. v[1] \in {"const", "fconst"} /\ (o \in Binary => w[1] \in {"const", "fconst"})
    BY OpsApart DEF FoldOf, Binary
  <2>2. V0(v) \in Int /\ (o \in Binary => V0(w) \in Int) BY <1>1, <1>2, <1>3, <1>5, <2>1
  <2> QED BY <2>2
<1>9. Undef \notin Range(args)
  <2>1. \A i \in DOMAIN args : args[i] \in Int
    <3>1. CASE o \in Binary BY <1>8, <3>1
    <3>2. CASE o \notin Binary BY <1>8, <3>2
    <3> QED BY <3>1, <3>2
  <2> QED BY <2>1, UndefAssumption DEF Range
<1>10. CASE o \in IntOps
  <2>1. /\ v[1] = "const" /\ w[1] = "const" /\ c = <<"const", compute_i(o, v[2], w[2])>>
        /\ o = "sdiv" => w[2] # 0 /\ ~(v[2] = MinInt /\ w[2] = -1)
    BY <1>10, OpsApart DEF FoldOf
  <2>2. Result(o, args) = IntResult(o, args[1], args[2]) BY <1>9, <1>10, OpsApart DEF Result
  <2>3. args[1] = v[2] /\ args[2] = w[2] BY <1>3, <1>10, <2>1 DEF Binary
  <2>4. compute_i(o, v[2], w[2]) = IntResult(o, v[2], w[2]) BY <1>1, <1>10, <2>1, ComputedInt
  <2> QED BY <1>3, <2>1, <2>2, <2>3, <2>4
<1>11. CASE o \in FloatOps
  <2>1. v[1] = "fconst" /\ w[1] = "fconst" /\ c = <<"fconst", compute_f(o, v[2], w[2])>>
    BY <1>11, OpsApart DEF FoldOf
  <2>2. Result(o, args) = compute_f(o, args[1], args[2]) BY <1>9, <1>11, OpsApart DEF Result
  <2>3. args[1] = v[2] /\ args[2] = w[2] BY <1>5, <1>11, <2>1 DEF Binary
  <2> QED BY <1>7, <2>1, <2>2, <2>3
<1>12. CASE o = "fptosi"
  <2>1. v[1] = "fconst" /\ c = <<"const", f_to_i(v[2])>> BY <1>12, OpsApart DEF FoldOf
  <2>2. Result(o, args) = CHOOSE n \in IntRange : IntPart(n, args[1])
    BY <1>9, <1>12, OpsApart DEF Result, IntRange
  <2>3. args[1] = v[2] BY <1>5, <2>1
  <2>4. f_to_i(v[2]) = CHOOSE n \in IntRange : IntPart(n, v[2]) BY <1>1, <2>1, ComputedPart
  <2> QED BY <1>3, <2>1, <2>2, <2>3, <2>4
<1>13. CASE o = "sitofp"
  <2>1. v[1] = "const" /\ c = <<"fconst", i_to_f(v[2])>> BY <1>13, OpsApart DEF FoldOf
  <2>2. Result(o, args) = Near(2 * args[1]) BY <1>9, <1>13, OpsApart DEF Result
  <2>3. args[1] = v[2] BY <1>3, <2>1
  <2> QED BY <1>7, <2>1, <2>2, <2>3 DEF i_to_f
<1>14. CASE o \in Compares \cup FCompares
  <2>1. /\ (v[1] = "const" /\ w[1] = "const") \/ (v[1] = "fconst" /\ w[1] = "fconst")
        /\ c = <<"const", compare(o, v[2], w[2])>>
    BY <1>14, OpsApart DEF FoldOf
  <2>2. Result(o, args) = IF Holds(o, args[1], args[2]) THEN 1 ELSE 0 BY <1>9, <1>14, OpsApart DEF Result
  <2>3. args[1] = v[2] /\ args[2] = w[2] BY <1>3, <1>5, <1>14, <2>1 DEF Binary
  <2>4. compare(o, v[2], w[2]) = IF Holds(o, v[2], w[2]) THEN 1 ELSE 0 BY <1>8, <1>14, <2>3, Compared DEF Binary
  <2> QED BY <1>3, <2>1, <2>2, <2>3, <2>4
<1> QED BY <1>10, <1>11, <1>12, <1>13, <1>14 DEF FoldOf

\* What the old execution does to its values, when it executes x alone.
LEMMA OldValues ==
  ASSUME f \in Functions, EnvOK, UNCHANGED <<pass, bb0>>, NEW x \in InstrsIn(f),
         DOMAIN env0' = DOMAIN env0, \A v \in Slots(f) \ {x} : env0'[v] = env0[v]
  PROVE  /\ \A v : v # x /\ (v[1] = "const" \/ v \in Slots(f)) => V0(v)' = V0(v)
         /\ \A v : v # x /\ IsLike(v) => V0(v)' = V0(v)
         /\ V0(x) = env0[x] /\ V0(x)' = env0'[x]
         /\ env0'[Zero] = 0
         /\ \A n \in (-MaxFloat)..MaxFloat : env0'[<<"fconst", n>>] = n
<1>1. \A v : v # x /\ (v[1] = "const" \/ v \in Slots(f)) => V0(v)' = V0(v)
  BY DEF V0, Before!Value, Before!Kind
<1>2. \A v : v # x /\ IsLike(v) => V0(v)' = V0(v) BY <1>1, InSlots
<1>3. x[1] \notin {"const", "fconst"} /\ x # Zero BY InSlots
<1>4. V0(x) = env0[x] /\ V0(x)' = env0'[x] BY <1>3 DEF V0, Before!Value, Before!Kind
<1>5. env0'[Zero] = 0
  <2>1. Zero \in Slots(f) BY DEF Slots
  <2> QED BY <1>3, <2>1 DEF EnvOK
<1>6. \A n \in (-MaxFloat)..MaxFloat : env0'[<<"fconst", n>>] = n
  <2> SUFFICES ASSUME NEW n \in (-MaxFloat)..MaxFloat PROVE env0'[<<"fconst", n>>] = n
    OBVIOUS
  <2>1. <<"fconst", n>> \in Slots(f) BY DEF Slots
  <2>2. <<"fconst", n>> # x BY <1>3
  <2> QED BY <2>1, <2>2 DEF EnvOK
<1> QED BY <1>1, <1>2, <1>4, <1>5, <1>6

\* The operands of an instruction that computes, stores or loads nothing but an address.
LEMMA ReadsLike ==
  ASSUME f \in Functions, NEW b \in Blocks(f), NEW j \in DOMAIN f.code[b],
         f.code[b][j][1] \in {"op", "store", "call", "ret"},
         NEW k \in DOMAIN f.operands[f.code[b][j]], ~IsAddress(f.code[b][j], k)
  PROVE  /\ IsLike(f.operands[f.code[b][j]][k]) /\ Precedes(f.operands[f.code[b][j]][k], b, j)
         /\ \A h \in DOMAIN f.code[b] : j <= h => f.operands[f.code[b][j]][k] # f.code[b][h]
<1>1. b \in Block /\ j \in Nat BY Graph, Lists
<1>2. PICK x : x = f.code[b][j] OBVIOUS
<1>3. x \in InstrsIn(f) /\ x[1] \in {"op", "store", "call", "ret"} BY <1>1, <1>2, Lists
<1>4. IsLike(f.operands[x][k]) BY <1>2, <1>3, InstrKinds, OperandIsValue
<1>5. Precedes(f.operands[x][k], b, j) BY <1>1, <1>2, <1>3, OperandPrecedes
<1> QED BY <1>1, <1>2, <1>4, <1>5, BeforeHere

LEMMA StoreReads ==
  ASSUME f \in Functions, NEW b \in Blocks(f), NEW j \in DOMAIN f.code[b], f.code[b][j][1] = "store"
  PROVE  /\ IsLike(StoredAt(b, j)) /\ Precedes(StoredAt(b, j), b, j)
         /\ \A h \in DOMAIN f.code[b] : j <= h => StoredAt(b, j) # f.code[b][h]
         /\ f.operands[f.code[b][j]][2] \in Cells(f)
         /\ {1, 2} \subseteq DOMAIN f.operands[f.code[b][j]]
<1>1. b \in Block BY Graph
<1>2. PICK x : x = f.code[b][j] OBVIOUS
<1>3. x \in InstrsIn(f) /\ x[1] = "store" BY <1>1, <1>2, Lists
<1>4. {1, 2} \subseteq DOMAIN f.operands[x] BY <1>3, InstrKinds, Kinds
<1>5. f.operands[x][2] \in Cells(f) BY <1>3, <1>4, InstrKinds, OperandIsValue DEF IsAddress, Cells
<1>6. ~IsAddress(x, 1) BY <1>3 DEF IsAddress
<1> QED BY <1>2, <1>3, <1>4, <1>5, <1>6, ReadsLike DEF StoredAt

LEMMA LoadReads ==
  ASSUME f \in Functions, NEW b \in Blocks(f), NEW j \in DOMAIN f.code[b], f.code[b][j][1] = "load"
  PROVE  AddressAt(b, j) \in Cells(f) /\ DOMAIN f.operands[f.code[b][j]] = 1..1
<1>1. b \in Block BY Graph
<1>2. PICK x : x = f.code[b][j] OBVIOUS
<1>3. x \in InstrsIn(f) /\ x[1] = "load" BY <1>1, <1>2, Lists
<1>4. DOMAIN f.operands[x] = 1..1 BY <1>3, InstrKinds, Kinds
<1>5. f.operands[x][1] \in Cells(f) BY <1>3, <1>4, InstrKinds, OperandIsValue DEF IsAddress, Cells
<1> QED BY <1>2, <1>4, <1>5 DEF AddressAt

\* What a computation comes to does not change when a later instruction is executed.
LEMMA OperationStays ==
  ASSUME f \in Functions, EnvOK, UNCHANGED <<pass, bb0>>, NEW h \in DOMAIN f.code[bb0],
         NEW j \in DOMAIN f.code[bb0], j <= h, f.code[bb0][j][1] = "op",
         DOMAIN env0' = DOMAIN env0, \A v \in Slots(f) \ {f.code[bb0][h]} : env0'[v] = env0[v]
  PROVE  Operation(f.code[bb0][j])' = Operation(f.code[bb0][j])
<1>1. bb0 \in Blocks(f) /\ bb0 \in Block BY Graph DEF EnvOK
<1>2. PICK x : x = f.code[bb0][h] OBVIOUS
<1>3. PICK y : y = f.code[bb0][j] OBVIOUS
<1>4. x \in InstrsIn(f) /\ y \in InstrsIn(f) /\ f' = f BY <1>1, <1>2, <1>3, Lists DEF pass
<1>5. \A v : v # x /\ IsLike(v) => V0(v)' = V0(v) BY <1>2, <1>4, OldValues
<1>6. ASSUME NEW k \in DOMAIN f.operands[y] PROVE V0(f.operands[y][k])' = V0(f.operands[y][k])
  <2>1. ~IsAddress(y, k) BY <1>3 DEF IsAddress
  <2>2. IsLike(f.operands[y][k]) /\ f.operands[y][k] # x BY <1>1, <1>2, <1>3, <2>1, ReadsLike
  <2>3. PICK v : v = f.operands[y][k] OBVIOUS
  <2>4. V0(v)' = V0(v) BY <1>5, <2>2, <2>3
  <2>5. V0(f.operands[y][k])' = V0(v)' BY <1>4, <2>3 DEF V0, Before!Value, Before!Kind
  <2> QED BY <2>3, <2>4, <2>5
<1>7. DOMAIN f.operands[y] = 1..Len(f.operands[y])
  <2>1. f.operands[y] \in Seq(ValuesIn(f)) BY <1>4, OperandIsValue
  <2> QED BY <2>1
<1>8. [k \in 1..Len(f.operands[y]) |-> V0(f.operands[y][k])]' = [k \in 1..Len(f.operands[y]) |-> V0(f.operands[y][k])]
  BY <1>4, <1>6, <1>7
<1>9. OpOf(y)' = OpOf(y) BY <1>4 DEF OpOf, FromBit, InstrsIn
<1>10. Operation(y)' = Operation(y) BY <1>8, <1>9 DEF Operation
<1>11. Operation(f.code[bb0][j])' = Operation(y)'
  BY <1>3, <1>4 DEF Operation, OpOf, FromBit, InstrsIn, V0, Before!Value, Before!Kind
<1> QED BY <1>3, <1>10, <1>11

LEMMA BeforeNext ==
  ASSUME NEW b, NEW j \in Nat, NEW n, n = j + 1, NEW v, Precedes(v, b, n), v # f.code[b][j]
  PROVE  Precedes(v, b, j)
<1>1. \A k \in 1..(n - 1) : k \in 1..(j - 1) \/ k = j OBVIOUS
<1> QED BY <1>1 DEF Precedes, Available

LEMMA OldMoves ==
  ASSUME IInv, FormOK, pc = "done", NEW rho, SubstOK(rho), Running(rho),
         UNCHANGED <<pass, bb0, new>>, line0 \in DOMAIN f.code[bb0],
         NEW x, x = f.code[bb0][line0], x[1] \in {"op", "load", "store"}, line0' = line0 + 1,
         DOMAIN env0' = DOMAIN env0, DOMAIN mem0' = DOMAIN mem0, \A v \in Slots(f) \ {x} : env0'[v] = env0[v],
         x \in delete_list => env0'[x] = V0(rho[x]),
         x[1] = "op" => env0'[x] = Operation(x), x[1] = "store" => env0' = env0
  PROVE  EnvOK' /\ LagOK' /\ ValueOK(rho)' /\ AgreeOK' /\ ComputedOK'
<1>1. /\ f \in Functions /\ bb0 \in Blocks(f) /\ bb0 \in Block /\ line0 \in Nat /\ EnvOK /\ LagOK
      /\ \A i \in DOMAIN f.code[bb0] : i \in Nat
  <2>1. f \in Functions /\ EnvOK /\ LagOK BY DEF IInv, Running
  <2>2. bb0 \in Blocks(f) /\ line0 \in Nat BY <2>1 DEF EnvOK
  <2> QED BY <2>1, <2>2, Graph, Lists
<1>2. x \in InstrsIn(f) BY <1>1, Lists
<1>3. /\ f' = f /\ ir' = ir /\ delete_list' = delete_list /\ bb0' = bb0
      /\ line1' = line1 /\ env1' = env1 /\ mem1' = mem1
  BY DEF pass, new
<1>4. /\ \A v : v # x /\ IsLike(v) => V0(v)' = V0(v)
      /\ \A v : v # x /\ v \in Slots(f) => V0(v)' = V0(v)
      /\ V0(x)' = env0'[x] /\ env0'[Zero] = 0
      /\ \A n \in (-MaxFloat)..MaxFloat : env0'[<<"fconst", n>>] = n
  BY <1>1, <1>2, OldValues
<1>5. /\ \A i \in DOMAIN f.code[bb0] :
           Pending(i)' <=> Pending(i) \/ (i = line0 /\ x \notin delete_list)
      /\ \A y : Lags(y)' <=> Lags(y) \/ (y = x /\ y \notin delete_list)
  BY <1>1, OldPending DEF new
<1>6. EnvOK'
  <2>1. Blocks(f)' = Blocks(f) /\ line0' \in Nat \ {0} BY <1>1, <1>3
  <2> QED BY <1>1, <1>3, <1>4, <2>1, FixedRun DEF EnvOK
<1>7. LagOK'
  <2>1. ASSUME NEW i \in DOMAIN f.code[bb0], Pending(i)' PROVE f.code[bb0][i][1] \in {"op", "load", "store"}
    BY <1>1, <1>5, <2>1 DEF LagOK
  <2>2. ASSUME NEW i \in DOMAIN f.code[bb0], NEW m \in DOMAIN ir.code[bb0], line0' <= i, Same(bb0, m, i)
        PROVE  line1 <= m
    <3>1. line0 <= i BY <1>1, <2>2
    <3> QED BY <1>1, <2>2, <3>1 DEF LagOK
  <2> QED BY <1>3, <2>1, <2>2, FixedRun DEF LagOK
<1>8. ASSUME NEW y \in delete_list, Precedes(y, bb0, line0 + 1) PROVE V0(y)' = V0(rho[y])'
  <2>0. y \in InstrsIn(f) /\ rho[y] # x /\ IsLike(rho[y]) /\ V0(rho[y])' = V0(rho[y])
    <3>1. y \in InstrsIn(f) BY DeletedKinds
    <3>2. IsLike(rho[y]) BY DEF SubstOK
    <3>3. rho[y] # x
      <4>1. PICK d \in Block : \E h \in DOMAIN f.code[d] : f.code[d][h] = y BY DeletedKinds
      <4>2. PICK h \in DOMAIN f.code[d] : f.code[d][h] = y BY <4>1
      <4>3. Precedes(rho[y], d, h) BY <4>2 DEF SubstOK
      <4>4. CASE y = x
        <5>1. rho[y] # y BY <1>1, <4>2, <4>3, PrecedesOrder
        <5> QED BY <4>4, <5>1
      <4>5. CASE y # x
        <5>1. Precedes(y, bb0, line0) BY <1>1, <1>8, <4>5, BeforeNext
        <5>2. Sub(rho, y) = rho[y] BY <3>1 DEF Sub
        <5>3. Precedes(rho[y], bb0, line0) BY <1>1, <5>1, <5>2, SubPrecedes
        <5> QED BY <1>1, <5>3, BeforeHere
      <4> QED BY <4>4, <4>5
    <3> QED BY <1>4, <3>1, <3>2, <3>3
  <2>1. CASE y = x BY <1>4, <2>0, <2>1
  <2>2. CASE y # x
    <3>1. Precedes(y, bb0, line0) BY <1>1, <1>8, <2>2, BeforeNext
    <3>2. V0(y) = V0(rho[y]) BY <3>1 DEF Running, ValueOK
    <3>3. y \in Slots(f) BY <1>1, <2>0, InSlots
    <3> QED BY <1>4, <2>0, <2>2, <3>2, <3>3
  <2> QED BY <2>1, <2>2
<1>9. ValueOK(rho)'
  <2>1. \A y : Precedes(y, bb0, line0)' => Precedes(y, bb0, line0 + 1) BY <1>3, SameStatic DEF Precedes
  <2> QED BY <1>3, <1>8, <2>1 DEF ValueOK
<1>10. AgreeOK'
  <2> SUFFICES ASSUME NEW y \in Slots(f) \ delete_list, Lags(y)' => y[1] = "store" PROVE env1[y] = env0'[y]
    BY <1>3, FixedRun DEF AgreeOK
  <2>1. (Lags(y) => y[1] = "store") /\ (y = x => x[1] = "store") BY <1>5
  <2>2. env1[y] = env0[y] BY <2>1 DEF Running, AgreeOK
  <2> QED BY <2>1, <2>2
<1>11. ASSUME NEW i \in DOMAIN f.code[bb0], Pending(i)', f.code[bb0][i][1] = "op"
       PROVE  env0'[f.code[bb0][i]] = Operation(f.code[bb0][i])'
  <2>1. Pending(i) \/ i = line0 BY <1>5, <1>11
  <2>2. i <= line0 BY <1>1, <2>1 DEF Pending
  <2>3. Operation(f.code[bb0][i])' = Operation(f.code[bb0][i]) BY <1>1, <1>11, <2>2, OperationStays
  <2>4. env0'[f.code[bb0][i]] = Operation(f.code[bb0][i])
    <3>1. CASE i = line0 BY <1>11, <3>1
    <3>2. CASE i # line0
      <4>1. Pending(i) BY <2>1, <3>2
      <4>2. f.code[bb0][i] \in InstrsIn(f) BY <1>1, Lists
      <4>3. f.code[bb0][i] # x BY <1>1, <3>2, Places
      <4>4. f.code[bb0][i] \in Slots(f) BY <1>1, <4>2, InSlots
      <4> QED BY <1>11, <4>1, <4>3, <4>4 DEF Running, ComputedOK
    <3> QED BY <3>1, <3>2
  <2> QED BY <2>3, <2>4
<1>12. ComputedOK'
  <2>1. \A i : Operation(f.code[bb0][i])' = (Operation(f.code[bb0][i]))' OBVIOUS
  <2> QED BY <1>3, <1>11 DEF ComputedOK, Operation
<1> QED BY <1>6, <1>7, <1>9, <1>10, <1>12

LEMMA SeesStays ==
  ASSUME NEW n, NEW a, NEW i, Sees(n, a, i), UNCHANGED <<f, bb0, mem1>>,
         \A h \in 1..(i - 1) : StorePending(h, a)' <=> StorePending(h, a),
         \A h \in 1..(i - 1) : StorePending(h, a) => V0(StoredAt(bb0, h))' = V0(StoredAt(bb0, h)),
         i \in Nat
  PROVE  Sees(n, a, i)'
<1>1. CASE n = mem1[a] /\ \A h \in 1..(i - 1) : ~StorePending(h, a)
  BY <1>1 DEF Sees
<1>2. CASE \E h \in 1..(i - 1) : /\ StorePending(h, a) /\ n = V0(StoredAt(bb0, h))
                                 /\ \A k \in (h + 1)..(i - 1) : ~StorePending(k, a)
  <2>1. PICK h \in 1..(i - 1) : /\ StorePending(h, a) /\ n = V0(StoredAt(bb0, h))
                                /\ \A k \in (h + 1)..(i - 1) : ~StorePending(k, a)
    BY <1>2
  <2>2. (h + 1)..(i - 1) \subseteq 1..(i - 1) BY <2>1
  <2>3. StorePending(h, a)' /\ n = V0(StoredAt(bb0, h))' /\ \A k \in (h + 1)..(i - 1) : ~StorePending(k, a)'
    BY <2>1, <2>2
  <2> QED BY <2>3 DEF Sees
<1> QED BY <1>1, <1>2 DEF Sees

LEMMA SeesNext ==
  ASSUME NEW n, NEW a, NEW i \in Nat, NEW j, j = i + 1, Sees(n, a, i), ~StorePending(i, a)
  PROVE  Sees(n, a, j)
<1>1. \A h \in 1..(j - 1) : h \in 1..(i - 1) \/ h = i OBVIOUS
<1>2. 1..(i - 1) \subseteq 1..(j - 1) OBVIOUS
<1>3. CASE n = mem1[a] /\ \A h \in 1..(i - 1) : ~StorePending(h, a)
  BY <1>1, <1>3 DEF Sees
<1>4. CASE \E h \in 1..(i - 1) : /\ StorePending(h, a) /\ n = V0(StoredAt(bb0, h))
                                 /\ \A k \in (h + 1)..(i - 1) : ~StorePending(k, a)
  <2>1. PICK h \in 1..(i - 1) : /\ StorePending(h, a) /\ n = V0(StoredAt(bb0, h))
                                /\ \A k \in (h + 1)..(i - 1) : ~StorePending(k, a)
    BY <1>4
  <2>2. \A k \in (h + 1)..(j - 1) : k \in (h + 1)..(i - 1) \/ k = i BY <2>1
  <2>3. \A k \in (h + 1)..(j - 1) : ~StorePending(k, a) BY <2>1, <2>2
  <2> QED BY <1>2, <2>1, <2>3 DEF Sees
<1> QED BY <1>3, <1>4 DEF Sees

\* What pending stores will have stored, when the old execution has executed x.
LEMMA OldSees ==
  ASSUME IInv, FormOK, pc = "done", EnvOK, LagOK,
         UNCHANGED <<pass, bb0, new>>, line0 \in DOMAIN f.code[bb0],
         NEW x, x = f.code[bb0][line0], line0' = line0 + 1, NEW rho, SubstOK(rho),
         NEW l, l = line0, NEW j, j = l + 1,
         DOMAIN env0' = DOMAIN env0, \A v \in Slots(f) \ {x} : env0'[v] = env0[v]
  PROVE  /\ \A h \in DOMAIN f.code[bb0] : h <= line0 /\ f.code[bb0][h][1] = "store" =>
              V0(StoredAt(bb0, h))' = V0(StoredAt(bb0, h))
         /\ \A n, a : \A i \in Nat : i <= line0 /\ Sees(n, a, i) => Sees(n, a, i)'
         /\ \A n, a : ~(x[1] = "store" /\ f.operands[x][2] = a) /\ Sees(n, a, l) => Sees(n, a, j)'
         /\ \A n, a : (x[1] = "store" /\ f.operands[x][2] = a) /\ n = V0(StoredAt(bb0, l)) => Sees(n, a, j)'
<1>1. /\ f \in Functions /\ bb0 \in Blocks(f) /\ bb0 \in Block /\ line0 \in Nat \ {0}
      /\ \A i \in DOMAIN f.code[bb0] : i \in Nat
  <2>1. f \in Functions /\ bb0 \in Blocks(f) /\ line0 \in Nat \ {0} BY DEF IInv, EnvOK
  <2> QED BY <2>1, Graph, Lists
<1>2. x \in InstrsIn(f) BY <1>1, Lists
<1>3. f' = f /\ ir' = ir /\ delete_list' = delete_list /\ bb0' = bb0 /\ line1' = line1 /\ mem1' = mem1
  BY DEF pass, new
<1>4. ASSUME NEW h \in DOMAIN f.code[bb0], h <= line0, f.code[bb0][h][1] = "store"
      PROVE  V0(StoredAt(bb0, h))' = V0(StoredAt(bb0, h))
  <2>1. IsLike(StoredAt(bb0, h)) /\ StoredAt(bb0, h) # x BY <1>1, <1>4, StoreReads
  <2>2. PICK v : v = StoredAt(bb0, h) OBVIOUS
  <2>3. V0(v)' = V0(v) BY <1>1, <1>2, <2>1, <2>2, OldValues
  <2>4. V0(StoredAt(bb0, h))' = V0(v)' BY <1>3, <2>2 DEF V0, Before!Value, Before!Kind, StoredAt
  <2> QED BY <2>2, <2>3, <2>4
<1>5. \A i \in DOMAIN f.code[bb0] : Pending(i)' <=> Pending(i) \/ (i = line0 /\ x \notin delete_list)
  BY <1>1, <1>3, OldPending
<1>6. \A h : Pending(h) => h \in DOMAIN f.code[bb0] BY DEF Pending, Same
<1>7. \A h : Pending(h)' => h \in DOMAIN f.code[bb0] BY <1>3 DEF Pending, Same
<1>8. \A h, a : h # line0 => (StorePending(h, a)' <=> StorePending(h, a))
  BY <1>3, <1>5, <1>6, <1>7 DEF StorePending
<1>9. \A a : StorePending(l, a)' <=> x[1] = "store" /\ f.operands[x][2] = a
  <2>1. x[1] = "store" => x \notin delete_list BY DeletedKinds
  <2>2. ~Pending(l) /\ l \in DOMAIN f.code[bb0] BY <1>1 DEF Pending
  <2>3. Pending(l)' <=> x \notin delete_list BY <1>5, <2>2
  <2>4. \A a : StorePending(l, a)' <=> Pending(l)' /\ x[1] = "store" /\ f.operands[x][2] = a
    BY <1>3 DEF StorePending
  <2> QED BY <2>1, <2>3, <2>4
<1>10. ASSUME NEW n, NEW a, NEW i \in Nat, i <= line0, Sees(n, a, i) PROVE Sees(n, a, i)'
  <2>1. \A h \in 1..(i - 1) : h # line0 /\ h <= line0 BY <1>1, <1>10
  <2>2. \A h \in 1..(i - 1) : StorePending(h, a)' <=> StorePending(h, a) BY <1>8, <2>1
  <2>3. \A h \in 1..(i - 1) : StorePending(h, a) => V0(StoredAt(bb0, h))' = V0(StoredAt(bb0, h))
    BY <1>4, <1>6, <2>1 DEF StorePending
  <2> QED BY <1>3, <1>10, <2>2, <2>3, SeesStays
<1>11. j \in Nat /\ l \in Nat \ {0} BY <1>1
<1>12. \A a : ~StorePending(l, a) BY <1>1 DEF StorePending, Pending
<1>13. ASSUME NEW n, NEW a, ~(x[1] = "store" /\ f.operands[x][2] = a), Sees(n, a, l) PROVE Sees(n, a, j)'
  <2>1. Sees(n, a, j) BY <1>1, <1>11, <1>12, <1>13, SeesNext
  <2>2. \A h \in 1..(j - 1) : h <= l BY <1>1, <1>11
  <2>3. \A h \in 1..(j - 1) : StorePending(h, a)' <=> StorePending(h, a) BY <1>8, <1>9, <1>12, <1>13
  <2>4. \A h \in 1..(j - 1) : StorePending(h, a) => V0(StoredAt(bb0, h))' = V0(StoredAt(bb0, h))
    BY <1>4, <1>6, <2>2 DEF StorePending
  <2> QED BY <1>3, <1>11, <2>1, <2>3, <2>4, SeesStays
<1>14. ASSUME NEW n, NEW a, x[1] = "store", f.operands[x][2] = a, n = V0(StoredAt(bb0, l)) PROVE Sees(n, a, j)'
  <2>1. l \in 1..(j - 1) /\ \A k \in (l + 1)..(j - 1) : FALSE BY <1>11
  <2>2. V0(StoredAt(bb0, l))' = V0(StoredAt(bb0, l)) BY <1>1, <1>4, <1>14
  <2>3. StorePending(l, a)' BY <1>9, <1>14
  <2>4. n = V0(StoredAt(bb0, l))' BY <1>14, <2>2
  <2> QED BY <2>1, <2>3, <2>4 DEF Sees
<1> QED BY <1>4, <1>10, <1>11, <1>13, <1>14

\* Neither computations nor loads change the memory.
LEMMA OldMemoryKept ==
  ASSUME IInv, FormOK, pc = "done", NEW rho, SubstOK(rho), Running(rho),
         UNCHANGED <<pass, bb0, new>>, line0 \in DOMAIN f.code[bb0],
         NEW x, x = f.code[bb0][line0], x[1] \in {"op", "load"}, line0' = line0 + 1,
         DOMAIN env0' = DOMAIN env0, mem0' = mem0, \A v \in Slots(f) \ {x} : env0'[v] = env0[v],
         x[1] = "load" => env0'[x] = mem0[AddressAt(bb0, line0)]
  PROVE  MemoryOK' /\ KeptOK'
<1>1. /\ f \in Functions /\ bb0 \in Blocks(f) /\ bb0 \in Block /\ line0 \in Nat \ {0} /\ EnvOK /\ LagOK
      /\ \A i \in DOMAIN f.code[bb0] : i \in Nat
  <2>1. f \in Functions /\ EnvOK /\ LagOK BY DEF IInv, Running
  <2>2. bb0 \in Blocks(f) /\ line0 \in Nat \ {0} BY <2>1 DEF EnvOK
  <2> QED BY <2>1, <2>2, Graph, Lists
<1>2. x \in InstrsIn(f) BY <1>1, Lists
<1>3. f' = f /\ ir' = ir /\ bb0' = bb0 BY DEF pass
<1>4. PICK l, j : l = line0 /\ j = l + 1 OBVIOUS
<1>5. /\ \A h \in DOMAIN f.code[bb0] : h <= line0 /\ f.code[bb0][h][1] = "store" =>
           V0(StoredAt(bb0, h))' = V0(StoredAt(bb0, h))
      /\ \A n, a : \A i \in Nat : i <= line0 /\ Sees(n, a, i) => Sees(n, a, i)'
      /\ \A n, a : ~(x[1] = "store" /\ f.operands[x][2] = a) /\ Sees(n, a, l) => Sees(n, a, j)'
  BY <1>1, <1>4, OldSees
<1>6. \A a \in Cells(f) : Sees(mem0[a], a, line0)'
  <2> SUFFICES ASSUME NEW a \in Cells(f) PROVE Sees(mem0[a], a, line0)'
    OBVIOUS
  <2>1. PICK n : n = mem0[a] OBVIOUS
  <2>2. Sees(n, a, l) BY <1>4, <2>1 DEF Running, MemoryOK
  <2>3. Sees(n, a, j)' BY <1>5, <2>2
  <2>4. mem0'[a] = n /\ line0' = j BY <1>4, <2>1
  <2> QED BY <2>3, <2>4 DEF Sees
<1>7. ASSUME NEW i \in DOMAIN f.code[bb0], Pending(i)', f.code[bb0][i][1] = "load"
      PROVE  Sees(env0[f.code[bb0][i]], AddressAt(bb0, i), i)'
  <2>1. Pending(i) \/ i = line0 BY <1>1, <1>7, OldPending DEF new
  <2>2. PICK n, a : n = env0'[f.code[bb0][i]] /\ a = AddressAt(bb0, i) OBVIOUS
  <2>3. i \in Nat /\ i <= line0 BY <1>1, <2>1 DEF Pending
  <2>4. Sees(n, a, i)
    <3>1. CASE i = line0
      <4>1. n = mem0[a] BY <1>7, <2>2, <3>1
      <4>2. a \in Cells(f) BY <1>1, <1>7, <2>2, LoadReads
      <4> QED BY <3>1, <4>1, <4>2 DEF Running, MemoryOK
    <3>2. CASE i # line0
      <4>1. f.code[bb0][i] # x /\ f.code[bb0][i] \in Slots(f)
        BY <1>1, <3>2, Places, Lists, InSlots
      <4>2. n = env0[f.code[bb0][i]] BY <2>2, <4>1
      <4> QED BY <1>7, <2>1, <2>2, <3>2, <4>2 DEF Running, MemoryOK
    <3> QED BY <3>1, <3>2
  <2>5. Sees(n, a, i)' BY <1>5, <2>3, <2>4
  <2>6. AddressAt(bb0, i)' = a BY <1>3, <2>2 DEF AddressAt
  <2> QED BY <1>3, <2>2, <2>5, <2>6 DEF Sees
<1>8. MemoryOK' BY <1>3, <1>6, <1>7, FixedRun DEF MemoryOK
<1>9. ASSUME NEW k \in DOMAIN f.code[bb0], line0' <= k, f.code[bb0][k][1] = "load", NEW a, a = AddressAt(bb0, k)
      PROVE  /\ \A i \in DOMAIN f.code[bb0] : i < line0' /\ StoredLast(f, bb0, i, k, Key(a)) =>
                  mem0[a] = V0(StoredAt(bb0, i))'
             /\ Fresh(bb0, k, Key(a)) => mem0[a] = 0
  <2>1. line0 <= k BY <1>1, <1>9
  <2>2. /\ \A i \in DOMAIN f.code[bb0] : i < line0 /\ StoredLast(f, bb0, i, k, Key(a)) =>
             mem0[a] = V0(StoredAt(bb0, i))
        /\ Fresh(bb0, k, Key(a)) => mem0[a] = 0
    BY <1>9, <2>1 DEF Running, KeptOK
  <2>3. ASSUME NEW i \in DOMAIN f.code[bb0], i < line0', StoredLast(f, bb0, i, k, Key(a))
        PROVE  mem0[a] = V0(StoredAt(bb0, i))'
    <3>1. f.code[bb0][i][1] = "store" BY <2>3 DEF StoredLast, StoresTo
    <3>2. i # line0 BY <3>1
    <3>3. i < line0 BY <1>1, <2>3, <3>2
    <3>4. i <= line0 BY <1>1, <3>3
    <3>5. V0(StoredAt(bb0, i))' = V0(StoredAt(bb0, i)) BY <1>5, <3>1, <3>4
    <3>6. mem0[a] = V0(StoredAt(bb0, i)) BY <2>2, <2>3, <3>3
    <3> QED BY <3>5, <3>6
  <2> QED BY <2>2, <2>3
<1>10. KeptOK'
  <2>1. \A b, i, k : Fresh(b, i, k)' <=> Fresh(b, i, k) BY <1>3, SameStatic
  <2> SUFFICES ASSUME NEW k \in DOMAIN f.code[bb0], line0' <= k, f.code[bb0][k][1] = "load", NEW a, a = AddressAt(bb0, k)
               PROVE  /\ \A i \in DOMAIN f.code[bb0] : i < line0' /\ StoredLast(f, bb0, i, k, Key(a)) =>
                           mem0[a] = V0(StoredAt(bb0, i))'
                      /\ Fresh(bb0, k, Key(a)) => mem0[a] = 0
    BY <1>3, <2>1 DEF KeptOK, AddressAt
  <2> QED BY <1>9
<1> QED BY <1>8, <1>10

\* For a bit that is not set both conversions give zero.
LEMMA BitOfFalse ==
  ASSUME NEW args, DOMAIN args = 1..1, args[1] = 0
  PROVE  Result("bittofp", args) = Result("sitofp", args)
<1>1. Undef \notin Range(args) BY UndefAssumption DEF Range
<1>2. 2 * (0 - args[1]) = 0 /\ 2 * args[1] = 0 OBVIOUS
<1>3. Result("bittofp", args) = Near(0)
  BY <1>1, <1>2 DEF Result, IntOps, FloatOps, Compares, FCompares
<1>4. Result("sitofp", args) = Near(0)
  BY <1>1, <1>2 DEF Result, IntOps, FloatOps, Compares, FCompares
<1> QED BY <1>3, <1>4

LEMMA OldOp ==
  ASSUME IInv, FormOK, pc = "done", NEW rho, SubstOK(rho), Running(rho), UNCHANGED <<pass, bb0, new>>,
         Before!Op, env0'[Before!instr] = Result(OpOf(Before!instr), seen0'[2])
  PROVE  Running(rho)'
<1>1. /\ f \in Functions /\ bb0 \in Blocks(f) /\ bb0 \in Block /\ line0 \in Nat \ {0} /\ EnvOK
      /\ DOMAIN f.code[bb0] = 1..Len(f.code[bb0]) /\ Len(f.code[bb0]) \in Nat
  <2>1. f \in Functions /\ EnvOK BY DEF IInv, Running
  <2>2. bb0 \in Blocks(f) /\ line0 \in Nat \ {0} BY <2>1 DEF EnvOK
  <2> QED BY <2>1, <2>2, Graph, Lists
<1>2. PICK x : x = f.code[bb0][line0] OBVIOUS
<1>3. /\ line0 <= Len(f.code[bb0]) /\ x[1] = "op" /\ line0' = line0 + 1 /\ mem0' = mem0
      /\ seen0'[2] = [i \in 1..Len(f.operands[x]) |-> V0(f.operands[x][i])]
      /\ \E d : env0' = [env0 EXCEPT ![x] = d]
      /\ env0'[x] = Result(OpOf(x), seen0'[2])
  BY <1>2 DEF Before!Op, Before!Computes, Before!Executes, Before!Observed, Before!instr, Before!rand,
              Before!Kind, V0
<1>4. line0 \in DOMAIN f.code[bb0] BY <1>1, <1>3
<1>5. DOMAIN env0' = DOMAIN env0 /\ \A v \in Slots(f) \ {x} : env0'[v] = env0[v]
  BY <1>1, <1>3 DEF EnvOK
<1>6. env0'[x] = Operation(x) BY <1>3 DEF Operation
<1>7. ASSUME x \in delete_list PROVE env0'[x] = V0(rho[x])
  <2>1. x \in InstrsIn(f) BY <1>1, <1>2, <1>4, Lists
  <2>2. PICK o, v, w, c : /\ o = f.opcode[x] /\ v = Sub(rho, f.operands[x][1])
                          /\ w = Sub(rho, f.operands[x][2]) /\ c = rho[x]
    OBVIOUS
  <2>3. FoldOf(o, v, w, c) BY <1>2, <1>3, <1>4, <1>1, <1>7, <2>2 DEF SubstOK, Replaces
  <2>4. o \in Binary \cup {"fptosi", "sitofp"} BY <2>3 DEF FoldOf, Binary
  <2>5. DOMAIN f.operands[x] = IF o \in Binary THEN 1..2 ELSE 1..1
    <3>1. o \notin Binary => o \in {"fptosi", "sitofp"} BY <2>4
    <3> QED BY <1>1, <2>1, <2>2, <3>1, Kinds
  <2>6. ASSUME NEW k \in DOMAIN f.operands[x]
        PROVE  IsLike(Sub(rho, f.operands[x][k])) /\ V0(Sub(rho, f.operands[x][k])) = V0(f.operands[x][k])
    <3>1. ~IsAddress(x, k) BY <1>3 DEF IsAddress
    <3>2. IsLike(f.operands[x][k]) /\ Precedes(f.operands[x][k], bb0, line0)
      BY <1>1, <1>2, <1>3, <1>4, <3>1, ReadsLike
    <3> QED BY <1>1, <3>2, SubLike, ValueOfSub DEF Running
  <2>7. PICK args : args = [k \in 1..Len(f.operands[x]) |-> V0(f.operands[x][k])] OBVIOUS
  <2>8. DOMAIN args = DOMAIN f.operands[x] /\ \A k \in DOMAIN f.operands[x] : args[k] = V0(f.operands[x][k])
    <3>1. f.operands[x] \in Seq(ValuesIn(f)) BY <1>1, <2>1, OperandIsValue
    <3>2. DOMAIN f.operands[x] = 1..Len(f.operands[x]) BY <3>1
    <3> QED BY <2>7, <3>2
  <2>9. args[1] = V0(v) /\ IsLike(v)
    <3>1. 1 \in DOMAIN f.operands[x] BY <2>5
    <3> QED BY <2>2, <2>6, <2>8, <3>1
  <2>10. o \in Binary => args[2] = V0(w) /\ IsLike(w)
    <3>1. o \in Binary => 2 \in DOMAIN f.operands[x] BY <2>5
    <3> QED BY <2>2, <2>6, <2>8, <3>1
  <2>11. \A u : IsLike(u) => u \in Constants \/ u[1] \notin {"const", "fconst"} BY <1>1, LikeConstant
  <2>12. PICK w1 : w1 = IF o \in Binary THEN w ELSE Zero OBVIOUS
  <2>13. FoldOf(o, v, w1, c)
    <3>1. CASE o \in Binary BY <2>3, <2>12, <3>1
    <3>2. CASE o \notin Binary
      <4>1. o \notin IntOps \cup FloatOps \cup Compares \cup FCompares BY <3>2 DEF Binary
      <4> QED BY <2>3, <4>1 DEF FoldOf
    <3> QED BY <3>1, <3>2
  <2>14. w1 \in Constants \/ w1[1] \notin {"const", "fconst"}
    <3>1. Zero[1] \notin {"const", "fconst"} BY DEF Zero
    <3> QED BY <2>10, <2>11, <2>12, <3>1
  <2>15. o \in Binary => args[2] = V0(w1) BY <2>10, <2>12
  <2>16. Result(o, args) = V0(c) BY <1>1, <2>5, <2>8, <2>9, <2>11, <2>13, <2>14, <2>15, FoldResult
  <2>17. Result(OpOf(x), args) = Result(o, args)
    <3>1. CASE FromBit(x)
      <4>1. o = "sitofp" /\ OpOf(x) = "bittofp" BY <2>2, <3>1 DEF FromBit, OpOf
      <4>2. v[1] = "const" BY <2>3, <4>1 DEF FoldOf, IntOps, FloatOps, Compares, FCompares
      <4>3. v[2] = 0 BY <1>1, <1>2, <1>3, <1>4, <1>7, <2>2, <3>1 DEF SubstOK, Replaces
      <4>4. args[1] = 0 BY <2>9, <4>2, <4>3 DEF V0, Before!Value, Before!Kind
      <4>5. DOMAIN args = 1..1 BY <2>5, <2>8, <4>1 DEF Binary, IntOps, FloatOps, Compares, FCompares
      <4> QED BY <4>1, <4>4, <4>5, BitOfFalse
    <3>2. CASE ~FromBit(x) BY <2>2, <3>2 DEF OpOf
    <3> QED BY <3>1, <3>2
  <2> QED BY <1>3, <2>2, <2>7, <2>16, <2>17
<1>8. EnvOK' /\ LagOK' /\ ValueOK(rho)' /\ AgreeOK' /\ ComputedOK'
  BY <1>2, <1>3, <1>4, <1>5, <1>6, <1>7, OldMoves
<1>9. MemoryOK' /\ KeptOK'
  BY <1>2, <1>3, <1>4, <1>5, OldMemoryKept
<1> QED BY <1>8, <1>9 DEF Running

LEMMA OldLoad ==
  ASSUME IInv, FormOK, pc = "done", NEW rho, SubstOK(rho), Running(rho), UNCHANGED <<pass, bb0, new>>,
         Before!Load
  PROVE  Running(rho)'
<1>1. /\ f \in Functions /\ bb0 \in Blocks(f) /\ bb0 \in Block /\ line0 \in Nat \ {0} /\ EnvOK
      /\ DOMAIN f.code[bb0] = 1..Len(f.code[bb0]) /\ Len(f.code[bb0]) \in Nat
  <2>1. f \in Functions /\ EnvOK BY DEF IInv, Running
  <2>2. bb0 \in Blocks(f) /\ line0 \in Nat \ {0} BY <2>1 DEF EnvOK
  <2> QED BY <2>1, <2>2, Graph, Lists
<1>2. PICK x : x = f.code[bb0][line0] OBVIOUS
<1>3. /\ line0 <= Len(f.code[bb0]) /\ x[1] = "load" /\ line0' = line0 + 1 /\ mem0' = mem0
      /\ env0' = [env0 EXCEPT ![x] = mem0[AddressAt(bb0, line0)]]
  BY <1>2 DEF Before!Load, Before!Executes, Before!instr, Before!rand, Before!Kind, AddressAt
<1>4. line0 \in DOMAIN f.code[bb0] /\ x \in InstrsIn(f) /\ x \in Slots(f)
  <2>1. line0 \in DOMAIN f.code[bb0] BY <1>1, <1>3
  <2> QED BY <1>1, <1>2, <2>1, Lists, InSlots
<1>5. /\ DOMAIN env0' = DOMAIN env0 /\ \A v \in Slots(f) \ {x} : env0'[v] = env0[v]
      /\ env0'[x] = mem0[AddressAt(bb0, line0)]
  BY <1>1, <1>3, <1>4 DEF EnvOK
<1>6. ASSUME x \in delete_list PROVE env0'[x] = V0(rho[x])
  <2>1. PICK a : a = AddressAt(bb0, line0) OBVIOUS
  <2>2. Replaces(rho, bb0, line0, rho[x]) BY <1>1, <1>2, <1>4, <1>6 DEF SubstOK
  <2>3. /\ \A i \in DOMAIN f.code[bb0] : i < line0 /\ StoredLast(f, bb0, i, line0, Key(a)) =>
             mem0[a] = V0(StoredAt(bb0, i))
        /\ Fresh(bb0, line0, Key(a)) => mem0[a] = 0
    BY <1>1, <1>2, <1>3, <1>4, <2>1 DEF Running, KeptOK
  <2>4. CASE \E i \in DOMAIN f.code[bb0] : StoredLast(f, bb0, i, line0, Key(a)) /\ rho[x] = Sub(rho, StoredAt(bb0, i))
    <3>1. PICK i \in DOMAIN f.code[bb0] : StoredLast(f, bb0, i, line0, Key(a)) /\ rho[x] = Sub(rho, StoredAt(bb0, i))
      BY <2>4
    <3>2. i < line0 /\ f.code[bb0][i][1] = "store" BY <3>1 DEF StoredLast, StoresTo
    <3>3. mem0[a] = V0(StoredAt(bb0, i)) BY <2>3, <3>1, <3>2
    <3>4. i \in Nat /\ Precedes(StoredAt(bb0, i), bb0, i) BY <1>1, <3>2, StoreReads
    <3>5. Precedes(StoredAt(bb0, i), bb0, line0) BY <1>1, <3>2, <3>4, BeforeHere
    <3>6. V0(Sub(rho, StoredAt(bb0, i))) = V0(StoredAt(bb0, i)) BY <3>5, ValueOfSub DEF Running
    <3> QED BY <1>5, <2>1, <3>1, <3>3, <3>6
  <2>5. CASE Fresh(bb0, line0, Key(a)) /\ rho[x] = Zero
    <3>1. V0(Zero) = 0 BY <1>1 DEF EnvOK, V0, Before!Value, Before!Kind, Zero
    <3> QED BY <1>5, <2>1, <2>3, <2>5, <3>1
  <2> QED BY <1>2, <1>3, <2>1, <2>2, <2>4, <2>5 DEF Replaces
<1>7. EnvOK' /\ LagOK' /\ ValueOK(rho)' /\ AgreeOK' /\ ComputedOK'
  BY <1>2, <1>3, <1>4, <1>5, <1>6, OldMoves
<1>8. MemoryOK' /\ KeptOK'
  BY <1>2, <1>3, <1>4, <1>5, OldMemoryKept
<1> QED BY <1>7, <1>8 DEF Running

\* What MapIsTrue says of a load.
LEMMA LoadIsTrue ==
  ASSUME f \in Functions, NEW b \in Blocks(f), NEW j \in DOMAIN f.code[b], f.code[b][j][1] = "load",
         NEW a, a = AddressAt(b, j)
  PROVE  /\ \A i \in DOMAIN f.code[b] : StoredLast(f, b, i, j, Key(a)) =>
              /\ f.operands[f.code[b][i]][2] = a
              /\ a[1] = "global" => ~Calls(f, b, i, j)
         /\ Fresh(b, j, Key(a)) => a[1] = "global" /\ f.main /\ ~Calls(f, b, 0, j)
<1>1. MapIsTrue(f) BY Executable
<1>2. /\ \A i \in DOMAIN f.code[b] : StoredLast(f, b, i, j, Key(a)) =>
           /\ f.operands[f.code[b][i]][2] = a
           /\ a[1] = "global" => ~Calls(f, b, i, j)
      /\ f.first /\ b = Entry(f) /\ a[1] = "global" /\ (\A i \in 1..(j - 1) : ~StoresTo(f, b, i, Key(a))) =>
           f.main /\ ~Calls(f, b, 0, j)
  BY <1>1, Zenon DEF MapIsTrue, AddressAt
<1>3. Key(a)[1] = "global" => a[1] = "global" BY DEF Key, NotGlobal
<1> QED BY <1>2, <1>3 DEF Fresh

LEMMA OldStore ==
  ASSUME IInv, FormOK, pc = "done", NEW rho, SubstOK(rho), Running(rho), UNCHANGED <<pass, bb0, new>>,
         Before!Store
  PROVE  Running(rho)'
<1>1. /\ f \in Functions /\ bb0 \in Blocks(f) /\ bb0 \in Block /\ line0 \in Nat \ {0} /\ EnvOK
      /\ DOMAIN f.code[bb0] = 1..Len(f.code[bb0]) /\ Len(f.code[bb0]) \in Nat /\ LagOK
      /\ \A i \in DOMAIN f.code[bb0] : i \in Nat
  <2>1. f \in Functions /\ EnvOK /\ LagOK BY DEF IInv, Running
  <2>2. bb0 \in Blocks(f) /\ line0 \in Nat \ {0} BY <2>1 DEF EnvOK
  <2> QED BY <2>1, <2>2, Graph, Lists
<1>2. PICK x : x = f.code[bb0][line0] OBVIOUS
<1>3. PICK l, j, c : l = line0 /\ j = l + 1 /\ c = f.operands[x][2] OBVIOUS
<1>4. /\ line0 <= Len(f.code[bb0]) /\ x[1] = "store" /\ line0' = line0 + 1 /\ env0' = env0
      /\ mem0' = [mem0 EXCEPT ![c] = V0(StoredAt(bb0, line0))]
  BY <1>2, <1>3 DEF Before!Store, Before!Executes, Before!instr, Before!rand, Before!Kind, StoredAt, V0
<1>5. line0 \in DOMAIN f.code[bb0] /\ x \in InstrsIn(f) /\ x \notin delete_list /\ c \in Cells(f)
  <2>1. line0 \in DOMAIN f.code[bb0] BY <1>1, <1>4
  <2>2. x \in InstrsIn(f) BY <1>1, <1>2, <2>1, Lists
  <2>3. x \notin delete_list BY <1>4, DeletedKinds
  <2> QED BY <1>1, <1>2, <1>3, <1>4, <2>1, <2>2, <2>3, StoreReads
<1>6. /\ DOMAIN mem0' = DOMAIN mem0 /\ mem0'[c] = V0(StoredAt(bb0, line0))
      /\ \A a \in Cells(f) : a # c => mem0'[a] = mem0[a]
  BY <1>1, <1>4, <1>5 DEF EnvOK
<1>7. EnvOK' /\ LagOK' /\ ValueOK(rho)' /\ AgreeOK' /\ ComputedOK'
  BY <1>2, <1>4, <1>5, <1>6, OldMoves
<1>8. f' = f /\ ir' = ir /\ bb0' = bb0 BY DEF pass
<1>9. /\ \A h \in DOMAIN f.code[bb0] : h <= line0 /\ f.code[bb0][h][1] = "store" =>
           V0(StoredAt(bb0, h))' = V0(StoredAt(bb0, h))
      /\ \A n, a : \A i \in Nat : i <= line0 /\ Sees(n, a, i) => Sees(n, a, i)'
      /\ \A n, a : ~(x[1] = "store" /\ f.operands[x][2] = a) /\ Sees(n, a, l) => Sees(n, a, j)'
      /\ \A n, a : (x[1] = "store" /\ f.operands[x][2] = a) /\ n = V0(StoredAt(bb0, l)) => Sees(n, a, j)'
  BY <1>1, <1>2, <1>3, <1>4, <1>5, OldSees
<1>10. ASSUME NEW a \in Cells(f) PROVE Sees(mem0[a], a, line0)'
  <2>1. PICK n : n = mem0'[a] OBVIOUS
  <2>2. Sees(n, a, j)'
    <3>1. CASE a = c
      <4>1. n = V0(StoredAt(bb0, l)) BY <1>3, <1>6, <2>1, <3>1
      <4> QED BY <1>3, <1>4, <1>9, <3>1, <4>1
    <3>2. CASE a # c
      <4>1. n = mem0[a] BY <1>6, <2>1, <3>2
      <4>2. Sees(n, a, l) BY <1>3, <4>1 DEF Running, MemoryOK
      <4> QED BY <1>3, <1>9, <3>2, <4>2
    <3> QED BY <3>1, <3>2
  <2>3. line0' = j BY <1>3, <1>4
  <2> QED BY <2>1, <2>2, <2>3 DEF Sees
<1>11. ASSUME NEW i \in DOMAIN f.code[bb0], Pending(i)', f.code[bb0][i][1] = "load"
       PROVE  Sees(env0[f.code[bb0][i]], AddressAt(bb0, i), i)'
  <2>1. Pending(i) \/ i = line0 BY <1>1, <1>4, <1>5, <1>11, OldPending DEF new
  <2>2. PICK n, a : n = env0[f.code[bb0][i]] /\ a = AddressAt(bb0, i) OBVIOUS
  <2>3. Pending(i) /\ i \in Nat /\ i <= line0 BY <1>1, <1>2, <1>4, <1>11, <2>1 DEF Pending
  <2>4. Sees(n, a, i) BY <1>11, <2>2, <2>3 DEF Running, MemoryOK
  <2>5. Sees(n, a, i)' BY <1>9, <2>3, <2>4
  <2>6. AddressAt(bb0, i)' = a /\ env0'[f'.code[bb0'][i]] = n BY <1>4, <1>8, <2>2 DEF AddressAt
  <2> QED BY <2>2, <2>5, <2>6 DEF Sees
<1>12. MemoryOK' BY <1>8, <1>10, <1>11, FixedRun DEF MemoryOK
<1>13. ASSUME NEW k \in DOMAIN f.code[bb0], line0' <= k, f.code[bb0][k][1] = "load", NEW a, a = AddressAt(bb0, k)
       PROVE  /\ \A i \in DOMAIN f.code[bb0] : i < line0' /\ StoredLast(f, bb0, i, k, Key(a)) =>
                   mem0'[a] = V0(StoredAt(bb0, i))'
              /\ Fresh(bb0, k, Key(a)) => mem0'[a] = 0
  <2>1. line0 < k /\ line0 <= k /\ a \in Cells(f) BY <1>1, <1>4, <1>13, LoadReads
  <2>2. /\ \A i \in DOMAIN f.code[bb0] : i < line0 /\ StoredLast(f, bb0, i, k, Key(a)) =>
             mem0[a] = V0(StoredAt(bb0, i))
        /\ Fresh(bb0, k, Key(a)) => mem0[a] = 0
    BY <1>13, <2>1 DEF Running, KeptOK
  <2>3. ~StoresTo(f, bb0, line0, Key(a)) => mem0'[a] = mem0[a]
    <3>1. c = a => StoresTo(f, bb0, line0, Key(a)) BY <1>2, <1>3, <1>4 DEF StoresTo
    <3> QED BY <1>6, <2>1, <3>1
  <2>4. ASSUME NEW i \in DOMAIN f.code[bb0], i < line0', StoredLast(f, bb0, i, k, Key(a))
        PROVE  mem0'[a] = V0(StoredAt(bb0, i))'
    <3>1. f.code[bb0][i][1] = "store" BY <2>4 DEF StoredLast, StoresTo
    <3>2. CASE i = line0
      <4>1. c = a BY <1>1, <1>2, <1>3, <1>13, <2>4, <3>2, LoadIsTrue
      <4> QED BY <1>1, <1>6, <1>9, <3>1, <3>2, <4>1
    <3>3. CASE i # line0
      <4>1. i < line0 /\ i \in Nat BY <1>1, <1>4, <2>4, <3>3
      <4>2. line0 \in (i + 1)..(k - 1) BY <1>1, <2>1, <4>1
      <4>3. mem0'[a] = mem0[a] BY <2>3, <2>4, <4>2 DEF StoredLast
      <4>4. mem0[a] = V0(StoredAt(bb0, i)) BY <2>2, <2>4, <4>1
      <4>5. i <= line0 BY <1>1, <4>1
      <4>6. V0(StoredAt(bb0, i))' = V0(StoredAt(bb0, i)) BY <1>9, <3>1, <4>5
      <4> QED BY <4>3, <4>4, <4>6
    <3> QED BY <3>2, <3>3
  <2>5. ASSUME Fresh(bb0, k, Key(a)) PROVE mem0'[a] = 0
    <3>1. line0 \in 1..(k - 1) BY <1>1, <2>1
    <3>2. ~StoresTo(f, bb0, line0, Key(a)) BY <2>5, <3>1 DEF Fresh
    <3> QED BY <2>2, <2>3, <2>5, <3>2
  <2> QED BY <2>4, <2>5
<1>14. KeptOK'
  <2>1. \A b, i, k : Fresh(b, i, k)' <=> Fresh(b, i, k) BY <1>8, SameStatic
  <2> SUFFICES ASSUME NEW k \in DOMAIN f.code[bb0], line0' <= k, f.code[bb0][k][1] = "load", NEW a, a = AddressAt(bb0, k)
               PROVE  /\ \A i \in DOMAIN f.code[bb0] : i < line0' /\ StoredLast(f, bb0, i, k, Key(a)) =>
                           mem0'[a] = V0(StoredAt(bb0, i))'
                      /\ Fresh(bb0, k, Key(a)) => mem0'[a] = 0
    BY <1>8, <2>1 DEF KeptOK, AddressAt
  <2> QED BY <1>13
<1> QED BY <1>7, <1>12, <1>14 DEF Running

\* The new execution moves on while the old one waits: what it executes is the first that is pending.
LEMMA NewPlace ==
  ASSUME IInv, FormOK, pc = "done", EnvOK, LagOK, NEW rho, SubstOK(rho), Waits0,
         line1 \in DOMAIN ir.code[bb0], NEW x, x = ir.code[bb0][line1], x[1] \in {"op", "load", "store"}
  PROVE  \E i \in DOMAIN f.code[bb0] :
           /\ Same(bb0, line1, i) /\ Pending(i) /\ f.code[bb0][i] = x
           /\ \A h \in DOMAIN f.code[bb0] : Pending(h) => i <= h
           /\ i <= line0 /\ i # line0
<1>1. /\ f \in Functions /\ bb0 \in Block /\ line0 \in Nat \ {0} /\ line1 \in Nat
      /\ DOMAIN f.code[bb0] = 1..Len(f.code[bb0]) /\ Len(f.code[bb0]) \in Nat
  <2>1. f \in Functions /\ bb0 \in Block /\ line0 \in Nat \ {0} /\ line1 \in Nat
    BY Graph DEF IInv, EnvOK
  <2> QED BY <2>1, Lists
<1>2. PICK i \in DOMAIN f.code[bb0] : Same(bb0, line1, i) BY <1>1, Aligned
<1>3. PICK y : y = f.code[bb0][line0] OBVIOUS
<1>4. line0 <= Len(f.code[bb0]) /\ y[1] \in {"call", "br", "ret"}
  BY <1>3 DEF Waits0, Stops, Before!Executes, Before!instr, Before!Kind
<1>5. line0 \in DOMAIN f.code[bb0] /\ y \notin delete_list
  <2>1. y \notin delete_list BY <1>4, DeletedKinds
  <2> QED BY <1>1, <1>4, <2>1
<1>6. PICK n \in DOMAIN ir.code[bb0] : Same(bb0, n, line0) BY <1>1, <1>3, <1>5, Aligned
<1>7. DOMAIN ir.code[bb0] \subseteq Nat
  <2>1. Len(ir.code[bb0]) \in Nat /\ DOMAIN ir.code[bb0] = 1..Len(ir.code[bb0]) BY <1>1, Aligned
  <2> QED BY <2>1
<1>8. line1 <= n
  <2>1. line0 <= line0 BY <1>1
  <2> QED BY <1>5, <1>6, <2>1 DEF LagOK
<1>9. n # line1 BY <1>3, <1>4, <1>6 DEF Same
<1>10. line1 < n BY <1>1, <1>7, <1>8, <1>9
<1>11. i < line0 BY <1>1, <1>2, <1>6, <1>10, Aligned
<1>12. line1 <= line1 BY <1>1
<1>13. Pending(i) BY <1>2, <1>11, <1>12 DEF Pending
<1>14. ASSUME NEW h \in DOMAIN f.code[bb0], Pending(h) PROVE i <= h
  <2>1. PICK m \in DOMAIN ir.code[bb0] : line1 <= m /\ Same(bb0, m, h) BY <1>14 DEF Pending
  <2>2. m \in Nat /\ h \in Nat /\ i \in Nat BY <1>1, <1>7
  <2>3. h < i => m < line1 BY <1>1, <1>2, <2>1, Aligned
  <2> QED BY <1>1, <2>1, <2>2, <2>3
<1>15. f.code[bb0][i] = x BY <1>2 DEF Same
<1> QED BY <1>1, <1>2, <1>11, <1>13, <1>14, <1>15

LEMMA NewPending ==
  ASSUME IInv, FormOK, pc = "done", EnvOK, UNCHANGED <<pass, bb0, line0>>, line1' = line1 + 1,
         NEW i, Same(bb0, line1, i)
  PROVE  /\ \A h \in DOMAIN f.code[bb0] : Pending(h)' <=> Pending(h) /\ h # i
         /\ \A y : Lags(y)' => Lags(y)
         /\ \A y : Lags(y) /\ ~Lags(y)' => y = f.code[bb0][i]
<1>1. f \in Functions /\ bb0 \in Block /\ line1 \in Nat BY Graph DEF IInv, EnvOK
<1>2. f' = f /\ ir' = ir /\ bb0' = bb0 /\ line0' = line0 BY DEF pass
<1>3. DOMAIN ir.code[bb0] \subseteq Nat
  <2>1. Len(ir.code[bb0]) \in Nat /\ DOMAIN ir.code[bb0] = 1..Len(ir.code[bb0]) BY <1>1, Aligned
  <2> QED BY <2>1
<1>4. ASSUME NEW h \in DOMAIN f.code[bb0] PROVE Pending(h)' <=> Pending(h) /\ h # i
  <2>1. Pending(h)' <=> h < line0 /\ \E m \in DOMAIN ir.code[bb0] : line1 + 1 <= m /\ Same(bb0, m, h)
    BY <1>2, FixedRun DEF Pending
  <2>2. \A m \in DOMAIN ir.code[bb0] : Same(bb0, m, h) => (m = line1 <=> h = i) BY <1>1, Aligned
  <2>3. \A m \in DOMAIN ir.code[bb0] : line1 + 1 <= m <=> line1 <= m /\ m # line1 BY <1>1, <1>3
  <2> QED BY <2>1, <2>2, <2>3 DEF Pending
<1>5. \A y : Lags(y)' <=> \E h \in DOMAIN f.code[bb0] : Pending(h)' /\ f.code[bb0][h] = y
  BY <1>2 DEF Lags
<1> QED BY <1>4, <1>5 DEF Lags

LEMMA SameLen ==
  ASSUME IInv, FormOK, NEW x \in InstrsIn(f)
  PROVE  /\ Len(ir.operands[x]) = Len(f.operands[x]) /\ DOMAIN f.operands[x] = 1..Len(f.operands[x])
         /\ Len(f.operands[x]) \in Nat
<1>1. DOMAIN ir.operands[x] = DOMAIN f.operands[x] BY DEF IInv, CodeOK
<1>2. f.operands[x] \in Seq(ValuesIn(f)) BY OperandIsValue DEF IInv
<1>3. ir.operands[x] \in Seq(ValuesIn(f) \cup Constants \cup {Zero}) BY DEF FormOK
<1>4. /\ Len(f.operands[x]) \in Nat /\ DOMAIN f.operands[x] = 1..Len(f.operands[x])
      /\ Len(ir.operands[x]) \in Nat /\ DOMAIN ir.operands[x] = 1..Len(ir.operands[x])
  BY <1>2, <1>3
<1>5. Len(f.operands[x]) = Len(ir.operands[x])
  <2>1. \A m, n \in Nat : 1..m = 1..n => m = n
    <3> SUFFICES ASSUME NEW m \in Nat, NEW n \in Nat, 1..m = 1..n, m < n PROVE FALSE
      OBVIOUS
    <3>1. n \in 1..n /\ n \notin 1..m OBVIOUS
    <3> QED BY <3>1
  <2> QED BY <1>1, <1>4, <2>1
<1> QED BY <1>4, <1>5

\* Values in the old execution stay when the new one moves.
LEMMA NewKeepsOld ==
  ASSUME env0' = env0
  PROVE  /\ \A v : V0(v)' = V0(v)
         /\ f' = f => \A b, h : V0(StoredAt(b, h))' = V0(StoredAt(b, h)) /\ AddressAt(b, h)' = AddressAt(b, h)
         /\ f' = f => \A x : Operation(x)' = Operation(x)
<1>1. \A v : V0(v)' = V0(v) BY DEF V0, Before!Value, Before!Kind
<1>2. f' = f => \A b, h : V0(StoredAt(b, h))' = V0(StoredAt(b, h)) /\ AddressAt(b, h)' = AddressAt(b, h)
  BY DEF V0, Before!Value, Before!Kind, StoredAt, AddressAt
<1>3. ASSUME f' = f, NEW x PROVE Operation(x)' = Operation(x)
  <2>1. OpOf(x)' = OpOf(x) BY <1>3 DEF OpOf, FromBit, InstrsIn
  <2>2. [k \in 1..Len(f.operands[x]) |-> V0(f.operands[x][k])]' = [k \in 1..Len(f.operands[x]) |-> V0(f.operands[x][k])]
    BY <1>3 DEF V0, Before!Value, Before!Kind
  <2> QED BY <2>1, <2>2 DEF Operation
<1> QED BY <1>1, <1>2, <1>3

LEMMA NewMoves ==
  ASSUME IInv, FormOK, pc = "done", NEW rho, SubstOK(rho), Running(rho), Waits0,
         UNCHANGED <<pass, bb0, old>>, line1 \in DOMAIN ir.code[bb0],
         NEW x, x = ir.code[bb0][line1], x[1] \in {"op", "load", "store"}, line1' = line1 + 1,
         DOMAIN env1' = DOMAIN env1, DOMAIN mem1' = DOMAIN mem1, \A v \in Slots(f) \ {x} : env1'[v] = env1[v],
         x[1] = "store" => env1' = env1, x[1] # "store" => env1'[x] = env0[x]
  PROVE  EnvOK' /\ LagOK' /\ ValueOK(rho)' /\ AgreeOK' /\ ComputedOK' /\ KeptOK'
<1>1. /\ f \in Functions /\ bb0 \in Blocks(f) /\ bb0 \in Block /\ line0 \in Nat \ {0} /\ line1 \in Nat \ {0} /\ EnvOK /\ LagOK
      /\ \A i \in DOMAIN f.code[bb0] : i \in Nat
  <2>1. f \in Functions /\ EnvOK /\ LagOK BY DEF IInv, Running
  <2>2. bb0 \in Blocks(f) /\ line0 \in Nat \ {0} /\ line1 \in Nat \ {0} BY <2>1 DEF EnvOK
  <2> QED BY <2>1, <2>2, Graph, Lists
<1>2. /\ f' = f /\ ir' = ir /\ delete_list' = delete_list /\ bb0' = bb0
      /\ line0' = line0 /\ env0' = env0 /\ mem0' = mem0
  BY DEF pass, old
<1>3. PICK i \in DOMAIN f.code[bb0] : Same(bb0, line1, i) /\ Pending(i) /\ f.code[bb0][i] = x /\ i <= line0 /\ i # line0
  BY <1>1, NewPlace
<1>4. /\ \A h \in DOMAIN f.code[bb0] : Pending(h)' <=> Pending(h) /\ h # i
      /\ \A y : Lags(y)' => Lags(y)
      /\ \A y : Lags(y) /\ ~Lags(y)' => y = x
  BY <1>1, <1>2, <1>3, NewPending
<1>5. EnvOK'
  <2>1. Blocks(f)' = Blocks(f) /\ line1' \in Nat \ {0} BY <1>1, <1>2
  <2> QED BY <1>1, <1>2, <2>1, FixedRun DEF EnvOK
<1>6. LagOK'
  <2>1. ASSUME NEW h \in DOMAIN f.code[bb0], NEW m \in DOMAIN ir.code[bb0], line0 <= h, Same(bb0, m, h)
        PROVE  line1 + 1 <= m
    <3>1. line1 <= m BY <1>1, <2>1 DEF LagOK
    <3>2. h # i BY <1>1, <1>3, <2>1
    <3>3. m # line1
      <4>1. f.code[bb0][h] # f.code[bb0][i] BY <1>1, <3>2, Places
      <4>2. ir.code[bb0][m] = f.code[bb0][h] /\ ir.code[bb0][line1] = f.code[bb0][i] BY <1>3, <2>1 DEF Same
      <4> QED BY <4>1, <4>2
    <3>4. m \in Nat BY <1>1, Aligned
    <3> QED BY <1>1, <3>1, <3>3, <3>4
  <2> QED BY <1>1, <1>2, <1>4, <2>1, FixedRun DEF LagOK
<1>7. ValueOK(rho)'
  <2>1. \A y : Precedes(y, bb0, line0)' => Precedes(y, bb0, line0) BY <1>2 DEF Precedes
  <2>2. \A y \in delete_list : V0(y)' = V0(y) /\ V0(rho[y])' = V0(rho[y]) BY <1>2, NewKeepsOld
  <2> QED BY <1>2, <2>1, <2>2 DEF ValueOK, Running
<1>8. AgreeOK'
  <2> SUFFICES ASSUME NEW y \in Slots(f) \ delete_list, Lags(y)' => y[1] = "store" PROVE env1'[y] = env0[y]
    BY <1>2, FixedRun DEF AgreeOK
  <2>1. CASE y = x /\ x[1] # "store" BY <2>1
  <2>2. CASE ~(y = x /\ x[1] # "store")
    <3>1. (Lags(y) => y[1] = "store") BY <1>4, <2>2
    <3>2. env1[y] = env0[y] BY <3>1 DEF Running, AgreeOK
    <3>3. env1'[y] = env1[y] BY <2>2
    <3> QED BY <3>2, <3>3
  <2> QED BY <2>1, <2>2
<1>9. ComputedOK'
  <2>1. \A y : Operation(y)' = Operation(y) BY <1>2, NewKeepsOld
  <2>2. \A h : Operation(f.code[bb0][h])' = Operation(f.code[bb0][h])
    BY <1>2 DEF Operation, OpOf, FromBit, InstrsIn, V0, Before!Value, Before!Kind
  <2> QED BY <1>2, <1>4, <2>2 DEF ComputedOK, Running
<1>10. KeptOK'
  <2>1. \A b, h, k : Fresh(b, h, k)' <=> Fresh(b, h, k) BY <1>2, SameStatic
  <2>2. \A h : V0(StoredAt(bb0, h))' = V0(StoredAt(bb0, h)) /\ AddressAt(bb0, h)' = AddressAt(bb0, h)
    BY <1>2 DEF V0, Before!Value, Before!Kind, StoredAt, AddressAt
  <2> QED BY <1>2, <2>1, <2>2 DEF KeptOK, Running
<1> QED BY <1>5, <1>6, <1>7, <1>8, <1>9, <1>10

\* What pending stores will have stored, when the new execution has executed x.
LEMMA NewSees ==
  ASSUME IInv, FormOK, pc = "done", EnvOK, UNCHANGED <<pass, bb0, old>>, line1' = line1 + 1,
         NEW i \in DOMAIN f.code[bb0], Same(bb0, line1, i), Pending(i),
         \A h \in DOMAIN f.code[bb0] : Pending(h) => i <= h,
         NEW x, x = f.code[bb0][i],
         IF x[1] = "store" THEN \A a \in Cells(f) : mem1'[a] = IF a = f.operands[x][2] THEN V0(StoredAt(bb0, i)) ELSE mem1[a]
         ELSE mem1' = mem1
  PROVE  \A n : \A a \in Cells(f) : \A k \in Nat : i < k /\ Sees(n, a, k) => Sees(n, a, k)'
<1>1. /\ f \in Functions /\ bb0 \in Block /\ i \in Nat
      /\ DOMAIN f.code[bb0] = 1..Len(f.code[bb0]) /\ Len(f.code[bb0]) \in Nat
  <2>1. f \in Functions /\ bb0 \in Block BY Graph DEF IInv, EnvOK
  <2> QED BY <2>1, Lists
<1>2. f' = f /\ ir' = ir /\ bb0' = bb0 /\ line0' = line0 /\ env0' = env0 BY DEF pass, old
<1>3. \A h \in DOMAIN f.code[bb0] : Pending(h)' <=> Pending(h) /\ h # i BY <1>2, NewPending
<1>4. \A h : Pending(h) => h \in DOMAIN f.code[bb0] BY DEF Pending, Same
<1>5. \A h : Pending(h)' => h \in DOMAIN f.code[bb0] BY <1>2 DEF Pending, Same
<1>6. \A h, a : StorePending(h, a)' <=> StorePending(h, a) /\ h # i
  BY <1>2, <1>3, <1>4, <1>5 DEF StorePending
<1>7. \A h : V0(StoredAt(bb0, h))' = V0(StoredAt(bb0, h))
  BY <1>2 DEF V0, Before!Value, Before!Kind, StoredAt
<1>8. \A a : StorePending(i, a) <=> x[1] = "store" /\ f.operands[x][2] = a BY DEF StorePending
<1>9. \A h, a : StorePending(h, a) => h \in Nat /\ i <= h BY <1>1, <1>4 DEF StorePending
<1> SUFFICES ASSUME NEW n, NEW a \in Cells(f), NEW k \in Nat, i < k, Sees(n, a, k) PROVE Sees(n, a, k)'
  OBVIOUS
<1>10. CASE ~StorePending(i, a)
  <2>1. \A h : StorePending(h, a)' <=> StorePending(h, a) BY <1>6, <1>10
  <2>2. mem1'[a] = mem1[a] BY <1>8, <1>10
  <2>3. CASE n = mem1[a] /\ \A h \in 1..(k - 1) : ~StorePending(h, a)
    BY <2>1, <2>2, <2>3 DEF Sees
  <2>4. CASE \E h \in 1..(k - 1) : /\ StorePending(h, a) /\ n = V0(StoredAt(bb0, h))
                                   /\ \A g \in (h + 1)..(k - 1) : ~StorePending(g, a)
    <3>1. PICK h \in 1..(k - 1) : /\ StorePending(h, a) /\ n = V0(StoredAt(bb0, h))
                                  /\ \A g \in (h + 1)..(k - 1) : ~StorePending(g, a)
      BY <2>4
    <3>2. n = V0(StoredAt(bb0, h))' BY <1>7, <3>1
    <3> QED BY <2>1, <3>1, <3>2 DEF Sees
  <2> QED BY <2>3, <2>4 DEF Sees
<1>11. CASE StorePending(i, a)
  <2>1. mem1'[a] = V0(StoredAt(bb0, i)) BY <1>8, <1>11
  <2>2. i \in 1..(k - 1) BY <1>1
  <2>3. PICK h \in 1..(k - 1) : /\ StorePending(h, a) /\ n = V0(StoredAt(bb0, h))
                                /\ \A g \in (h + 1)..(k - 1) : ~StorePending(g, a)
    BY <1>11, <2>2 DEF Sees
  <2>4. CASE h = i
    <3>1. ASSUME NEW g \in 1..(k - 1), g # i PROVE ~StorePending(g, a)
      <4>1. g < i \/ g \in (i + 1)..(k - 1) BY <1>1, <3>1
      <4>2. g < i => ~StorePending(g, a) BY <1>1, <1>9
      <4> QED BY <2>3, <2>4, <4>1, <4>2
    <3>2. \A g \in 1..(k - 1) : ~StorePending(g, a)' BY <1>6, <3>1
    <3>3. n = mem1'[a] BY <2>1, <2>3, <2>4
    <3> QED BY <3>2, <3>3 DEF Sees
  <2>5. CASE h # i
    <3>1. StorePending(h, a)' /\ \A g \in (h + 1)..(k - 1) : ~StorePending(g, a)' BY <1>6, <2>3, <2>5
    <3>2. n = V0(StoredAt(bb0, h))' BY <1>7, <2>3
    <3> QED BY <3>1, <3>2 DEF Sees
  <2> QED BY <2>4, <2>5
<1> QED BY <1>10, <1>11

\* What the new execution does next is instruction i; its memory is as it should be afterwards.
LEMMA NewMemory ==
  ASSUME IInv, FormOK, pc = "done", NEW rho, SubstOK(rho), Running(rho), Waits0,
         UNCHANGED <<pass, bb0, old>>, line1' = line1 + 1,
         NEW i \in DOMAIN f.code[bb0], Same(bb0, line1, i), Pending(i),
         \A h \in DOMAIN f.code[bb0] : Pending(h) => i <= h,
         NEW x, x = f.code[bb0][i],
         IF x[1] = "store" THEN \A a \in Cells(f) : mem1'[a] = IF a = f.operands[x][2] THEN V0(StoredAt(bb0, i)) ELSE mem1[a]
         ELSE mem1' = mem1
  PROVE  MemoryOK'
<1>1. /\ f \in Functions /\ bb0 \in Block /\ line0 \in Nat /\ EnvOK /\ MemoryOK
      /\ \A h \in DOMAIN f.code[bb0] : h \in Nat
  <2>1. f \in Functions /\ EnvOK /\ MemoryOK BY DEF IInv, Running
  <2>2. bb0 \in Block /\ line0 \in Nat BY <2>1, Graph DEF EnvOK
  <2> QED BY <2>1, <2>2, Lists
<1>2. f' = f /\ ir' = ir /\ bb0' = bb0 /\ line0' = line0 /\ env0' = env0 /\ mem0' = mem0 BY DEF pass, old
<1>3. \A n : \A a \in Cells(f) : \A k \in Nat : i < k /\ Sees(n, a, k) => Sees(n, a, k)' BY <1>1, NewSees
<1>4. i < line0 BY DEF Pending
<1>5. ASSUME NEW a \in Cells(f) PROVE Sees(mem0[a], a, line0)'
  <2>1. PICK n, l : n = mem0[a] /\ l = line0 OBVIOUS
  <2>2. Sees(n, a, l)' BY <1>1, <1>3, <1>4, <2>1 DEF MemoryOK
  <2>3. mem0'[a] = n /\ line0' = l BY <1>2, <2>1
  <2> QED BY <2>2, <2>3 DEF Sees
<1>6. ASSUME NEW k \in DOMAIN f.code[bb0], Pending(k)', f.code[bb0][k][1] = "load"
      PROVE  Sees(env0[f.code[bb0][k]], AddressAt(bb0, k), k)'
  <2>1. Pending(k) /\ k # i BY <1>1, <1>2, <1>6, NewPending
  <2>2. i < k /\ k \in Nat BY <1>1, <2>1
  <2>3. PICK n, a : n = env0[f.code[bb0][k]] /\ a = AddressAt(bb0, k) OBVIOUS
  <2>6. a \in Cells(f) BY <1>1, <1>6, <2>3, LoadReads DEF EnvOK
  <2>4. Sees(n, a, k)' BY <1>1, <1>3, <1>6, <2>1, <2>2, <2>3, <2>6 DEF MemoryOK
  <2>5. AddressAt(bb0, k)' = a /\ env0'[f'.code[bb0'][k]] = n BY <1>2, <2>3 DEF AddressAt
  <2> QED BY <2>3, <2>4, <2>5 DEF Sees
<1> QED BY <1>2, <1>5, <1>6, FixedRun DEF MemoryOK

LEMMA NewOp ==
  ASSUME IInv, FormOK, pc = "done", NEW rho, SubstOK(rho), Running(rho), Waits0, UNCHANGED <<pass, bb0, old>>,
         After!Op, env1'[After!instr] = Result(OpOf(After!instr), seen1'[2])
  PROVE  Running(rho)'
<1>1. f \in Functions /\ bb0 \in Blocks(f) /\ bb0 \in Block /\ line1 \in Nat \ {0} /\ EnvOK /\ LagOK
  <2>1. f \in Functions /\ EnvOK /\ LagOK BY DEF IInv, Running
  <2>2. bb0 \in Blocks(f) /\ line1 \in Nat \ {0} BY <2>1 DEF EnvOK
  <2> QED BY <2>1, <2>2, Graph
<1>2. PICK x : x = ir.code[bb0][line1] OBVIOUS
<1>3. /\ line1 <= Len(ir.code[bb0]) /\ x[1] = "op" /\ line1' = line1 + 1 /\ mem1' = mem1
      /\ seen1'[2] = [k \in 1..Len(ir.operands[x]) |-> V1(ir.operands[x][k])]
      /\ \E d : env1' = [env1 EXCEPT ![x] = d]
      /\ env1'[x] = Result(OpOf(x), seen1'[2])
  BY <1>2 DEF After!Op, After!Computes, After!Executes, After!Observed, After!instr, After!rand,
              After!Kind, V1
<1>4. line1 \in DOMAIN ir.code[bb0]
  <2>1. Len(ir.code[bb0]) \in Nat /\ DOMAIN ir.code[bb0] = 1..Len(ir.code[bb0]) BY <1>1, Aligned
  <2> QED BY <1>1, <1>3, <2>1
<1>5. PICK i \in DOMAIN f.code[bb0] :
        /\ Same(bb0, line1, i) /\ Pending(i) /\ f.code[bb0][i] = x
        /\ \A h \in DOMAIN f.code[bb0] : Pending(h) => i <= h
        /\ i <= line0 /\ i # line0
  BY <1>1, <1>2, <1>3, <1>4, NewPlace
<1>6. x \in InstrsIn(f) /\ x \in InstrsIn(ir) /\ x \in Slots(f)
  <2>1. x \in InstrsIn(f) /\ x \in InstrsIn(ir) BY <1>1, <1>5, Lists, Aligned
  <2> QED BY <1>1, <2>1, InSlots
<1>7. DOMAIN env1' = DOMAIN env1 /\ \A v \in Slots(f) \ {x} : env1'[v] = env1[v]
  BY <1>1, <1>3 DEF EnvOK
<1>8. env1'[x] = env0[x]
  <2>1. env0[x] = Operation(x) BY <1>3, <1>5 DEF Running, ComputedOK
  <2>2. /\ Len(ir.operands[x]) = Len(f.operands[x]) /\ DOMAIN f.operands[x] = 1..Len(f.operands[x])
    BY <1>6, SameLen
  <2>3. ASSUME NEW k \in DOMAIN f.operands[x] PROVE V1(ir.operands[x][k]) = V0(f.operands[x][k])
    <3>1. ~IsAddress(x, k) BY <1>3 DEF IsAddress
    <3>2. IsLike(f.operands[x][k]) /\ Precedes(f.operands[x][k], bb0, i)
      BY <1>1, <1>3, <1>5, <3>1, ReadsLike
    <3>3. ir.operands[x][k] = Sub(rho, f.operands[x][k]) BY <1>6 DEF SubstOK
    <3>4. V1(Sub(rho, f.operands[x][k])) = V0(f.operands[x][k]) BY <1>5, <3>2, NewReads
    <3> QED BY <3>3, <3>4
  <2>4. [k \in 1..Len(ir.operands[x]) |-> V1(ir.operands[x][k])] = [k \in 1..Len(f.operands[x]) |-> V0(f.operands[x][k])]
    BY <2>2, <2>3
  <2> QED BY <1>3, <2>1, <2>4 DEF Operation
<1>9. EnvOK' /\ LagOK' /\ ValueOK(rho)' /\ AgreeOK' /\ ComputedOK' /\ KeptOK'
  BY <1>2, <1>3, <1>4, <1>7, <1>8, NewMoves
<1>10. MemoryOK' BY <1>3, <1>5, NewMemory
<1> QED BY <1>9, <1>10 DEF Running

LEMMA NewLoad ==
  ASSUME IInv, FormOK, pc = "done", NEW rho, SubstOK(rho), Running(rho), Waits0, UNCHANGED <<pass, bb0, old>>,
         After!Load
  PROVE  Running(rho)'
<1>1. f \in Functions /\ bb0 \in Blocks(f) /\ bb0 \in Block /\ line1 \in Nat \ {0} /\ EnvOK /\ LagOK
  <2>1. f \in Functions /\ EnvOK /\ LagOK BY DEF IInv, Running
  <2>2. bb0 \in Blocks(f) /\ line1 \in Nat \ {0} BY <2>1 DEF EnvOK
  <2> QED BY <2>1, <2>2, Graph
<1>2. PICK x : x = ir.code[bb0][line1] OBVIOUS
<1>3. /\ line1 <= Len(ir.code[bb0]) /\ x[1] = "load" /\ line1' = line1 + 1 /\ mem1' = mem1
      /\ env1' = [env1 EXCEPT ![x] = mem1[ir.operands[x][1]]]
  BY <1>2 DEF After!Load, After!Executes, After!instr, After!rand, After!Kind
<1>4. line1 \in DOMAIN ir.code[bb0]
  <2>1. Len(ir.code[bb0]) \in Nat /\ DOMAIN ir.code[bb0] = 1..Len(ir.code[bb0]) BY <1>1, Aligned
  <2> QED BY <1>1, <1>3, <2>1
<1>5. PICK i \in DOMAIN f.code[bb0] :
        /\ Same(bb0, line1, i) /\ Pending(i) /\ f.code[bb0][i] = x
        /\ \A h \in DOMAIN f.code[bb0] : Pending(h) => i <= h
        /\ i <= line0 /\ i # line0
  BY <1>1, <1>2, <1>3, <1>4, NewPlace
<1>6. x \in InstrsIn(f) /\ x \in InstrsIn(ir) /\ x \in Slots(f)
  <2>1. x \in InstrsIn(f) /\ x \in InstrsIn(ir) BY <1>1, <1>5, Lists, Aligned
  <2> QED BY <1>1, <2>1, InSlots
<1>7. DOMAIN env1' = DOMAIN env1 /\ \A v \in Slots(f) \ {x} : env1'[v] = env1[v]
  BY <1>1, <1>3 DEF EnvOK
<1>8. env1'[x] = env0[x]
  <2>1. PICK a : a = AddressAt(bb0, i) OBVIOUS
  <2>2. a \in Cells(f) /\ DOMAIN f.operands[x] = 1..1 BY <1>1, <1>3, <1>5, <2>1, LoadReads
  <2>3. ir.operands[x][1] = a
    <3>1. ir.operands[x][1] = Sub(rho, f.operands[x][1]) BY <1>6, <2>2 DEF SubstOK
    <3>2. f.operands[x][1] = a BY <1>5, <2>1 DEF AddressAt
    <3>3. a \notin InstrsIn(f) BY <1>1, <2>2, NotInstr DEF Cells
    <3> QED BY <3>1, <3>2, <3>3 DEF Sub
  <2>4. Sees(env0[x], a, i) BY <1>3, <1>5, <2>1 DEF Running, MemoryOK
  <2>5. \A h \in 1..(i - 1) : ~StorePending(h, a)
    <3>1. i \in Nat BY <1>1, Lists
    <3>2. \A h : StorePending(h, a) => h \in DOMAIN f.code[bb0] /\ Pending(h) BY DEF StorePending, Pending, Same
    <3>3. \A h \in 1..(i - 1) : ~(i <= h) BY <3>1
    <3> QED BY <1>5, <3>2, <3>3
  <2>6. env0[x] = mem1[a] BY <2>4, <2>5 DEF Sees
  <2>7. env1'[x] = mem1[a] BY <1>1, <1>3, <1>6, <2>3 DEF EnvOK
  <2> QED BY <2>6, <2>7
<1>9. EnvOK' /\ LagOK' /\ ValueOK(rho)' /\ AgreeOK' /\ ComputedOK' /\ KeptOK'
  BY <1>2, <1>3, <1>4, <1>7, <1>8, NewMoves
<1>10. MemoryOK' BY <1>3, <1>5, NewMemory
<1> QED BY <1>9, <1>10 DEF Running

LEMMA NewStore ==
  ASSUME IInv, FormOK, pc = "done", NEW rho, SubstOK(rho), Running(rho), Waits0, UNCHANGED <<pass, bb0, old>>,
         After!Store
  PROVE  Running(rho)'
<1>1. f \in Functions /\ bb0 \in Blocks(f) /\ bb0 \in Block /\ line1 \in Nat \ {0} /\ EnvOK /\ LagOK
  <2>1. f \in Functions /\ EnvOK /\ LagOK BY DEF IInv, Running
  <2>2. bb0 \in Blocks(f) /\ line1 \in Nat \ {0} BY <2>1 DEF EnvOK
  <2> QED BY <2>1, <2>2, Graph
<1>2. PICK x : x = ir.code[bb0][line1] OBVIOUS
<1>3. /\ line1 <= Len(ir.code[bb0]) /\ x[1] = "store" /\ line1' = line1 + 1 /\ env1' = env1
      /\ mem1' = [mem1 EXCEPT ![ir.operands[x][2]] = V1(ir.operands[x][1])]
  BY <1>2 DEF After!Store, After!Executes, After!instr, After!rand, After!Kind, V1
<1>4. line1 \in DOMAIN ir.code[bb0]
  <2>1. Len(ir.code[bb0]) \in Nat /\ DOMAIN ir.code[bb0] = 1..Len(ir.code[bb0]) BY <1>1, Aligned
  <2> QED BY <1>1, <1>3, <2>1
<1>5. PICK i \in DOMAIN f.code[bb0] :
        /\ Same(bb0, line1, i) /\ Pending(i) /\ f.code[bb0][i] = x
        /\ \A h \in DOMAIN f.code[bb0] : Pending(h) => i <= h
        /\ i <= line0 /\ i # line0
  BY <1>1, <1>2, <1>3, <1>4, NewPlace
<1>6. x \in InstrsIn(f) /\ x \in InstrsIn(ir) BY <1>1, <1>5, Lists, Aligned
<1>7. PICK c : c = f.operands[x][2] OBVIOUS
<1>8. /\ IsLike(StoredAt(bb0, i)) /\ Precedes(StoredAt(bb0, i), bb0, i)
      /\ c \in Cells(f) /\ {1, 2} \subseteq DOMAIN f.operands[x]
  BY <1>1, <1>3, <1>5, <1>7, StoreReads
<1>9. ir.operands[x][2] = c
  <2>1. ir.operands[x][2] = Sub(rho, c) BY <1>6, <1>7, <1>8 DEF SubstOK
  <2>2. c \notin InstrsIn(f) BY <1>1, <1>8, NotInstr DEF Cells
  <2> QED BY <2>1, <2>2 DEF Sub
<1>10. V1(ir.operands[x][1]) = V0(StoredAt(bb0, i))
  <2>1. StoredAt(bb0, i) = f.operands[x][1] BY <1>5 DEF StoredAt
  <2>2. ir.operands[x][1] = Sub(rho, StoredAt(bb0, i)) BY <1>6, <1>8, <2>1 DEF SubstOK
  <2>3. V1(Sub(rho, StoredAt(bb0, i))) = V0(StoredAt(bb0, i)) BY <1>5, <1>8, NewReads
  <2> QED BY <2>2, <2>3
<1>11. DOMAIN mem1' = DOMAIN mem1 /\ \A a \in Cells(f) : mem1'[a] = IF a = c THEN V0(StoredAt(bb0, i)) ELSE mem1[a]
  BY <1>1, <1>3, <1>9, <1>10 DEF EnvOK
<1>12. EnvOK' /\ LagOK' /\ ValueOK(rho)' /\ AgreeOK' /\ ComputedOK' /\ KeptOK'
  BY <1>2, <1>3, <1>4, <1>11, NewMoves
<1>13. MemoryOK' BY <1>3, <1>5, <1>7, <1>11, NewMemory
<1> QED BY <1>12, <1>13 DEF Running

\* Where both wait they have come to the same instruction, and nothing is pending.
LEMMA Meeting ==
  ASSUME IInv, FormOK, pc = "done", NEW rho, SubstOK(rho), Running(rho), Waits0, Waits1
  PROVE  /\ line0 \in DOMAIN f.code[bb0] /\ line1 \in DOMAIN ir.code[bb0] /\ Same(bb0, line1, line0)
         /\ f.code[bb0][line0][1] \in {"call", "br", "ret"} /\ f.code[bb0][line0] \notin delete_list
         /\ \A h : ~Pending(h)
         /\ \A y \in Slots(f) \ delete_list : env1[y] = env0[y]
         /\ \A a \in Cells(f) : mem0[a] = mem1[a]
<1>1. /\ f \in Functions /\ bb0 \in Block /\ line0 \in Nat \ {0} /\ line1 \in Nat \ {0} /\ LagOK
      /\ DOMAIN f.code[bb0] = 1..Len(f.code[bb0]) /\ Len(f.code[bb0]) \in Nat
      /\ DOMAIN ir.code[bb0] = 1..Len(ir.code[bb0]) /\ Len(ir.code[bb0]) \in Nat
  <2>1. f \in Functions /\ LagOK /\ EnvOK BY DEF IInv, Running
  <2>2. bb0 \in Block /\ line0 \in Nat \ {0} /\ line1 \in Nat \ {0} BY <2>1, Graph DEF EnvOK
  <2>3. DOMAIN f.code[bb0] = 1..Len(f.code[bb0]) /\ Len(f.code[bb0]) \in Nat BY <2>1, <2>2, Lists
  <2>4. DOMAIN ir.code[bb0] = 1..Len(ir.code[bb0]) /\ Len(ir.code[bb0]) \in Nat BY <2>1, <2>2, Aligned
  <2> QED BY <2>1, <2>2, <2>3, <2>4
<1>2. PICK x, y : x = f.code[bb0][line0] /\ y = ir.code[bb0][line1] OBVIOUS
<1>3. line0 <= Len(f.code[bb0]) /\ x[1] \in {"call", "br", "ret"}
  BY <1>2 DEF Waits0, Stops, Before!Executes, Before!instr, Before!Kind
<1>4. line1 <= Len(ir.code[bb0]) /\ y[1] \in {"call", "br", "ret"}
  BY <1>2 DEF Waits1, Stops, After!Executes, After!instr, After!Kind
<1>5. line0 \in DOMAIN f.code[bb0] /\ line1 \in DOMAIN ir.code[bb0] /\ x \notin delete_list
  BY <1>1, <1>3, <1>4, DeletedKinds
<1>6. PICK n \in DOMAIN ir.code[bb0] : Same(bb0, n, line0) BY <1>1, <1>2, <1>5, Aligned
<1>7. PICK i \in DOMAIN f.code[bb0] : Same(bb0, line1, i) BY <1>1, <1>5, Aligned
<1>8. line1 <= n
  <2>1. line0 <= line0 BY <1>1
  <2> QED BY <1>1, <1>5, <1>6, <2>1 DEF LagOK
<1>9. ~(i < line0)
  <2> SUFFICES ASSUME i < line0 PROVE FALSE
    OBVIOUS
  <2>1. line1 <= line1 BY <1>1
  <2>2. Pending(i) BY <1>5, <1>7, <2>1 DEF Pending
  <2>3. f.code[bb0][i][1] \in {"op", "load", "store"} BY <1>1, <2>2 DEF LagOK
  <2> QED BY <1>2, <1>4, <1>7, <2>3 DEF Same
<1>10. n = line1
  <2>1. n \in Nat BY <1>1
  <2>2. line1 < n => i < line0 BY <1>1, <1>6, <1>7, Aligned
  <2> QED BY <1>1, <1>8, <1>9, <2>1, <2>2
<1>11. \A h : ~Pending(h)
  <2> SUFFICES ASSUME NEW h, Pending(h) PROVE FALSE
    OBVIOUS
  <2>1. PICK m \in DOMAIN ir.code[bb0] : line1 <= m /\ Same(bb0, m, h) /\ h < line0 BY DEF Pending
  <2>2. h < line0 => m < line1 BY <1>1, <1>6, <1>10, <2>1, Aligned
  <2>3. m \in Nat BY <1>1
  <2> QED BY <1>1, <2>1, <2>2, <2>3
<1>12. \A v \in Slots(f) \ delete_list : env1[v] = env0[v]
  <2>1. \A v : ~Lags(v) BY <1>11 DEF Lags
  <2> QED BY <2>1 DEF Running, AgreeOK
<1>13. \A a \in Cells(f) : mem0[a] = mem1[a]
  <2>1. \A h, a : ~StorePending(h, a) BY <1>11 DEF StorePending
  <2>2. \A a \in Cells(f) : Sees(mem0[a], a, line0) BY DEF Running, MemoryOK
  <2> QED BY <2>1, <2>2 DEF Sees
<1> QED BY <1>2, <1>3, <1>5, <1>6, <1>10, <1>11, <1>12, <1>13

\* The branches of the function as it was.
LEMMA Branches ==
  ASSUME f \in Functions, NEW b \in Blocks(f), NEW j \in DOMAIN f.code[b], f.code[b][j][1] = "br"
  PROVE  j = Len(f.code[b]) /\ IsBranch(f, b, f.code[b][j])
<1>1. IsExecutable(f) BY Executable
<1> QED BY <1>1, Zenon DEF IsExecutable

\* Both read the same there, and the labels are the same.
LEMMA MeetReads ==
  ASSUME IInv, FormOK, pc = "done", NEW rho, SubstOK(rho), Running(rho), Waits0, Waits1,
         NEW x, x = f.code[bb0][line0]
  PROVE  /\ x \in InstrsIn(f) /\ DOMAIN f.operands[x] = 1..Len(f.operands[x])
         /\ Len(f.operands[x]) \in Nat /\ Len(ir.operands[x]) = Len(f.operands[x])
         /\ \A k \in DOMAIN f.operands[x] : f.operands[x][k][1] # "bb" =>
              V1(ir.operands[x][k]) = V0(f.operands[x][k])
         /\ \A k \in DOMAIN f.operands[x] : f.operands[x][k] \in Block =>
              ir.operands[x][k] = f.operands[x][k]
<1>1. /\ f \in Functions /\ bb0 \in Blocks(f) /\ bb0 \in Block /\ EnvOK /\ line0 \in Nat
      /\ line0 \in DOMAIN f.code[bb0] /\ Same(bb0, line1, line0) /\ \A h : ~Pending(h)
      /\ x[1] \in {"call", "br", "ret"}
  <2>1. f \in Functions /\ EnvOK BY DEF IInv, Running
  <2>2. bb0 \in Blocks(f) /\ line0 \in Nat BY <2>1 DEF EnvOK
  <2> QED BY <2>1, <2>2, Graph, Meeting
<1>2. x \in InstrsIn(f) /\ x \in InstrsIn(ir) BY <1>1, Lists, Aligned
<1>3. \A k \in DOMAIN f.operands[x] : ir.operands[x][k] = Sub(rho, f.operands[x][k])
  BY <1>2 DEF SubstOK
<1>4. ASSUME NEW k \in DOMAIN f.operands[x], f.operands[x][k][1] # "bb"
      PROVE  V1(ir.operands[x][k]) = V0(f.operands[x][k])
  <2>1. PICK v : v = f.operands[x][k] OBVIOUS
  <2>2. IsLike(v)
    <3>1. ~IsAddress(x, k) BY <1>1 DEF IsAddress
    <3>2. CASE x[1] = "br"
      <4>1. IsBranch(f, bb0, x) BY <1>1, <3>2, Branches
      <4>2. IsValue(f, v) \/ v \in SuccOf(f, bb0) BY <2>1, <4>1 DEF IsBranch
      <4>3. v \in SuccOf(f, bb0) => v[1] = "bb"
        BY <1>1, Graph, Executable DEF EdgesInside, IsExecutable
      <4> QED BY <1>1, <1>2, <1>4, <2>1, <4>2, <4>3, OperandIsValue
    <3>3. CASE x[1] # "br"
      <4>1. IsValue(f, v) BY <1>1, <1>2, <2>1, <3>1, <3>3, InstrKinds
      <4> QED BY <1>1, <1>2, <2>1, <4>1, OperandIsValue
    <3> QED BY <3>2, <3>3
  <2>3. Precedes(v, bb0, line0) BY <1>1, <2>1, OperandPrecedes
  <2>4. line0 <= line0 BY <1>1
  <2>5. V1(Sub(rho, v)) = V0(v) BY <1>1, <2>2, <2>3, <2>4, NewReads
  <2> QED BY <1>3, <2>1, <2>5
<1>5. ASSUME NEW k \in DOMAIN f.operands[x], f.operands[x][k] \in Block
      PROVE  ir.operands[x][k] = f.operands[x][k]
  <2>1. f.operands[x][k] \notin InstrsIn(f) BY <1>1, <1>5, NotInstr
  <2> QED BY <1>3, <2>1 DEF Sub
<1> QED BY <1>2, <1>4, <1>5, SameLen

\* What is promised where both wait.
LEMMA Met ==
  ASSUME IInv, FormOK, NEW rho, SubstOK(rho), Running(rho), MemoriesOK
  PROVE  SameBehaviour
<1> SUFFICES ASSUME pc = "done", Waits0, Waits1
             PROVE  /\ Before!instr = After!instr
                    /\ mem0 = mem1
                    /\ \A i \in 1..Len(f.operands[Before!instr]) : Before!rand(i)[1] # "bb" =>
                         Before!Value(Before!rand(i)) = After!Value(After!rand(i))
  BY DEF SameBehaviour
<1>1. /\ Same(bb0, line1, line0) /\ \A a \in Cells(f) : mem0[a] = mem1[a]
  BY Meeting
<1>2. PICK x : x = f.code[bb0][line0] OBVIOUS
<1>3. Before!instr = x /\ After!instr = x BY <1>1, <1>2 DEF Before!instr, After!instr, Same
<1>4. mem0 = mem1
  <2>1. PICK D : D = Cells(f) OBVIOUS
  <2>2. mem0 = [a \in D |-> mem0[a]] /\ mem1 = [a \in D |-> mem1[a]] /\ \A a \in D : mem0[a] = mem1[a]
    BY <1>1, <2>1 DEF MemoriesOK
  <2> QED BY <2>2
<1>5. /\ DOMAIN f.operands[x] = 1..Len(f.operands[x])
      /\ \A k \in DOMAIN f.operands[x] : f.operands[x][k][1] # "bb" =>
           V1(ir.operands[x][k]) = V0(f.operands[x][k])
  BY <1>2, MeetReads
<1>6. \A i : /\ Before!rand(i) = f.operands[x][i] /\ After!rand(i) = ir.operands[x][i]
             /\ Before!Value(Before!rand(i)) = V0(f.operands[x][i])
             /\ After!Value(After!rand(i)) = V1(ir.operands[x][i])
  BY <1>3 DEF Before!rand, After!rand, V0, V1
<1> QED BY <1>3, <1>4, <1>5, <1>6

\* Both go on to the next instruction.
LEMMA MeetMoves ==
  ASSUME IInv, FormOK, pc = "done", NEW rho, SubstOK(rho), Running(rho), Waits0, Waits1,
         UNCHANGED <<pass, bb0>>, line0' = line0 + 1, line1' = line1 + 1,
         NEW x, x = f.code[bb0][line0], x[1] \in {"call", "ret"},
         DOMAIN env0' = DOMAIN env0, DOMAIN env1' = DOMAIN env1,
         DOMAIN mem0' = DOMAIN mem0, DOMAIN mem1' = DOMAIN mem1,
         \A v \in Slots(f) \ {x} : env0'[v] = env0[v] /\ env1'[v] = env1[v],
         x \in Slots(f) => env0'[x] = env1'[x],
         \A a \in Cells(f) : mem0'[a] = mem1'[a] /\ ((x[1] = "call" /\ a[1] = "global") \/ mem0'[a] = mem0[a])
  PROVE  Running(rho)'
<1>1. /\ f \in Functions /\ bb0 \in Blocks(f) /\ bb0 \in Block /\ EnvOK /\ line0 \in Nat \ {0} /\ line1 \in Nat \ {0}
      /\ \A i \in DOMAIN f.code[bb0] : i \in Nat
  <2>1. f \in Functions /\ EnvOK BY DEF IInv, Running
  <2>2. bb0 \in Blocks(f) /\ line0 \in Nat \ {0} /\ line1 \in Nat \ {0} BY <2>1 DEF EnvOK
  <2> QED BY <2>1, <2>2, Graph, Lists
<1>2. /\ line0 \in DOMAIN f.code[bb0] /\ line1 \in DOMAIN ir.code[bb0] /\ Same(bb0, line1, line0)
      /\ x \notin delete_list /\ \A h : ~Pending(h)
      /\ \A y \in Slots(f) \ delete_list : env1[y] = env0[y]
  BY Meeting
<1>3. /\ f' = f /\ ir' = ir /\ delete_list' = delete_list /\ bb0' = bb0 BY DEF pass
<1>4. x \in InstrsIn(f) /\ x \in Slots(f)
  <2>1. x \in InstrsIn(f) BY <1>1, <1>2, Lists
  <2> QED BY <1>1, <2>1, InSlots
<1>5. /\ \A v : v # x /\ IsLike(v) => V0(v)' = V0(v)
      /\ \A v : v # x /\ v \in Slots(f) => V0(v)' = V0(v)
      /\ env0'[Zero] = 0 /\ \A n \in (-MaxFloat)..MaxFloat : env0'[<<"fconst", n>>] = n
  BY <1>1, <1>4, OldValues
<1>6. ASSUME NEW m, NEW i, Same(bb0, m, i), line0 + 1 <= i PROVE line1 + 1 <= m
  <2>1. i \in Nat /\ m \in Nat
    <3>1. Len(ir.code[bb0]) \in Nat /\ DOMAIN ir.code[bb0] = 1..Len(ir.code[bb0]) BY <1>1, Aligned
    <3> QED BY <1>1, <1>6, <3>1 DEF Same
  <2>2. line0 < i BY <1>1, <1>6, <2>1
  <2>3. line1 < m BY <1>1, <1>2, <1>6, <2>2, Aligned
  <2> QED BY <1>1, <2>1, <2>3
<1>7. \A h : ~Pending(h)'
  <2> SUFFICES ASSUME NEW h, Pending(h)' PROVE FALSE
    OBVIOUS
  <2>1. PICK m \in DOMAIN ir.code[bb0] : line1 + 1 <= m /\ Same(bb0, m, h) /\ h < line0 + 1
    BY <1>3, FixedRun DEF Pending
  <2>2. h \in Nat /\ m \in Nat
    <3>1. Len(ir.code[bb0]) \in Nat /\ DOMAIN ir.code[bb0] = 1..Len(ir.code[bb0]) BY <1>1, Aligned
    <3> QED BY <1>1, <2>1, <3>1 DEF Same
  <2>3. line1 < m BY <1>1, <2>1, <2>2
  <2>4. line0 < h BY <1>1, <1>2, <2>1, <2>3, Aligned
  <2> QED BY <1>1, <2>1, <2>2, <2>4
<1>8. EnvOK'
  <2>1. Blocks(f)' = Blocks(f) /\ line0' \in Nat \ {0} /\ line1' \in Nat \ {0} BY <1>1, <1>3
  <2> QED BY <1>1, <1>3, <1>5, <2>1, FixedRun DEF EnvOK
<1>9. LagOK' BY <1>3, <1>6, <1>7, FixedRun DEF LagOK
<1>10. ASSUME NEW y \in delete_list, Precedes(y, bb0, line0 + 1) PROVE V0(y)' = V0(rho[y])'
  <2>1. y \in InstrsIn(f) /\ y # x /\ IsLike(rho[y]) BY <1>2, DeletedKinds DEF SubstOK
  <2>2. Precedes(y, bb0, line0) BY <1>1, <1>10, <2>1, BeforeNext
  <2>3. V0(y) = V0(rho[y]) BY <2>2 DEF Running, ValueOK
  <2>4. rho[y] # x
    <3>1. Sub(rho, y) = rho[y] BY <2>1 DEF Sub
    <3>2. Precedes(rho[y], bb0, line0) BY <1>1, <1>2, <2>2, <3>1, SubPrecedes
    <3>3. line0 <= line0 BY <1>1
    <3> QED BY <1>1, <1>2, <3>2, <3>3, BeforeHere
  <2>5. y \in Slots(f) BY <1>1, <2>1, InSlots
  <2> QED BY <1>5, <2>1, <2>3, <2>4, <2>5
<1>11. ValueOK(rho)'
  <2>1. \A y : Precedes(y, bb0, line0)' => Precedes(y, bb0, line0 + 1) BY <1>3, SameStatic DEF Precedes
  <2> QED BY <1>3, <1>10, <2>1 DEF ValueOK
<1>12. AgreeOK'
  <2>1. \A y \in Slots(f) \ delete_list : env1'[y] = env0'[y] BY <1>2, <1>4
  <2> QED BY <1>3, <2>1, FixedRun DEF AgreeOK
<1>13. MemoryOK'
  <2>1. \A h, a : ~StorePending(h, a)' BY <1>7 DEF StorePending
  <2>2. \A a \in Cells(f) : Sees(mem0[a], a, line0)' BY <2>1 DEF Sees
  <2> QED BY <1>3, <1>7, <2>2, FixedRun DEF MemoryOK
<1>14. ComputedOK' BY <1>7 DEF ComputedOK
<1>15. ASSUME NEW k \in DOMAIN f.code[bb0], line0' <= k, f.code[bb0][k][1] = "load", NEW a, a = AddressAt(bb0, k)
       PROVE  /\ \A i \in DOMAIN f.code[bb0] : i < line0' /\ StoredLast(f, bb0, i, k, Key(a)) =>
                   mem0'[a] = V0(StoredAt(bb0, i))'
              /\ Fresh(bb0, k, Key(a)) => mem0'[a] = 0
  <2>1. line0 < k /\ line0 <= k /\ k \in Nat /\ a \in Cells(f) BY <1>1, <1>15, LoadReads
  <2>2. /\ \A i \in DOMAIN f.code[bb0] : i < line0 /\ StoredLast(f, bb0, i, k, Key(a)) =>
             mem0[a] = V0(StoredAt(bb0, i))
        /\ Fresh(bb0, k, Key(a)) => mem0[a] = 0
    BY <1>15, <2>1 DEF Running, KeptOK
  <2>3. ASSUME NEW i \in DOMAIN f.code[bb0], i < line0', StoredLast(f, bb0, i, k, Key(a))
        PROVE  mem0'[a] = V0(StoredAt(bb0, i))'
    <3>1. f.code[bb0][i][1] = "store" BY <2>3 DEF StoredLast, StoresTo
    <3>2. i # line0 BY <3>1
    <3>3. i < line0 /\ i <= line0 /\ i \in Nat BY <1>1, <2>3, <3>2
    <3>4. mem0[a] = V0(StoredAt(bb0, i)) BY <2>2, <2>3, <3>3
    <3>5. mem0'[a] = mem0[a]
      <4>1. CASE x[1] = "call"
        <5>1. line0 \in (i + 1)..(k - 1) BY <1>1, <2>1, <3>3
        <5>2. Calls(f, bb0, i, k) BY <4>1, <5>1 DEF Calls
        <5>3. a[1] # "global" BY <1>1, <1>15, <2>3, <5>2, LoadIsTrue
        <5> QED BY <2>1, <5>3
      <4>2. CASE x[1] # "call" BY <2>1, <4>2
      <4> QED BY <4>1, <4>2
    <3>6. V0(StoredAt(bb0, i))' = V0(StoredAt(bb0, i))
      <4>1. PICK v : v = StoredAt(bb0, i) OBVIOUS
      <4>2. IsLike(v) /\ v # x BY <1>1, <1>2, <3>1, <3>3, <4>1, StoreReads
      <4>3. V0(v)' = V0(v) BY <1>5, <4>2
      <4>4. V0(StoredAt(bb0, i))' = V0(v)' BY <1>3, <4>1 DEF V0, Before!Value, Before!Kind, StoredAt
      <4> QED BY <4>1, <4>3, <4>4
    <3> QED BY <3>4, <3>5, <3>6
  <2>4. ASSUME Fresh(bb0, k, Key(a)) PROVE mem0'[a] = 0
    <3>1. a[1] = "global" /\ ~Calls(f, bb0, 0, k) BY <1>1, <1>15, <2>4, LoadIsTrue
    <3>2. line0 \in (0 + 1)..(k - 1) BY <1>1, <2>1
    <3>3. x[1] # "call" BY <3>1, <3>2 DEF Calls
    <3>4. mem0'[a] = mem0[a] BY <2>1, <3>3
    <3> QED BY <2>2, <2>4, <3>4
  <2> QED BY <2>3, <2>4
<1>16. KeptOK'
  <2>1. \A b, i, k : Fresh(b, i, k)' <=> Fresh(b, i, k) BY <1>3, SameStatic
  <2> SUFFICES ASSUME NEW k \in DOMAIN f.code[bb0], line0' <= k, f.code[bb0][k][1] = "load", NEW a, a = AddressAt(bb0, k)
               PROVE  /\ \A i \in DOMAIN f.code[bb0] : i < line0' /\ StoredLast(f, bb0, i, k, Key(a)) =>
                           mem0'[a] = V0(StoredAt(bb0, i))'
                      /\ Fresh(bb0, k, Key(a)) => mem0'[a] = 0
    BY <1>3, <2>1 DEF KeptOK, AddressAt
  <2> QED BY <1>15
<1> QED BY <1>8, <1>9, <1>11, <1>12, <1>13, <1>14, <1>16 DEF Running

LEMMA CallRuns ==
  ASSUME IInv, FormOK, pc = "done", NEW rho, SubstOK(rho), Running(rho), UNCHANGED pass,
         Before!Executes("call"), After!Executes("call"), CallSame
  PROVE  Running(rho)'
<1>1. Waits0 /\ Waits1 BY DEF Waits0, Waits1, Stops
<1>2. EnvOK BY DEF Running
<1>3. PICK x : x = f.code[bb0][line0] OBVIOUS
<1>4. Before!instr = x /\ After!instr = x /\ x[1] = "call" /\ \A a \in Cells(f) : mem0[a] = mem1[a]
  <2>1. Same(bb0, line1, line0) /\ \A a \in Cells(f) : mem0[a] = mem1[a] BY <1>1, Meeting
  <2>2. f.code[bb0][line0][1] = "call" BY DEF Before!Executes, Before!instr, Before!Kind
  <2> QED BY <1>3, <2>1, <2>2 DEF Before!instr, After!instr, Same
<1>5. PICK d, stored : /\ env0' = [env0 EXCEPT ![x] = d] /\ env1' = [env1 EXCEPT ![x] = d]
                       /\ mem0' = [v \in DOMAIN mem0 |-> IF v \in Globals0 THEN stored[v] ELSE mem0[v]]
                       /\ mem1' = [v \in DOMAIN mem1 |-> IF v \in Globals0 THEN stored[v] ELSE mem1[v]]
  <2>1. PICK d \in Data, stored \in [Globals0 -> Data] :
          /\ env0' = [env0 EXCEPT ![Before!instr] = d] /\ env1' = [env1 EXCEPT ![After!instr] = d]
          /\ mem0' = [v \in DOMAIN mem0 |-> IF v \in Globals0 THEN stored[v] ELSE mem0[v]]
          /\ mem1' = [v \in DOMAIN mem1 |-> IF v \in Globals0 THEN stored[v] ELSE mem1[v]]
    BY DEF CallSame
  <2>2. env0' = [env0 EXCEPT ![x] = d] /\ env1' = [env1 EXCEPT ![x] = d] BY <1>4, <2>1
  <2> QED BY <2>1, <2>2, Zenon
<1>6. /\ UNCHANGED <<pass, bb0>> /\ line0' = line0 + 1 /\ line1' = line1 + 1 BY DEF CallSame
<1>7. /\ DOMAIN env0' = DOMAIN env0 /\ DOMAIN env1' = DOMAIN env1
      /\ \A v \in Slots(f) \ {x} : env0'[v] = env0[v] /\ env1'[v] = env1[v]
      /\ x \in Slots(f) => env0'[x] = env1'[x]
  BY <1>2, <1>5 DEF EnvOK
<1>8. /\ DOMAIN mem0' = DOMAIN mem0 /\ DOMAIN mem1' = DOMAIN mem1
      /\ \A a \in Cells(f) : mem0'[a] = mem1'[a] /\ (a[1] = "global" \/ mem0'[a] = mem0[a])
  <2>1. \A a \in Globals0 : a[1] = "global" BY DEF Globals0
  <2> HIDE DEF Globals0
  <2> QED BY <1>2, <1>4, <1>5, <2>1 DEF EnvOK
<1> QED BY <1>1, <1>3, <1>4, <1>6, <1>7, <1>8, MeetMoves

LEMMA RetRuns ==
  ASSUME IInv, FormOK, pc = "done", NEW rho, SubstOK(rho), Running(rho), UNCHANGED pass,
         Before!Ret, After!Ret
  PROVE  Running(rho)'
<1>1. Waits0 /\ Waits1 BY DEF Before!Ret, After!Ret, Waits0, Waits1, Stops
<1>2. PICK x : x = f.code[bb0][line0] OBVIOUS
<1>3. /\ x[1] = "ret" /\ line0' = line0 + 1 /\ line1' = line1 + 1 /\ UNCHANGED <<bb0, env0, env1, mem0, mem1>>
  BY <1>2 DEF Before!Ret, After!Ret, Before!Executes, Before!instr, Before!Kind
<1>4. /\ x \notin delete_list /\ \A y \in Slots(f) \ delete_list : env1[y] = env0[y]
      /\ \A a \in Cells(f) : mem0[a] = mem1[a]
  BY <1>1, <1>2, Meeting
<1> QED BY <1>1, <1>2, <1>3, <1>4, MeetMoves

\* The phis of a block, for both.
PhisOf(b) == {x \in Range(f.code[b]) : x[1] = "phi"}

LEMMA SameCardinality ==
  \A S : Before!Cardinality(S) = Cardinality(S) /\ After!Cardinality(S) = Cardinality(S)
BY Zenon DEF Before!Cardinality, After!Cardinality, Cardinality

\* The phis of a list that begins with them are as many as there are places for them.
LEMMA PhisFirst ==
  ASSUME NEW S, NEW t \in Seq(S), \A j, m \in DOMAIN t : t[j] = t[m] => j = m,
         \A j, m \in DOMAIN t : m < j /\ t[j][1] = "phi" => t[m][1] = "phi"
  PROVE  /\ Cardinality({x \in Range(t) : x[1] = "phi"}) \in Nat
         /\ \A j \in DOMAIN t : t[j][1] = "phi" <=> j < Cardinality({x \in Range(t) : x[1] = "phi"}) + 1
<1> DEFINE P == {j \in DOMAIN t : t[j][1] = "phi"}
           R == {x \in Range(t) : x[1] = "phi"}
           g == [j \in P |-> t[j]]
<1>1. DOMAIN t = 1..Len(t) /\ Len(t) \in Nat OBVIOUS
<1>2. \A j \in DOMAIN t : j \in Nat \ {0} BY <1>1
<1>3. R = {t[j] : j \in P} BY DEF Range
<1>4. IsFiniteSet(P) /\ Cardinality(P) \in Nat
  <2>1. P \subseteq 1..Len(t) BY <1>1
  <2> HIDE DEF P
  <2>2. IsFiniteSet(1..Len(t)) BY <1>1, FS_Interval
  <2> QED BY <2>1, <2>2, FS_Subset, FS_CardinalityType
<1>5. Cardinality(R) = Cardinality(P)
  <2>1. g \in Bijection(P, R) BY <1>3 DEF Bijection, Injection, Surjection, IsInjective
  <2>2. ExistsBijection(P, R) BY <2>1 DEF ExistsBijection
  <2> HIDE DEF P, R, g
  <2> QED BY <1>4, <2>2, FS_Bijection
<1>6. ASSUME NEW j \in P PROVE j <= Cardinality(P)
  <2>1. 1..j \subseteq P
    <3>1. ASSUME NEW m \in 1..j PROVE m \in P
      <4>1. m \in DOMAIN t BY <1>1
      <4>2. m = j \/ m < j BY <1>2
      <4> QED BY <4>1, <4>2
    <3> QED BY <3>1
  <2>2. j \in Nat /\ 1 \in Int /\ j - 1 + 1 = j BY <1>2
  <2> HIDE DEF P
  <2>3. IsFiniteSet(1..j) /\ Cardinality(1..j) = j BY <2>2, FS_Interval
  <2>4. Cardinality(1..j) <= Cardinality(P) BY <1>4, <2>1, FS_Subset
  <2> QED BY <2>3, <2>4
<1>7. ASSUME NEW j \in DOMAIN t, j \notin P PROVE Cardinality(P) < j
  <2>1. P \subseteq 1..(j - 1)
    <3>1. ASSUME NEW m \in P PROVE m < j
      <4>1. ~(j < m) /\ j # m BY <1>7
      <4> QED BY <1>2, <1>7, <4>1
    <3> QED BY <1>2, <3>1
  <2>2. j \in Nat \ {0} /\ j - 1 \in Nat BY <1>2
  <2> HIDE DEF P
  <2>3. IsFiniteSet(1..(j - 1)) /\ Cardinality(1..(j - 1)) = j - 1 BY <2>2, FS_Interval
  <2>4. Cardinality(P) <= Cardinality(1..(j - 1)) BY <2>1, <2>3, FS_Subset
  <2> QED BY <1>4, <2>2, <2>3, <2>4
<1>8. ASSUME NEW j \in DOMAIN t PROVE t[j][1] = "phi" <=> j < Cardinality(R) + 1
  <2>1. j \in P <=> j <= Cardinality(P)
    <3> HIDE DEF P
    <3>1. j \in Nat BY <1>2
    <3> QED BY <1>4, <1>6, <1>7, <3>1
  <2>2. j \in P <=> t[j][1] = "phi" OBVIOUS
  <2> HIDE DEF P, R
  <2>3. j \in Nat BY <1>2
  <2> QED BY <1>4, <1>5, <2>1, <2>2, <2>3
<1>9. Cardinality(R) \in Nat BY <1>4, <1>5
<1> QED BY <1>8, <1>9

\* They come first in what a block was and in what it is.
LEMMA PhisOfBlock ==
  ASSUME IInv, FormOK, pc = "done", NEW rho, SubstOK(rho), NEW b \in Blocks(f)
  PROVE  /\ Before!Phis(b) = PhisOf(b) /\ After!Phis(b) = PhisOf(b)
         /\ Cardinality(PhisOf(b)) \in Nat
         /\ \A i \in DOMAIN f.code[b] : f.code[b][i][1] = "phi" <=> i < Cardinality(PhisOf(b)) + 1
         /\ \A m \in DOMAIN ir.code[b] : ir.code[b][m][1] = "phi" <=> m < Cardinality(PhisOf(b)) + 1
<1>1. f \in Functions /\ CodeOK /\ b \in Block /\ Left(b) BY Graph DEF IInv, Left
<1>2. Before!Phis(b) = PhisOf(b) BY DEF Before!Phis, Before!Kind, PhisOf, Range
<1>3. {x \in Range(ir.code[b]) : x[1] = "phi"} = PhisOf(b)
  <2>1. Range(ir.code[b]) = Range(f.code[b]) \ delete_list BY <1>1 DEF CodeOK
  <2>2. \A x \in delete_list : x[1] # "phi" BY DeletedKinds
  <2> QED BY <2>1, <2>2 DEF PhisOf
<1>4. After!Phis(b) = PhisOf(b)
  <2>1. {ir.code[b][j] : j \in DOMAIN ir.code[b]} = Range(ir.code[b]) BY DEF Range
  <2> QED BY <1>3, <2>1 DEF After!Phis, After!Kind
<1>5. \A j, m \in DOMAIN f.code[b] : m < j /\ f.code[b][j][1] = "phi" => f.code[b][m][1] = "phi"
  <2>1. \A j \in DOMAIN f.code[b] : f.code[b][j][1] = "phi" => \A i \in 1..(j - 1) : f.code[b][i][1] = "phi"
    BY <1>1, Executable, Zenon DEF IsExecutable
  <2>2. \A j, m \in DOMAIN f.code[b] : m < j => m \in 1..(j - 1) BY <1>1, Lists
  <2> QED BY <2>1, <2>2
<1>6. /\ Cardinality(PhisOf(b)) \in Nat
      /\ \A i \in DOMAIN f.code[b] : f.code[b][i][1] = "phi" <=> i < Cardinality(PhisOf(b)) + 1
  <2>1. PICK t : t = f.code[b] OBVIOUS
  <2>2. t \in Seq(InstrsIn(f))
    <3>1. IsFunction(f) BY <1>1, FunctionsAssumption
    <3>2. f.code \in [Block -> Seq(InstrsIn(f))] BY <3>1, Zenon DEF IsFunction
    <3> QED BY <1>1, <2>1, <3>2
  <2>3. \A j, m \in DOMAIN t : t[j] = t[m] => j = m BY <1>1, <2>1, Places
  <2>4. PhisOf(b) = {x \in Range(t) : x[1] = "phi"} BY <2>1 DEF PhisOf
  <2> QED BY <1>5, <2>1, <2>2, <2>3, <2>4, PhisFirst
<1>7. \A m \in DOMAIN ir.code[b] : ir.code[b][m][1] = "phi" <=> m < Cardinality(PhisOf(b)) + 1
  <2>1. PICK t : t = ir.code[b] OBVIOUS
  <2>2. t \in Seq(InstrsIn(f)) BY <1>1, <2>1 DEF FormOK
  <2>3. \A m \in DOMAIN t : \E i \in DOMAIN f.code[b] : Same(b, m, i) BY <1>1, <2>1, Aligned
  <2>4. \A m, i : Same(b, m, i) => t[m] = f.code[b][i] /\ i \in DOMAIN f.code[b] BY <2>1 DEF Same
  <2>5. ASSUME NEW j \in DOMAIN t, NEW m \in DOMAIN t, t[j] = t[m] PROVE j = m
    <3>1. PICK i \in DOMAIN f.code[b] : Same(b, j, i) BY <2>3
    <3>2. Same(b, m, i) BY <2>1, <2>5, <3>1 DEF Same
    <3> QED BY <1>1, <3>1, <3>2, Aligned
  <2>6. ASSUME NEW j \in DOMAIN t, NEW m \in DOMAIN t, m < j, t[j][1] = "phi" PROVE t[m][1] = "phi"
    <3>1. PICK i \in DOMAIN f.code[b] : Same(b, j, i) BY <2>3
    <3>2. PICK k \in DOMAIN f.code[b] : Same(b, m, k) BY <2>3
    <3>3. k < i BY <1>1, <2>6, <3>1, <3>2, Aligned
    <3> QED BY <1>5, <2>4, <2>6, <3>1, <3>2, <3>3
  <2>7. PhisOf(b) = {x \in Range(t) : x[1] = "phi"} BY <1>3, <2>1
  <2> QED BY <2>1, <2>2, <2>5, <2>6, <2>7, PhisFirst
<1> QED BY <1>2, <1>4, <1>6, <1>7

\* Where a branch goes, and what it does to the phis there.
LEMMA Branched ==
  ASSUME IInv, FormOK, pc = "done", NEW rho, SubstOK(rho), Running(rho),
         Before!Branch, After!Branch, NEW s, s = bb0'
  PROVE  /\ s \in SuccOf(f, bb0) /\ s \in Blocks(f) /\ s \in Block /\ bb0 \in PredsOf(f, s)
         /\ line0 = Len(f.code[bb0]) /\ f.code[bb0][line0][1] = "br"
         /\ line0' = Cardinality(PhisOf(s)) + 1 /\ line1' = line0'
         /\ mem0' = mem0 /\ mem1' = mem1
         /\ \E n : /\ env0' = [v \in DOMAIN env0 |-> IF v \in PhisOf(s) THEN n[v] ELSE env0[v]]
                   /\ \A p \in PhisOf(s) : Before!Incoming(p) # {} => \E v \in Before!Incoming(p) : n[p] = V0(v)
         /\ \E n : /\ env1' = [v \in DOMAIN env1 |-> IF v \in PhisOf(s) THEN n[v] ELSE env1[v]]
                   /\ \A p \in PhisOf(s) : After!Incoming(p) # {} => \E v \in After!Incoming(p) : n[p] = V1(v)
<1>1. PICK x : x = f.code[bb0][line0] OBVIOUS
<1>2. Before!Executes("br") /\ After!Executes("br") /\ Waits0 /\ Waits1
  BY DEF Before!Branch, After!Branch, Waits0, Waits1, Stops
<1>3. /\ f \in Functions /\ bb0 \in Blocks(f) /\ bb0 \in Block /\ line0 \in DOMAIN f.code[bb0] /\ Before!instr = x /\ x[1] = "br"
  <2>1. f \in Functions /\ bb0 \in Blocks(f) BY DEF IInv, Running, EnvOK
  <2>2. line0 \in DOMAIN f.code[bb0] BY <1>2, Meeting
  <2>3. Before!instr = x /\ x[1] = "br" BY <1>1, <1>2 DEF Before!Executes, Before!instr, Before!Kind
  <2> QED BY <2>1, <2>2, <2>3, Graph
<1>4. PICK ops_ : ops_ = f.operands[x] OBVIOUS
<1>5. /\ line0 = Len(f.code[bb0]) /\ Len(ops_) \in {1, 3} /\ DOMAIN ops_ = 1..Len(ops_)
      /\ \A i \in DOMAIN ops_ : IF Len(ops_) = 3 /\ i = 1 THEN IsValue(f, ops_[i]) ELSE ops_[i] \in SuccOf(f, bb0)
  <2>1. line0 = Len(f.code[bb0]) /\ IsBranch(f, bb0, x) BY <1>1, <1>3, Branches
  <2>2. DOMAIN ops_ = 1..Len(ops_) BY <1>1, <1>2, <1>4, MeetReads
  <2> QED BY <1>4, <2>1, <2>2 DEF IsBranch
<1>6. \A i : Before!rand(i) = ops_[i] BY <1>3, <1>4 DEF Before!rand
<1>7. s \in SuccOf(f, bb0)
  <2>1. CASE Len(ops_) = 1
    <3>1. s = ops_[1] /\ 1 \in DOMAIN ops_ BY <1>3, <1>4, <1>5, <1>6, <2>1 DEF Before!Branch
    <3> QED BY <1>5, <2>1, <3>1
  <2>2. CASE Len(ops_) = 3
    <3>1. s = ops_[2] \/ s = ops_[3] BY <1>3, <1>4, <1>6, <2>2 DEF Before!Branch
    <3>2. 2 \in DOMAIN ops_ /\ 3 \in DOMAIN ops_ BY <1>5, <2>2
    <3> QED BY <1>5, <3>1, <3>2
  <2> QED BY <1>5, <2>1, <2>2
<1>8. s \in Blocks(f) /\ s \in Block /\ bb0 \in PredsOf(f, s)
  BY <1>3, <1>7, Graph DEF EdgesInside, PredsOf
<1>9. Before!Phis(s) = PhisOf(s) /\ After!Phis(s) = PhisOf(s) BY <1>8, PhisOfBlock
<1>10. PICK n0 : /\ line0' = Before!First(s) /\ mem0' = mem0
                 /\ env0' = [v \in DOMAIN env0 |-> IF v \in Before!Phis(s) THEN n0[v] ELSE env0[v]]
                 /\ \A p \in Before!Phis(s) :
                      Before!Incoming(p) # {} => \E v \in Before!Incoming(p) : n0[p] = Before!Value(v)
  <2>1. PICK t : t = IF ~(Len(f.operands[Before!instr]) = 3) THEN Before!rand(1)
                     ELSE IF Before!Value(Before!rand(1)) # 0 THEN Before!rand(2) ELSE Before!rand(3)
    OBVIOUS
  <2>2. /\ bb0' = t /\ line0' = Before!First(t) /\ mem0' = mem0
        /\ \E m : /\ env0' = [v \in DOMAIN env0 |-> IF v \in Before!Phis(t) THEN m[v] ELSE env0[v]]
                  /\ \A p \in Before!Phis(t) :
                       Before!Incoming(p) # {} => \E v \in Before!Incoming(p) : m[p] = Before!Value(v)
    BY <2>1 DEF Before!Branch
  <2>3. t = s BY <2>2
  <2> QED BY <2>2, <2>3, Zenon
<1>11. PICK n1 : /\ line1' = After!First(s) /\ mem1' = mem1
                 /\ env1' = [v \in DOMAIN env1 |-> IF v \in After!Phis(s) THEN n1[v] ELSE env1[v]]
                 /\ \A p \in After!Phis(s) :
                      After!Incoming(p) # {} => \E v \in After!Incoming(p) : n1[p] = After!Value(v)
  <2>1. PICK t : t = IF ~(Len(ir.operands[After!instr]) = 3) THEN After!rand(1)
                     ELSE IF After!Value(After!rand(1)) # 0 THEN After!rand(2) ELSE After!rand(3)
    OBVIOUS
  <2>2. /\ bb0' = t /\ line1' = After!First(t) /\ mem1' = mem1
        /\ \E m : /\ env1' = [v \in DOMAIN env1 |-> IF v \in After!Phis(t) THEN m[v] ELSE env1[v]]
                  /\ \A p \in After!Phis(t) :
                       After!Incoming(p) # {} => \E v \in After!Incoming(p) : m[p] = After!Value(v)
    BY <2>1 DEF After!Branch
  <2>3. t = s BY <2>2
  <2> QED BY <2>2, <2>3, Zenon
<1>12. line0' = Cardinality(PhisOf(s)) + 1 /\ line1' = Cardinality(PhisOf(s)) + 1
  BY <1>9, <1>10, <1>11, SameCardinality DEF Before!First, After!First
<1>13. /\ env0' = [v \in DOMAIN env0 |-> IF v \in PhisOf(s) THEN n0[v] ELSE env0[v]]
       /\ \A p \in PhisOf(s) : Before!Incoming(p) # {} => \E v \in Before!Incoming(p) : n0[p] = V0(v)
  BY <1>9, <1>10 DEF V0
<1>14. /\ env1' = [v \in DOMAIN env1 |-> IF v \in PhisOf(s) THEN n1[v] ELSE env1[v]]
       /\ \A p \in PhisOf(s) : After!Incoming(p) # {} => \E v \in After!Incoming(p) : n1[p] = V1(v)
  BY <1>9, <1>11 DEF V1
<1> QED BY <1>1, <1>3, <1>5, <1>7, <1>8, <1>10, <1>11, <1>12, <1>13, <1>14

\* What is available at the end of a block is read alike when both leave it.
LEMMA ReadAtEnd ==
  ASSUME IInv, FormOK, pc = "done", NEW rho, SubstOK(rho), Running(rho), Waits0, Waits1,
         NEW v, IsLike(v), NEW l, l = line0 + 1, Precedes(v, bb0, l)
  PROVE  V1(Sub(rho, v)) = V0(v)
<1>1. /\ f \in Functions /\ bb0 \in Blocks(f) /\ bb0 \in Block /\ line0 \in Nat /\ line0 \in DOMAIN f.code[bb0]
      /\ Same(bb0, line1, line0) /\ \A h : ~Pending(h) /\ f.code[bb0][line0] \notin delete_list
      /\ \A y \in Slots(f) \ delete_list : env1[y] = env0[y]
  <2>1. f \in Functions /\ bb0 \in Blocks(f) /\ line0 \in Nat BY DEF IInv, Running, EnvOK
  <2> QED BY <2>1, Graph, Meeting
<1>2. CASE v = f.code[bb0][line0]
  <2>1. v \in InstrsIn(f) BY <1>1, <1>2, Lists
  <2>2. Sub(rho, v) = v BY <1>1, <1>2, <2>1 DEF Sub, SubstOK
  <2>3. v \in Slots(f) /\ v[1] # "const" BY <1>1, <2>1, InSlots
  <2>4. env1[v] = env0[v] BY <1>1, <1>2, <2>3
  <2> QED BY <2>2, <2>3, <2>4 DEF V0, V1, Before!Value, After!Value, Before!Kind, After!Kind
<1>3. CASE v # f.code[bb0][line0]
  <2>1. Precedes(v, bb0, line0) BY <1>1, <1>3, BeforeNext
  <2>2. line0 <= line0 BY <1>1
  <2> QED BY <1>1, <2>1, <2>2, NewReads
<1> QED BY <1>2, <1>3

\* A phi has one value for the block that is left, and that is the same value for both.
LEMMA PhiReads ==
  ASSUME IInv, FormOK, pc = "done", NEW rho, SubstOK(rho), Running(rho), Waits0, Waits1,
         line0 = Len(f.code[bb0]), NEW s \in Blocks(f), bb0 \in PredsOf(f, s), NEW p \in PhisOf(s)
  PROVE  \E v : /\ Before!Incoming(p) = {v} /\ After!Incoming(p) = {Sub(rho, v)}
                /\ V1(Sub(rho, v)) = V0(v)
<1>1. PICK b, l : b = bb0 /\ l = line0 + 1 OBVIOUS
<1>2. /\ f \in Functions /\ b \in Blocks(f) /\ b \in Block /\ s \in Block /\ CodeOK
  <2>1. f \in Functions /\ bb0 \in Blocks(f) /\ CodeOK BY DEF IInv, Running, EnvOK
  <2> QED BY <1>1, <2>1, Graph
<1>3. PICK j \in DOMAIN f.code[s] : f.code[s][j] = p BY DEF PhisOf, Range
<1>4. p \in InstrsIn(f) /\ p[1] = "phi" /\ p \notin delete_list
  <2>1. p \in InstrsIn(f) /\ p[1] = "phi" BY <1>2, <1>3, Lists DEF PhisOf
  <2> QED BY <2>1, DeletedKinds
<1>5. p \in InstrsIn(ir)
  <2>1. PICK m \in DOMAIN ir.code[s] : Same(s, m, j) BY <1>2, <1>3, <1>4, Aligned
  <2> QED BY <1>2, <1>3, <2>1, Aligned
<1>6. PICK ops0, ops1 : ops0 = f.operands[p] /\ ops1 = ir.operands[p] OBVIOUS
<1>7. IsPhiFor(f, p, b)
  <2>1. \A q \in PredsOf(f, s) : IsPhiFor(f, p, q)
    BY <1>2, <1>3, <1>4, Executable, Zenon DEF IsExecutable
  <2> QED BY <1>1, <2>1
<1>8. PICK i \in DOMAIN ops0 : /\ i > 1 /\ ops0[i] = b /\ IsValue(f, ops0[i - 1])
                               /\ ops0[i - 1] \in InstrsIn(f) => Available(f, ops0[i - 1], b, Len(f.code[b]) + 1)
                               /\ \A k \in DOMAIN ops0 : ops0[k] = b => k = i
  BY <1>6, <1>7 DEF IsPhiFor
<1>9. DOMAIN ops0 = 1..Len(ops0) /\ Len(ops0) \in Nat /\ DOMAIN ops1 = DOMAIN ops0
  BY <1>2, <1>4, <1>6, SameLen DEF CodeOK
<1>10. i - 1 \in DOMAIN ops0 BY <1>8, <1>9
<1>11. PICK v : v = ops0[i - 1] OBVIOUS
<1>12. \A k \in DOMAIN ops0 : ops1[k] = Sub(rho, ops0[k]) BY <1>5, <1>6 DEF SubstOK
<1>13. ASSUME NEW k \in DOMAIN ops0 PROVE ops1[k] = b <=> ops0[k] = b
  <2>1. b \notin InstrsIn(f) /\ b[1] = "bb" BY <1>2, NotInstr, Executable DEF IsExecutable
  <2>2. ~IsLike(b)
    <3>1. \A c \in Constants : c[1] # "bb" BY DEF Constants
    <3>2. Zero[1] # "bb" BY DEF Zero
    <3> QED BY <2>1, <3>1, <3>2 DEF IsLike
  <2>3. CASE ops0[k] \in InstrsIn(f)
    <3>1. PICK w : w = ops0[k] OBVIOUS
    <3>2. IsLike(w) BY <2>3, <3>1 DEF IsLike
    <3>3. IsLike(Sub(rho, w)) BY <1>2, <3>2, SubLike
    <3> QED BY <1>12, <2>1, <2>2, <2>3, <3>1, <3>3
  <2>4. CASE ops0[k] \notin InstrsIn(f) BY <1>12, <2>4 DEF Sub
  <2> QED BY <2>3, <2>4
<1>14. Before!Incoming(p) = {v}
  <2>1. {k \in DOMAIN ops0 : ops0[k] = b} = {i} BY <1>8
  <2> QED BY <1>1, <1>6, <1>11, <2>1 DEF Before!Incoming
<1>15. After!Incoming(p) = {Sub(rho, v)}
  <2>1. {k \in DOMAIN ops1 : ops1[k] = b} = {i} BY <1>8, <1>9, <1>13
  <2>2. ops1[i - 1] = Sub(rho, v) BY <1>10, <1>11, <1>12
  <2> QED BY <1>1, <1>6, <2>1, <2>2 DEF After!Incoming
<1>16. V1(Sub(rho, v)) = V0(v)
  <2>1. v \in ValuesIn(f) /\ IsLike(v) BY <1>2, <1>4, <1>6, <1>8, <1>10, <1>11, OperandIsValue
  <2>2. Precedes(v, bb0, l) BY <1>1, <1>8, <1>11 DEF Precedes
  <2> QED BY <1>1, <2>1, <2>2, ReadAtEnd
<1> QED BY <1>14, <1>15, <1>16

LEMMA BranchValues ==
  ASSUME IInv, FormOK, pc = "done", NEW rho, SubstOK(rho), Running(rho), UNCHANGED pass,
         Before!Branch, After!Branch, NEW s, s = bb0'
  PROVE  /\ DOMAIN env0' = DOMAIN env0 /\ DOMAIN env1' = DOMAIN env1
         /\ \A v \in Slots(f) : v \notin PhisOf(s) => env0'[v] = env0[v] /\ env1'[v] = env1[v]
         /\ \A v \in PhisOf(s) : v \in Slots(f) => env0'[v] = env1'[v]
<1>1. Waits0 /\ Waits1 BY DEF Before!Branch, After!Branch, Waits0, Waits1, Stops
<1>2. s \in Blocks(f) /\ bb0 \in PredsOf(f, s) /\ line0 = Len(f.code[bb0]) /\ EnvOK BY Branched DEF Running
<1>3. PICK n : /\ env0' = [v \in DOMAIN env0 |-> IF v \in PhisOf(s) THEN n[v] ELSE env0[v]]
               /\ \A p \in PhisOf(s) : Before!Incoming(p) # {} => \E v \in Before!Incoming(p) : n[p] = V0(v)
  BY Branched
<1>4. PICK m : /\ env1' = [v \in DOMAIN env1 |-> IF v \in PhisOf(s) THEN m[v] ELSE env1[v]]
               /\ \A p \in PhisOf(s) : After!Incoming(p) # {} => \E v \in After!Incoming(p) : m[p] = V1(v)
  BY Branched
<1>5. ASSUME NEW p \in PhisOf(s) PROVE n[p] = m[p]
  <2>1. PICK v : /\ Before!Incoming(p) = {v} /\ After!Incoming(p) = {Sub(rho, v)} /\ V1(Sub(rho, v)) = V0(v)
    BY <1>1, <1>2, PhiReads
  <2>2. n[p] = V0(v) BY <1>3, <2>1
  <2>3. m[p] = V1(Sub(rho, v)) BY <1>4, <2>1
  <2> QED BY <2>1, <2>2, <2>3
<1>6. DOMAIN env0' = DOMAIN env0 /\ DOMAIN env1' = DOMAIN env1 BY <1>3, <1>4
<1>7. \A v \in Slots(f) : /\ v \notin PhisOf(s) => env0'[v] = env0[v] /\ env1'[v] = env1[v]
                          /\ v \in PhisOf(s) => env0'[v] = n[v] /\ env1'[v] = m[v]
  BY <1>2, <1>3, <1>4 DEF EnvOK
<1> QED BY <1>5, <1>6, <1>7

\* They fit into it.
LEMMA PhisFit ==
  ASSUME f \in Functions, NEW b \in Block
  PROVE  Cardinality(PhisOf(b)) <= Len(f.code[b])
<1> DEFINE P == {j \in DOMAIN f.code[b] : f.code[b][j][1] = "phi"}
           g == [j \in P |-> f.code[b][j]]
<1>1. DOMAIN f.code[b] = 1..Len(f.code[b]) /\ Len(f.code[b]) \in Nat BY Lists
<1>2. PhisOf(b) = {f.code[b][j] : j \in P} BY DEF PhisOf, Range
<1>3. g \in Surjection(P, PhisOf(b)) BY <1>2 DEF Surjection
<1>4. P \subseteq 1..Len(f.code[b]) BY <1>1
<1> HIDE DEF P, g
<1>5. IsFiniteSet(1..Len(f.code[b])) /\ Cardinality(1..Len(f.code[b])) = Len(f.code[b]) BY <1>1, FS_Interval
<1>6. IsFiniteSet(P) /\ Cardinality(P) <= Cardinality(1..Len(f.code[b])) /\ Cardinality(P) \in Nat
  BY <1>4, <1>5, FS_Subset, FS_CardinalityType
<1>7. Cardinality(PhisOf(b)) <= Cardinality(P) /\ Cardinality(PhisOf(b)) \in Nat
  BY <1>3, <1>6, FS_Surjection, FS_CardinalityType
<1> QED BY <1>1, <1>5, <1>6, <1>7

LEMMA BranchRuns ==
  ASSUME IInv, FormOK, pc = "done", NEW rho, SubstOK(rho), Running(rho), UNCHANGED pass,
         Before!Branch, After!Branch
  PROVE  Running(rho)'
<1>1. PICK b, s, x : b = bb0 /\ s = bb0' /\ x = f.code[b][line0] OBVIOUS
<1>2. Waits0 /\ Waits1 BY DEF Before!Branch, After!Branch, Waits0, Waits1, Stops
<1>3. /\ f \in Functions /\ b \in Blocks(f) /\ b \in Block /\ EnvOK /\ line0 \in Nat \ {0}
  <2>1. f \in Functions /\ EnvOK BY DEF IInv, Running
  <2>2. bb0 \in Blocks(f) /\ line0 \in Nat \ {0} BY <2>1 DEF EnvOK
  <2> QED BY <1>1, <2>1, <2>2, Graph
<1>4. /\ s \in SuccOf(f, b) /\ s \in Blocks(f) /\ s \in Block /\ b \in PredsOf(f, s)
      /\ line0 = Len(f.code[b]) /\ x[1] = "br"
      /\ line0' = Cardinality(PhisOf(s)) + 1 /\ line1' = line0'
      /\ mem0' = mem0 /\ mem1' = mem1
  BY <1>1, Branched
<1>5. /\ DOMAIN env0' = DOMAIN env0 /\ DOMAIN env1' = DOMAIN env1
      /\ \A v \in Slots(f) : v \notin PhisOf(s) => env0'[v] = env0[v] /\ env1'[v] = env1[v]
      /\ \A v \in PhisOf(s) : v \in Slots(f) => env0'[v] = env1'[v]
  BY <1>1, BranchValues
<1>6. /\ f' = f /\ ir' = ir /\ delete_list' = delete_list /\ bb0' = s BY <1>1 DEF pass
<1>7. /\ line0 \in DOMAIN f.code[b] /\ x \notin delete_list
      /\ \A y \in Slots(f) \ delete_list : env1[y] = env0[y]
      /\ \A a \in Cells(f) : mem0[a] = mem1[a]
  BY <1>1, <1>2, Meeting
<1>8. /\ Cardinality(PhisOf(s)) \in Nat /\ line0' \in Nat \ {0}
      /\ \A i \in DOMAIN f.code[s] : f.code[s][i][1] = "phi" <=> i < line0'
      /\ \A m \in DOMAIN ir.code[s] : ir.code[s][m][1] = "phi" <=> m < line0'
  <2>1. Cardinality(PhisOf(s)) \in Nat BY <1>4, PhisOfBlock
  <2> QED BY <1>4, <2>1, PhisOfBlock
<1>9. \A v \in PhisOf(s) : v[1] = "phi" /\ v \in InstrsIn(f) /\ v \notin delete_list
  <2>1. \A v \in PhisOf(s) : v[1] = "phi" /\ v \in InstrsIn(f) BY <1>3, <1>4, Lists DEF PhisOf, Range
  <2> QED BY <2>1, DeletedKinds
<1>10. \A m, i : Same(s, m, i) => (i < line0' <=> m < line0') /\ i \in Nat /\ m \in Nat
  <2>1. Len(ir.code[s]) \in Nat /\ DOMAIN ir.code[s] = 1..Len(ir.code[s]) BY <1>3, <1>4, Aligned
  <2>2. \A i \in DOMAIN f.code[s] : i \in Nat BY <1>3, <1>4, Lists
  <2> QED BY <1>8, <2>1, <2>2 DEF Same
<1>11. \A h : ~Pending(h)'
  <2> SUFFICES ASSUME NEW h, Pending(h)' PROVE FALSE
    OBVIOUS
  <2>1. h < line0' /\ \E m : line1' <= m /\ Same(s, m, h) BY <1>6, FixedRun DEF Pending
  <2> QED BY <1>4, <1>8, <1>10, <2>1
<1>12. EnvOK'
  <2>1. Blocks(f)' = Blocks(f) /\ line0' \in Nat \ {0} /\ line1' \in Nat \ {0} BY <1>4, <1>6, <1>8
  <2>2. Zero \in Slots(f) /\ Zero \notin PhisOf(s)
    <3>1. Zero[1] # "phi" BY DEF Zero
    <3> QED BY <1>9, <3>1 DEF Slots
  <2>3. env0'[Zero] = 0 BY <1>3, <1>5, <2>2 DEF EnvOK
  <2>4. ASSUME NEW n \in (-MaxFloat)..MaxFloat PROVE env0'[<<"fconst", n>>] = n
    <3>1. <<"fconst", n>> \in Slots(f) BY DEF Slots
    <3>2. <<"fconst", n>> \notin PhisOf(s) BY <1>9
    <3> QED BY <1>3, <1>5, <3>1, <3>2 DEF EnvOK
  <2> QED BY <1>3, <1>4, <1>5, <1>6, <2>1, <2>3, <2>4, FixedRun DEF EnvOK
<1>13. LagOK'
  <2>1. ASSUME NEW i, NEW m, line0' <= i, Same(s, m, i) PROVE line1' <= m
    BY <1>4, <1>8, <1>10, <2>1
  <2> QED BY <1>6, <1>11, <2>1, FixedRun DEF LagOK
<1>14. ASSUME NEW y \in delete_list, Precedes(y, s, line0') PROVE V0(y)' = V0(rho[y])'
  <2>1. y \in InstrsIn(f) /\ y[1] # "phi" /\ IsLike(rho[y]) /\ Sub(rho, y) = rho[y] /\ rho[y] \notin delete_list
    <3>1. y \in InstrsIn(f) /\ y[1] # "phi" BY DeletedKinds
    <3> QED BY <3>1 DEF SubstOK, Sub
  <2>2. PICK d \in Blocks(f) : StrictlyDominates(f, d, s) /\ y \in Range(f.code[d])
    <3>1. Available(f, y, s, line0') BY <1>14, <2>1 DEF Precedes
    <3>0. PICK l : l = line0' OBVIOUS
    <3>2. \A h \in 1..(l - 1) : f.code[s][h] # y
      <4> SUFFICES ASSUME NEW h \in 1..(l - 1), f.code[s][h] = y PROVE FALSE
        OBVIOUS
      <4>1. l \in Nat BY <1>8, <3>0
      <4>2. h < l /\ h \in Nat BY <4>1
      <4>3. h \in DOMAIN f.code[s]
        <5>1. PICK C, P : C = DOMAIN f.code[s] /\ P = PhisOf(s) OBVIOUS
        <5>2. C = 1..Len(f.code[s]) /\ Len(f.code[s]) \in Nat BY <1>3, <1>4, <5>1, Lists
        <5>3. Cardinality(P) <= Len(f.code[s]) BY <1>3, <1>4, <5>1, PhisFit
        <5> QED BY <1>4, <1>8, <3>0, <4>1, <5>1, <5>2, <5>3
      <4> QED BY <1>8, <2>1, <3>0, <4>2, <4>3
    <3> QED BY <3>0, <3>1, <3>2 DEF Available
  <2>3. PICK h \in DOMAIN f.code[d] : f.code[d][h] = y BY <2>2 DEF Range
  <2>4. d \in Block /\ h \in Nat BY <1>3, <2>2, Graph, Lists
  <2>5. Precedes(y, b, line0)
    <3>1. Dominates(f, d, b) BY <1>4, <2>2, DominatesPreds
    <3>2. CASE d # b BY <2>2, <3>1, <3>2 DEF Precedes, Available, StrictlyDominates
    <3>3. CASE d = b
      <4>1. h # line0 BY <1>1, <1>4, <2>3, <3>3, DeletedKinds
      <4>2. h \in 1..(line0 - 1)
        <5>1. DOMAIN f.code[b] = 1..Len(f.code[b]) /\ Len(f.code[b]) \in Nat BY <1>3, Lists
        <5> QED BY <1>3, <1>4, <2>3, <3>3, <4>1, <5>1
      <4> QED BY <2>3, <3>3, <4>2 DEF Precedes, Available
    <3> QED BY <3>2, <3>3
  <2>6. V0(y) = V0(rho[y]) BY <1>1, <2>5 DEF Running, ValueOK
  <2>7. rho[y] \notin PhisOf(s)
    <3> SUFFICES ASSUME rho[y] \in PhisOf(s) PROVE FALSE
      OBVIOUS
    <3>1. PICK p : p = rho[y] OBVIOUS
    <3>2. PICK k \in DOMAIN f.code[s] : f.code[s][k] = p BY <3>1 DEF PhisOf, Range
    <3>3. Precedes(p, d, h) BY <2>3, <2>4, <3>1 DEF SubstOK
    <3>4. Available(f, p, d, h) BY <1>9, <3>1, <3>3 DEF Precedes
    <3>5. s # d BY <2>2 DEF StrictlyDominates
    <3>6. \A i \in 1..(h - 1) : f.code[d][i] # p
      <4> SUFFICES ASSUME NEW i \in 1..(h - 1), f.code[d][i] = p PROVE FALSE
        OBVIOUS
      <4>1. i \in DOMAIN f.code[d] BY <1>3, <2>4, Lists
      <4> QED BY <1>3, <1>4, <2>4, <3>2, <3>5, <4>1, Places
    <3>7. PICK e \in Blocks(f) : StrictlyDominates(f, e, d) /\ p \in Range(f.code[e]) BY <3>4, <3>6 DEF Available
    <3>8. PICK i \in DOMAIN f.code[e] : f.code[e][i] = p BY <3>7 DEF Range
    <3>9. e = s BY <1>3, <1>4, <3>2, <3>8, Graph, Places
    <3> QED BY <1>3, <1>4, <2>2, <3>5, <3>7, <3>9, Graph, DominatesAntisymmetric DEF StrictlyDominates
  <2>8. V0(y)' = V0(y)
    <3>1. y \in Slots(f) /\ y[1] # "const" BY <1>3, <2>1, InSlots
    <3>2. y \notin PhisOf(s) BY <1>9
    <3> QED BY <1>5, <3>1, <3>2 DEF V0, Before!Value, Before!Kind
  <2>9. V0(rho[y])' = V0(rho[y])
    <3>1. rho[y][1] = "const" \/ rho[y] \in Slots(f) BY <1>3, <2>1, InSlots
    <3> QED BY <1>5, <2>7, <3>1 DEF V0, Before!Value, Before!Kind
  <2> QED BY <2>6, <2>8, <2>9
<1>15. ValueOK(rho)'
  <2>1. \A y : Precedes(y, bb0, line0)' => Precedes(y, s, line0') BY <1>6, SameStatic DEF Precedes
  <2> QED BY <1>6, <1>14, <2>1 DEF ValueOK
<1>16. AgreeOK'
  <2>1. \A y \in Slots(f) \ delete_list : env1'[y] = env0'[y] BY <1>5, <1>7
  <2> QED BY <1>6, <2>1, FixedRun DEF AgreeOK
<1>17. MemoryOK'
  <2>1. \A h, a : ~StorePending(h, a)' BY <1>11 DEF StorePending
  <2>2. \A a \in Cells(f) : Sees(mem0[a], a, line0)' BY <1>4, <1>7, <2>1 DEF Sees
  <2> QED BY <1>6, <1>11, <2>2, FixedRun DEF MemoryOK
<1>18. ComputedOK' BY <1>11 DEF ComputedOK
<1>19. KeptOK'
  <2>1. \A i, j, k : ~(i < line0' /\ i \in DOMAIN f.code[s] /\ StoredLast(f, s, i, j, k))
    BY <1>8 DEF StoredLast, StoresTo
  <2>2. \A j, k : ~Fresh(s, j, k)
    <3>1. s # Entry(f)
      <4>1. IsExecutable(f) BY <1>3, Executable
      <4>2. \A c \in Blocks(f) : Entry(f) \notin SuccOf(f, c) BY <4>1, Zenon DEF IsExecutable
      <4> QED BY <1>3, <1>4, <4>2
    <3> QED BY <3>1 DEF Fresh
  <2>3. \A c, j, k : Fresh(c, j, k)' <=> Fresh(c, j, k) BY <1>6, SameStatic
  <2> QED BY <1>6, <2>1, <2>2, <2>3 DEF KeptOK
<1> QED BY <1>12, <1>13, <1>15, <1>16, <1>17, <1>18, <1>19 DEF Running

\* When the pass is done both are where the function begins.
LEMMA Begins == IInv /\ PassOK /\ NotBegun /\ pc = "done" => \E rho : SubstOK(rho) /\ Running(rho)
<1> SUFFICES ASSUME IInv, PassOK, NotBegun, pc = "done" PROVE \E rho : SubstOK(rho) /\ Running(rho)
  OBVIOUS
<1>1. PICK rho : SubstOK(rho) BY DEF PassOK
<1>2. /\ f \in Functions /\ bb0 = Entry(f) /\ bb0 \in Blocks(f) /\ bb0 \in Block /\ FormOK
      /\ line0 = 1 /\ line1 = 1 /\ env1 = env0 /\ mem1 = mem0
      /\ DOMAIN f.code[bb0] = 1..Len(f.code[bb0]) /\ Len(f.code[bb0]) \in Nat
  <2>1. f \in Functions /\ bb0 = Entry(f) /\ FormOK BY DEF IInv, PassOK, NotBegun
  <2>2. bb0 \in Blocks(f) /\ bb0 \in Block BY <2>1, Lists DEF Blocks, Entry
  <2> QED BY <2>1, <2>2, Lists DEF NotBegun
<1>3. \A i : ~Pending(i)
  <2> SUFFICES ASSUME NEW i, Pending(i) PROVE FALSE
    OBVIOUS
  <2>1. i < 1 /\ i \in DOMAIN f.code[bb0] BY <1>2 DEF Pending, Same
  <2> QED BY <1>2, <2>1
<1>4. EnvOK BY <1>2 DEF EnvOK, NotBegun
<1>5. LagOK
  <2>1. Len(ir.code[bb0]) \in Nat /\ DOMAIN ir.code[bb0] = 1..Len(ir.code[bb0]) BY <1>2, Aligned
  <2> QED BY <1>2, <1>3, <2>1 DEF LagOK
<1>6. ValueOK(rho)
  <2> SUFFICES ASSUME NEW y \in delete_list, Precedes(y, bb0, 1) PROVE FALSE
    BY <1>2 DEF ValueOK
  <2>1. y \in InstrsIn(f) BY <1>1, DeletedKinds
  <2>2. PICK d \in Blocks(f) : StrictlyDominates(f, d, bb0)
    <3>1. 1..(1 - 1) = {} OBVIOUS
    <3> QED BY <2>1, <3>1 DEF Precedes, Available
  <2>3. PICK X : Around(f, d, X) /\ bb0 \notin X /\ d # bb0 BY <2>2 DEF StrictlyDominates, Dominates
  <2> QED BY <1>2, <2>3 DEF Around
<1>7. AgreeOK BY <1>2 DEF AgreeOK
<1>8. MemoryOK
  <2>1. \A h, a : ~StorePending(h, a) BY <1>3 DEF StorePending
  <2> QED BY <1>2, <1>3, <2>1 DEF MemoryOK, Sees
<1>9. ComputedOK BY <1>3 DEF ComputedOK
<1>10. KeptOK
  <2> SUFFICES ASSUME NEW j \in DOMAIN f.code[bb0], f.code[bb0][j][1] = "load", NEW a, a = AddressAt(bb0, j)
               PROVE  /\ \A i \in DOMAIN f.code[bb0] : ~(i < 1)
                      /\ Fresh(bb0, j, Key(a)) => mem0[a] = 0
    BY <1>2 DEF KeptOK
  <2>1. \A i \in DOMAIN f.code[bb0] : ~(i < 1) BY <1>2
  <2>2. Fresh(bb0, j, Key(a)) => f.main BY <1>2, LoadIsTrue
  <2>3. a \in Cells(f) BY <1>2, LoadReads
  <2> QED BY <2>1, <2>2, <2>3 DEF NotBegun
<1> QED BY <1>1, <1>4, <1>5, <1>6, <1>7, <1>8, <1>9, <1>10 DEF Running

LEMMA BeginsNext == (IInv /\ PassOK /\ NotBegun /\ pc = "done" => \E rho : SubstOK(rho) /\ Running(rho))'
BY Begins, PTL

LEMMA InitRuns ==
  ASSUME Init
  PROVE  RunOK
<1>1. PICK args : env0 = [v \in Slots(f) |->
                    CASE v[1] = "arg" -> args[v] [] v[1] = "fconst" -> v[2] [] v = Zero -> 0
                      [] OTHER -> Undef]
  BY Zenon DEF Init, Slots
<1>2. DOMAIN env0 = Slots(f) BY <1>1
<1>3. env0[Zero] = 0
  <2>1. Zero \in Slots(f) /\ Zero[1] \notin {"arg", "fconst"} BY DEF Slots, Zero
  <2> QED BY <1>1, <2>1
<1>4. ASSUME NEW n \in (-MaxFloat)..MaxFloat PROVE env0[<<"fconst", n>>] = n
  <2>1. PICK v : v = <<"fconst", n>> OBVIOUS
  <2>2. v \in Slots(f) /\ v[1] = "fconst" /\ v[2] = n /\ v # Zero BY <2>1 DEF Slots, Zero
  <2> QED BY <1>1, <2>1, <2>2
<1>5. /\ DOMAIN mem0 = Cells(f) /\ mem0 = [a \in Cells(f) |-> mem0[a]] /\ mem1 = mem0 /\ env1 = env0
      /\ f.main => \A a \in Cells(f) : mem0[a] = 0
  <2>1. PICK S, D : S = (IF f.main THEN {0} ELSE Data) /\ D = Cells(f) OBVIOUS
  <2>2. mem0 \in [D -> S] /\ mem1 = mem0 /\ env1 = env0 BY <2>1 DEF Init
  <2> QED BY <2>1, <2>2
<1>6. pc # "done" /\ bb0 = Entry(f) /\ line0 = 1 /\ line1 = 1 BY DEF Init, InitPass, Entry
<1> QED BY <1>2, <1>3, <1>4, <1>5, <1>6 DEF RunOK, NotBegun, MemoriesOK

\* Until the pass is done nothing has been executed.
LEMMA WaitRuns ==
  ASSUME RunOK, IInv', PassOK', f' = f, pc # "done", UNCHANGED <<bb0, old, new>>
  PROVE  RunOK'
<1>1. Slots(f)' = Slots(f) /\ Cells(f)' = Cells(f)
  BY DEF Slots, Cells, ValuesIn, InstrsIn
<1>2. UNCHANGED <<bb0, line0, line1, env0, env1, mem0, mem1>> BY DEF old, new
<1>3. MemoriesOK' BY <1>1, <1>2 DEF RunOK, MemoriesOK
<1>4. NotBegun' BY <1>1, <1>2 DEF RunOK, NotBegun
<1>5. pc' = "done" => (\E rho : SubstOK(rho) /\ Running(rho))' BY <1>4, BeginsNext
<1> QED BY <1>3, <1>4, <1>5 DEF RunOK

LEMMA StillRuns ==
  ASSUME RunOK, UNCHANGED vars
  PROVE  RunOK'
<1>1. /\ UNCHANGED <<f, ir, pc, delete_list, bb0, line0, env0, mem0, line1, env1, mem1>> /\ UNCHANGED pass
  BY DEF vars, pass, old, new
<1>2. /\ Slots(f)' = Slots(f) /\ Cells(f)' = Cells(f)
      /\ \A b, m, i : Same(b, m, i)' <=> Same(b, m, i)
      /\ \A rho : SubstOK(rho) => SubstOK(rho)'
      /\ \A b, j : AddressAt(b, j)' = AddressAt(b, j) /\ StoredAt(b, j)' = StoredAt(b, j)
      /\ \A b, j, k : Fresh(b, j, k)' <=> Fresh(b, j, k)
      /\ Blocks(f)' = Blocks(f) /\ \A v, b, j : Precedes(v, b, j)' <=> Precedes(v, b, j)
  BY <1>1, FixedRun, SameStatic
<1>3. (MemoriesOK => MemoriesOK') /\ (NotBegun => NotBegun') BY <1>1, <1>2 DEF MemoriesOK, NotBegun
<1>4. /\ \A v : V0(v)' = V0(v)
      /\ \A h : V0(StoredAt(bb0, h))' = V0(StoredAt(bb0, h))
      /\ \A h : Operation(f.code[bb0][h])' = Operation(f.code[bb0][h])
  BY <1>1 DEF V0, Before!Value, Before!Kind, StoredAt, Operation, OpOf, FromBit, InstrsIn
<1>5. \A i : Pending(i)' <=> Pending(i) BY <1>1, <1>2 DEF Pending
<1>6. \A y : Lags(y)' <=> Lags(y) BY <1>1, <1>5 DEF Lags
<1>7. \A h, a : StorePending(h, a)' <=> StorePending(h, a) BY <1>1, <1>5 DEF StorePending
<1>8. \A n, a, i : Sees(n, a, i)' <=> Sees(n, a, i) BY <1>1, <1>4, <1>7 DEF Sees
<1>9. ASSUME NEW rho, Running(rho) PROVE Running(rho)'
  <2>1. EnvOK' BY <1>1, <1>2, <1>9 DEF Running, EnvOK
  <2>2. LagOK' BY <1>1, <1>2, <1>5, <1>9 DEF Running, LagOK
  <2>3. ValueOK(rho)'
    <3>1. \A y : Precedes(y, bb0, line0)' <=> Precedes(y, bb0, line0) BY <1>1, <1>2 DEF Precedes
    <3>2. \A y : V0(rho[y])' = V0(rho[y]) BY <1>4
    <3> QED BY <1>1, <1>4, <1>9, <3>1, <3>2 DEF Running, ValueOK
  <2>4. AgreeOK' BY <1>1, <1>2, <1>6, <1>9 DEF Running, AgreeOK
  <2>5. MemoryOK'
    <3>1. MemoryOK BY <1>9 DEF Running
    <3>2. ASSUME NEW a \in Cells(f) PROVE Sees(mem0[a], a, line0)'
      <4>1. PICK n, l : n = mem0[a] /\ l = line0 OBVIOUS
      <4>2. Sees(n, a, l) BY <3>1, <4>1 DEF MemoryOK
      <4>3. Sees(n, a, l)' BY <1>8, <4>2
      <4>4. mem0'[a] = n /\ line0' = l BY <1>1, <4>1
      <4> QED BY <4>3, <4>4 DEF Sees
    <3>3. ASSUME NEW k \in DOMAIN f.code[bb0], Pending(k), f.code[bb0][k][1] = "load"
          PROVE  Sees(env0[f.code[bb0][k]], AddressAt(bb0, k), k)'
      <4>1. PICK n, a : n = env0[f.code[bb0][k]] /\ a = AddressAt(bb0, k) OBVIOUS
      <4>2. Sees(n, a, k) BY <3>1, <3>3, <4>1 DEF MemoryOK
      <4>3. Sees(n, a, k)' BY <1>8, <4>2
      <4>4. AddressAt(bb0, k)' = a /\ env0'[f'.code[bb0'][k]] = n BY <1>1, <4>1 DEF AddressAt
      <4> QED BY <4>3, <4>4 DEF Sees
    <3> QED BY <1>1, <1>2, <1>5, <3>2, <3>3 DEF MemoryOK
  <2>6. ComputedOK' BY <1>1, <1>4, <1>5, <1>9 DEF Running, ComputedOK
  <2>7. KeptOK'
    <3>1. \A h : AddressAt(bb0, h)' = AddressAt(bb0, h) BY <1>1 DEF AddressAt
    <3> QED BY <1>1, <1>2, <1>4, <1>9, <3>1 DEF Running, KeptOK
  <2> QED BY <2>1, <2>2, <2>3, <2>4, <2>5, <2>6, <2>7 DEF Running
<1> QED BY <1>1, <1>2, <1>3, <1>9 DEF RunOK

\* A memory stays a function of the cells.
LEMMA OneCell ==
  ASSUME NEW D, NEW m, NEW n, m = [a \in D |-> m[a]]
  PROVE  /\ \A c, v : n = [m EXCEPT ![c] = v] => n = [a \in D |-> n[a]]
         /\ \A S, w : n = [a \in DOMAIN m |-> IF a \in S THEN w[a] ELSE m[a]] => n = [a \in D |-> n[a]]
<1>1. DOMAIN m = D OBVIOUS
<1>2. ASSUME NEW c, NEW v, n = [m EXCEPT ![c] = v] PROVE n = [a \in D |-> n[a]]
  BY <1>1, <1>2
<1>3. ASSUME NEW S, NEW w, n = [a \in DOMAIN m |-> IF a \in S THEN w[a] ELSE m[a]] PROVE n = [a \in D |-> n[a]]
  BY <1>1, <1>3
<1> QED BY <1>2, <1>3

LEMMA MemoriesStay ==
  ASSUME MemoriesOK, Alone0 \/ Alone1 \/ Together
  PROVE  MemoriesOK'
<1>1. Cells(f)' = Cells(f) BY FixedRun DEF Alone0, Alone1, Together
<1>2. PICK D, S : D = Cells(f) /\ S = Globals0 OBVIOUS
<1>3. mem0 = [a \in D |-> mem0[a]] /\ mem1 = [a \in D |-> mem1[a]] BY <1>2 DEF MemoriesOK
<1>4. \/ mem0' = mem0
      \/ \E c, v : mem0' = [mem0 EXCEPT ![c] = v]
      \/ \E w : mem0' = [a \in DOMAIN mem0 |-> IF a \in S THEN w[a] ELSE mem0[a]]
  <2>1. CASE Alone0 BY <2>1 DEF Alone0, Before!Op, Before!Computes, Before!Load, Before!Store
  <2>2. CASE Alone1 BY <2>2 DEF Alone1, old
  <2>3. CASE Together BY <1>2, <2>3 DEF Together, CallSame, Before!Branch, Before!Ret
  <2> QED BY <2>1, <2>2, <2>3
<1>5. \/ mem1' = mem1
      \/ \E c, v : mem1' = [mem1 EXCEPT ![c] = v]
      \/ \E w : mem1' = [a \in DOMAIN mem1 |-> IF a \in S THEN w[a] ELSE mem1[a]]
  <2>1. CASE Alone0 BY <2>1 DEF Alone0, new
  <2>2. CASE Alone1 BY <2>2 DEF Alone1, After!Op, After!Computes, After!Load, After!Store
  <2>3. CASE Together BY <1>2, <2>3 DEF Together, CallSame, After!Branch, After!Ret
  <2> QED BY <2>1, <2>2, <2>3
<1>6. mem0' = [a \in D |-> mem0'[a]] BY <1>3, <1>4, OneCell
<1>7. mem1' = [a \in D |-> mem1'[a]] BY <1>3, <1>5, OneCell
<1> QED BY <1>1, <1>2, <1>6, <1>7 DEF MemoriesOK

LEMMA NextRuns ==
  ASSUME IInv, PassOK, RunOK, IInv', PassOK', [Next]_vars
  PROVE  RunOK'
<1>1. CASE Propagate
  <2>1. pc # "done" /\ f' = f
    BY <1>1 DEF Propagate, NextPass, FoldInstr, FoldDivision, NoteStore, ReplaceLoad, Skip, EndBlock,
                DividesConst, InBlock
  <2> QED BY <1>1, <2>1, WaitRuns DEF Propagate
<1>2. CASE Alone0 \/ Alone1 \/ Together
  <2>1. pc = "done" /\ UNCHANGED pass /\ FormOK BY <1>2 DEF Alone0, Alone1, Together, PassOK
  <2>2. PICK rho : SubstOK(rho) /\ Running(rho) BY <2>1 DEF RunOK
  <2>3. SubstOK(rho)' BY <2>1, <2>2, FixedRun
  <2>4. Running(rho)'
    <3>1. CASE Alone0
      <4>1. UNCHANGED <<pass, bb0, new>> BY <3>1 DEF Alone0
      <4> QED BY <2>1, <2>2, <3>1, <4>1, OldOp, OldLoad, OldStore DEF Alone0
    <3>2. CASE Alone1
      <4>1. UNCHANGED <<pass, bb0, old>> /\ Waits0 BY <3>2 DEF Alone1
      <4> QED BY <2>1, <2>2, <3>2, <4>1, NewOp, NewLoad, NewStore DEF Alone1
    <3>3. CASE Together
      <4> QED BY <2>1, <2>2, <3>3, CallRuns, BranchRuns, RetRuns DEF Together
    <3> QED BY <1>2, <3>1, <3>2, <3>3
  <2>5. MemoriesOK' BY <1>2, MemoriesStay DEF RunOK
  <2>6. pc' = "done" BY <2>1 DEF pass
  <2> QED BY <2>3, <2>4, <2>5, <2>6 DEF RunOK
<1>3. CASE UNCHANGED vars BY <1>3, StillRuns
<1> QED BY <1>1, <1>2, <1>3 DEF Next

(***************************************************************************)
(* ConstPropagation::run: what it replaced has the value of what took its  *)
(* place, and the executions before and after differ only by computations, *)
(* loads and stores the later one has still to do; unless it folded a      *)
(* comparison that holds and then its conversion to a float.               *)
(***************************************************************************)
THEOREM ValuesKept == Spec => [](IInv /\ (FoldsBit \/ (PassOK /\ RunOK)))
<1>1. Init => IInv /\ PassOK /\ RunOK
  BY Starting, InitPassed, InitRuns DEF Init
<1>2. IInv /\ (FoldsBit \/ (PassOK /\ RunOK)) /\ IInv' /\ [Next]_vars => FoldsBit' \/ (PassOK' /\ RunOK')
  <2> SUFFICES ASSUME IInv, FoldsBit \/ (PassOK /\ RunOK), IInv', [Next]_vars, ~FoldsBit'
               PROVE  PassOK' /\ RunOK'
    OBVIOUS
  <2>1. PassOK /\ RunOK BY BitsStay
  <2>2. PassOK' BY <2>1, NextPassed
  <2> QED BY <2>1, <2>2, NextRuns
<1> QED BY <1>1, <1>2, Invariance, PTL DEF Spec

(***************************************************************************)
(* ConstPropagation::run: at every call, branch and return the function    *)
(* reads and leaves in memory what it did before the pass.                 *)
(***************************************************************************)
THEOREM Unobservable == Spec => []SameBehaviour
<1>1. IInv /\ (FoldsBit \/ (PassOK /\ RunOK)) => SameBehaviour
  <2> SUFFICES ASSUME IInv, PassOK, RunOK, pc = "done" PROVE SameBehaviour
    BY DEF SameBehaviour
  <2>1. PICK rho : SubstOK(rho) /\ Running(rho) BY DEF RunOK
  <2> QED BY <2>1, Met DEF PassOK, RunOK
<1> QED BY <1>1, ValuesKept, PTL
=============================================================================
