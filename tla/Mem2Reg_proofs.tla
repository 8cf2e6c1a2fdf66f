----------------------------- MODULE Mem2Reg_proofs -----------------------------
(***************************************************************************)
(* Theorems about Mem2Reg, for every function: the phis suffice, each      *)
(* block pops what it has pushed, the use lists end up exact, the code     *)
(* ends up in SSA form, and it computes what it computed with the loads.   *)
(***************************************************************************)
EXTENDS Mem2RegSemantics, LightIR_proofs, FiniteSetTheorems, SequenceTheorems, TLAPS

Variables  == UNION {StoredIn(f, b) : b \in Block}
\* Operands are never taken away from ir, so a phi that was placed is known by them.
HasPhi(v, b) == PhiOf(v, b) \in DOMAIN ir.operands
PhisOf(b)    == {PhiOf(v, b) : v \in {w \in Variables : HasPhi(w, b)}}

\* What re_name pushes for v in block b.
Pushes(b, v) ==
  {x \in Range(f.code[b]) : IsStore(x) /\ f.operands[x][2] = v}
    \cup {x \in {PhiOf(v, b)} : HasPhi(v, b)}

Defines(b, v) == v \in StoredIn(f, b) \/ HasPhi(v, b)

\* re_name has not deleted anything from b.
Intact(b) ==
  /\ ir.code[b] \in Seq(DOMAIN ir.operands)
  /\ Range(ir.code[b]) = Range(f.code[b]) \cup PhisOf(b)
  /\ IsInjective(ir.code[b])
----
\* The address a store writes to stays what it was: no entry of a use list is about
\* it but in that of the alloca.
IrOK ==
  /\ ir = [code |-> ir.code, operands |-> ir.operands, use_list |-> ir.use_list]
  /\ DOMAIN ir.code = Block
  /\ InstrsIn(f) \subseteq DOMAIN ir.operands
  /\ \A x \in DOMAIN ir.operands :
       x \in InstrsIn(f) \/ \E v \in Variables, b \in Blocks(f) : x = PhiOf(v, b)
  /\ DOMAIN ir.operands \subseteq DOMAIN ir.use_list
  /\ Block \subseteq DOMAIN ir.use_list
  /\ \A x \in DOMAIN ir.operands : ir.operands[x] \in Seq(DOMAIN ir.use_list)
  /\ \A x \in InstrsIn(f) : IsStore(x) =>
       /\ Len(ir.operands[x]) = 2
       /\ ir.operands[x][2] = f.operands[x][2]
       /\ \A v \in DOMAIN ir.use_list : IsLoad(v) => <<x, 2>> \notin ir.use_list[v]

\* The frontier of each block in which a variable is stored, or has a phi, has phis
\* for the variable; or the block is still in the work list.
PhisPlaced ==
  \A v \in Variables \ vars_left, b \in Blocks(f) : Defines(b, v) =>
    \/ v = var /\ b \in work_list
    \/ \A c \in Frontier(f, b) : HasPhi(v, c)

PlaceOK ==
  /\ vars_left \subseteq Variables
  /\ work_list \subseteq Blocks(f)
  /\ work_list # {} => var \in Variables \ vars_left
  /\ \A v \in vars_left, b \in Block : ~HasPhi(v, b)
  /\ PhisPlaced
  /\ pc = "place" => calls = << >> /\ var_val_stack = << >> /\ \A b \in Block : Intact(b)
  /\ pc # "place" => work_list = {} /\ vars_left = {}

\* The calls are the blocks above the current one in the dominator tree, and what is
\* below a child still to be visited has not been touched.
CallsOK ==
  /\ calls \in Seq([bb : Blocks(f), wait_delete : SUBSET InstrsIn(f), left : SUBSET Blocks(f)])
  /\ pc \in {"place", "enter", "instr", "children", "allocas", "done", "abort"}
  /\ pc \in {"place", "allocas", "done"} <=> calls = << >>
  /\ calls # << >> => calls[1].bb = root
  /\ \A k \in DOMAIN calls : calls[k].left \subseteq Children(calls[k].bb)
  /\ \A k \in DOMAIN calls : k > 1 =>
       IsIdom(f, calls[k - 1].bb, calls[k].bb) /\ calls[k].bb \notin calls[k - 1].left
  /\ \A k \in DOMAIN calls, j \in DOMAIN calls : j < k => StrictlyDominates(f, calls[j].bb, calls[k].bb)
  /\ \A k \in DOMAIN calls, d \in Blocks(f) : StrictlyDominates(f, d, calls[k].bb) =>
       \E j \in 1..(k - 1) : calls[j].bb = d
  /\ \A k \in DOMAIN calls : Intact(calls[k].bb)
  /\ \A k \in DOMAIN calls : \A c \in calls[k].left, n \in Blocks(f) : Dominates(f, c, n) => Intact(n)

\* What the first n instructions of the block have pushed for v, with its phis.
PushedBy(n, v) ==
  {x \in Pushes(bb_, v) : IsPhi(x) \/ \E j \in 1..n : ir.code[bb_][j] = x}

\* What the last call has pushed for v so far.
Here(v) ==
  IF pc = "enter" THEN {} ELSE IF pc = "children" THEN Pushes(bb_, v) ELSE PushedBy(line, v)

\* Call k began with base[k][v] values for v, which those before it have pushed.
BaseOK(base) ==
  /\ base \in [DOMAIN calls -> [Variables -> Nat]]
  /\ \A v \in Variables : \A k \in DOMAIN calls :
       /\ k = 1 => base[k][v] = 0
       /\ k > 1 => base[k][v] = base[k - 1][v] + Cardinality(Pushes(calls[k - 1].bb, v))
       /\ \A j \in 1..(k - 1) : base[k][v] >= base[j][v] + Cardinality(Pushes(calls[j].bb, v))
  /\ calls # << >> => \A v \in Variables :
       Len(StackOf(v)) = base[Len(calls)][v] + Cardinality(Here(v))

StacksOK ==
  /\ Known \subseteq Variables
  /\ \A v \in Known : var_val_stack[v] \in Seq(DOMAIN ir.use_list)
  /\ pc \in {"instr", "abort"} => line \in 0..Len(ir.code[bb_])
  /\ \E base \in [DOMAIN calls -> [Variables -> Nat]] : BaseOK(base)

IInv ==
  /\ f \in Functions
  /\ IrOK
  /\ PlaceOK
  /\ CallsOK
  /\ StacksOK

----
\* The use lists. A load that is renamed keeps its list, which is true no more; it must
\* not be read again, nor become the value of a variable.
Below(n) == \E k \in DOMAIN calls : \E c \in calls[k].left : Dominates(f, c, n)

\* re_name has not dealt with x yet.
Ahead(x) ==
  \/ pc = "place"
  \/ \E n \in Blocks(f) : Below(n) /\ x \in Range(f.code[n])
  \/ pc = "enter" /\ x \in Range(f.code[bb_])
  \/ pc = "instr" /\ \E j \in DOMAIN ir.code[bb_] : j > line /\ ir.code[bb_][j] = x

Waiting == UNION {calls[k].wait_delete : k \in DOMAIN calls}
Renamed == {x \in InstrsIn(f) : IsLoad(x) /\ (x \in Waiting \/ x \notin Instrs)}

\* v will not be renamed any more, and has not been.
Settled(v) == v \in InstrsIn(f) /\ IsLoad(v) => ~Ahead(v) /\ v \notin Renamed

\* Instructions come in the order they had.
Ordered(b) ==
  \A i, j \in DOMAIN f.code[b], m, n \in DOMAIN ir.code[b] :
    i < j /\ f.code[b][i] = ir.code[b][m] /\ f.code[b][j] = ir.code[b][n] => m < n

\* re_name has not returned from b.
Open(b) == pc = "place" \/ Below(b) \/ \E k \in DOMAIN calls : calls[k].bb = b

CodeOK ==
  /\ DOMAIN ir.use_list = ValuesIn(f) \cup Block \cup DOMAIN ir.operands
  /\ \A b \in Block : /\ ir.code[b] \in Seq(DOMAIN ir.operands)
                      /\ \A x \in Range(ir.code[b]) : IsPhi(x) \/ x \in Range(f.code[b])
                      /\ Open(b) => Ordered(b)

WaitOK ==
  \A k \in DOMAIN calls : \A x \in calls[k].wait_delete :
    x \in Range(ir.code[calls[k].bb]) /\ ~Ahead(x)

UsesOK  == \A v \in DOMAIN ir.use_list \ Renamed : Exact(ir, Instrs, v)
ReadsOK == \A x \in Instrs : \A j \in DOMAIN ir.operands[x] : ir.operands[x][j] \notin Renamed

\* What an instruction reads is what it read, or the value of a variable.
OperandsOK ==
  \A x \in InstrsIn(f) :
    /\ DOMAIN ir.operands[x] = DOMAIN f.operands[x]
    /\ \A j \in DOMAIN f.operands[x] :
         ir.operands[x][j] = f.operands[x][j] \/ Settled(ir.operands[x][j])

StackedOK == \A v \in Known : \A j \in DOMAIN var_val_stack[v] : Settled(var_val_stack[v][j])

ListsOK ==
  /\ CodeOK
  /\ WaitOK
  /\ UsesOK
  /\ ReadsOK
  /\ OperandsOK
  /\ StackedOK

----
\* Dominance. What an instruction reads, and what is stacked, was computed on every path.
\* The order of the instructions is that of the function, with the phis before them.
IsDef(v)   == v[1] \in {"op", "load", "phi"}
IsLabel(v) == v[1] = "bb"

ComputedIn(v, d) == v \in Range(f.code[d]) \/ v \in PhisOf(d)

ReachesStart(v, b) ==
  IsDef(v) => \E d \in Blocks(f) : ComputedIn(v, d) /\ StrictlyDominates(f, d, b)
ReachesEnd(v, b) ==
  IsDef(v) => \E d \in Blocks(f) : ComputedIn(v, d) /\ Dominates(f, d, b)

\* v comes before the instruction x of b, in b.
ComesBefore(v, x, b) ==
  \/ v \in PhisOf(b)
  \/ \E i, j \in DOMAIN f.code[b] : i < j /\ f.code[b][i] = v /\ f.code[b][j] = x

Reaches(v, x, b) == ReachesStart(v, b) \/ ComesBefore(v, x, b)

\* What is left of a block is in order and has all that others may read.
PhisFirst(b) ==
  \A m, n \in DOMAIN ir.code[b] : m < n /\ IsPhi(ir.code[b][n]) => IsPhi(ir.code[b][m])

Kept(b) ==
  /\ IsInjective(ir.code[b])
  /\ Ordered(b)
  /\ PhisFirst(b)
  /\ PhisOf(b) \subseteq Range(ir.code[b])
  /\ Range(ir.code[b]) \subseteq Range(f.code[b]) \cup PhisOf(b)
  /\ \A x \in Range(f.code[b]) : x[1] \in {"op", "br", "ret"} => x \in Range(ir.code[b])

KeptOK ==
  /\ \A b \in Block : Kept(b)
  /\ \A k \in DOMAIN calls : \A x \in calls[k].wait_delete : IsLoad(x) \/ IsStore(x)

ReachOK ==
  \A b \in Block : \A x \in Range(f.code[b]) :
    /\ \A i \in DOMAIN ir.operands[x] : Reaches(ir.operands[x][i], x, b)
    /\ IsStore(x) => ~IsLabel(ir.operands[x][1])

\* re_name has filled the phis of the successors of c.
Filled(c) == pc # "place" /\ ~Below(c) /\ (pc \in {"enter", "instr"} => c # bb_)

\* A phi of b reads values, each followed by the predecessor it comes from.
FromPred(ops, i, b) ==
  /\ ops[i] \in PredsOf(f, b) /\ Filled(ops[i])
  /\ i - 1 \in DOMAIN ops /\ ReachesEnd(ops[i - 1], ops[i])
  /\ \A j \in DOMAIN ops : ops[j] = ops[i] => j = i

PhiReads(ops, b) == \A i \in DOMAIN ops : IsLabel(ops[i]) => FromPred(ops, i, b)

PhiReadsOK == \A v \in Variables, b \in Blocks(f) : HasPhi(v, b) => PhiReads(ir.operands[PhiOf(v, b)], b)

\* What is stacked can be read where the walk is.
Readable(e) ==
  /\ ~IsLabel(e)
  /\ pc = "enter" => ReachesStart(e, bb_)
  /\ pc \in {"instr", "children"} => ReachesEnd(e, bb_)
  /\ pc = "instr" => \A n \in DOMAIN ir.code[bb_] :
       n > line /\ ~IsPhi(ir.code[bb_][n]) => Reaches(e, ir.code[bb_][n], bb_)

\* What a call found on the stacks dominates its block.
FoundOK(base) ==
  \A k \in DOMAIN calls : \A v \in Known : \A j \in DOMAIN var_val_stack[v] :
    j <= base[k][v] => ReachesStart(var_val_stack[v][j], calls[k].bb)

ReadableOK ==
  /\ \A v \in Known : \A j \in DOMAIN var_val_stack[v] : Readable(var_val_stack[v][j])
  /\ \E base \in [DOMAIN calls -> [Variables -> Nat]] : BaseOK(base) /\ FoundOK(base)

DomOK ==
  /\ KeptOK
  /\ ReachOK
  /\ PhiReadsOK
  /\ ReadableOK

----
\* What IsFunction says of the function.
LEMMA Code ==
  ASSUME f \in Functions
  PROVE  /\ Blocks(f) \subseteq Block /\ root \in Blocks(f)
         /\ EdgesInside(f) /\ AllReached(f)
         /\ f.code \in [Block -> Seq(InstrsIn(f))]
         /\ f.operands \in [InstrsIn(f) -> Seq(ValuesIn(f))]
         /\ \A b \in Block : Succs(b) = SuccOf(f, b) /\ IsInjective(f.code[b])
         /\ \A b \in Block \ Blocks(f) : f.code[b] = << >>
         /\ \A x \in InstrsIn(f) : ~IsPhi(x) /\ (IsStore(x) => Len(f.operands[x]) = 2)
<1>1. IsFunction(f) BY FunctionsAssumption
<1>2. f.bbs \in Seq(Block) /\ f.bbs # << >> BY <1>1, Zenon DEF IsFunction
<1>3. Blocks(f) \subseteq Block /\ Entry(f) \in Blocks(f) BY <1>2 DEF Blocks, Entry
<1>4. /\ f.succ \in [Block -> Seq(Blocks(f))]
      /\ f.code \in [Block -> Seq(InstrsIn(f))]
      /\ f.operands \in [InstrsIn(f) -> Seq(ValuesIn(f))]
      /\ \A b \in Block \ Blocks(f) : f.code[b] = << >>
      /\ \A b \in Block : IsInjective(f.code[b])
      /\ \A v \in ValuesIn(f) :
           v[1] \in IF v \in InstrsIn(f) THEN {"alloca", "load", "store", "op", "br", "ret"}
                    ELSE {"arg", "const", "bb"}
      /\ \A x \in InstrsIn(f) : IsStore(x) => Len(f.operands[x]) = 2
      /\ \A X \in SUBSET Blocks(f) :
           Entry(f) \in X /\ (\A b \in X : SuccOf(f, b) \subseteq X) => X = Blocks(f)
  BY <1>1, Zenon DEF IsFunction
<1>5. AllReached(f) BY <1>4, Zenon DEF AllReached
<1>6. \A b \in Block : SuccOf(f, b) \subseteq Blocks(f) BY <1>4 DEF SuccOf
<1>7. EdgesInside(f) BY <1>3, <1>6 DEF EdgesInside
<1>8. \A b \in Block : Succs(b) = SuccOf(f, b) BY Zenon DEF Succs, SuccOf, Range
<1>9. \A x \in InstrsIn(f) : ~IsPhi(x) /\ (IsStore(x) => Len(f.operands[x]) = 2)
  BY <1>4 DEF ValuesIn, IsPhi
<1> QED BY <1>3, <1>4, <1>5, <1>7, <1>8, <1>9 DEF root

\* What there is in the function, and what is read where.
LEMMA Kinds ==
  ASSUME f \in Functions
  PROVE  /\ \A x \in InstrsIn(f) : x[1] \in {"alloca", "load", "store", "op", "br", "ret"}
         /\ \A v \in ValuesIn(f) \ InstrsIn(f) : v[1] \in {"arg", "const", "bb"}
         /\ \A x \in InstrsIn(f) :
              /\ IsAlloca(x) => f.operands[x] = << >>
              /\ IsLoad(x) => DOMAIN f.operands[x] = {1} /\ f.operands[x][1] \in Allocas(f)
              /\ IsStore(x) => DOMAIN f.operands[x] = {1, 2} /\ f.operands[x][2] \in Allocas(f)
                               /\ f.operands[x][1][1] \in {"arg", "const", "op", "load"}
              /\ ~IsLoad(x) /\ ~IsStore(x) =>
                   \A i \in DOMAIN f.operands[x] : f.operands[x][i][1] \in {"arg", "const", "bb", "op", "load"}
         /\ \A b \in Block : \A j \in DOMAIN f.code[b] : f.code[b][j][1] = "br" =>
              /\ j = Len(f.code[b])
              /\ Len(f.operands[f.code[b][j]]) \in {1, 3}
              /\ \A i \in DOMAIN f.operands[f.code[b][j]] :
                   \/ f.operands[f.code[b][j]][i] \in SuccOf(f, b)
                   \/ Len(f.operands[f.code[b][j]]) = 3 /\ i = 1
<1>1. IsFunction(f) BY FunctionsAssumption
<1>2. /\ \A v \in ValuesIn(f) :
           v[1] \in IF v \in InstrsIn(f) THEN {"alloca", "load", "store", "op", "br", "ret"}
                    ELSE {"arg", "const", "bb"}
      /\ \A x \in InstrsIn(f) :
           /\ IsAlloca(x) => f.operands[x] = << >>
           /\ IsLoad(x) => Len(f.operands[x]) = 1
           /\ IsStore(x) => Len(f.operands[x]) = 2 /\ f.operands[x][1][1] # "bb"
           /\ \A i \in DOMAIN f.operands[x] :
                IF IsLoad(x) \/ (IsStore(x) /\ i = 2) THEN IsAlloca(f.operands[x][i])
                ELSE f.operands[x][i][1] \in {"arg", "const", "bb", "op", "load"}
      /\ f.operands \in [InstrsIn(f) -> Seq(ValuesIn(f))]
  BY <1>1, Zenon DEF IsFunction
<1>3. \A b \in Block : \A j \in DOMAIN f.code[b] : f.code[b][j][1] = "br" =>
        /\ j = Len(f.code[b])
        /\ Len(f.operands[f.code[b][j]]) \in {1, 3}
        /\ \A i \in DOMAIN f.operands[f.code[b][j]] :
             \/ f.operands[f.code[b][j]][i] \in SuccOf(f, b)
             \/ Len(f.operands[f.code[b][j]]) = 3 /\ i = 1
  BY <1>1, Zenon DEF IsFunction
<1>4. InstrsIn(f) \subseteq ValuesIn(f) BY DEF ValuesIn
<1>5. /\ \A x \in InstrsIn(f) : x[1] \in {"alloca", "load", "store", "op", "br", "ret"}
      /\ \A v \in ValuesIn(f) \ InstrsIn(f) : v[1] \in {"arg", "const", "bb"}
  BY ONLY <1>2, <1>4
<1>6. ASSUME NEW x \in InstrsIn(f), NEW i \in DOMAIN f.operands[x], IsAlloca(f.operands[x][i])
      PROVE  f.operands[x][i] \in Allocas(f)
  <2>1. f.operands[x][i] \in ValuesIn(f) BY <1>2
  <2> QED BY <1>5, <1>6, <2>1 DEF Allocas, IsAlloca
<1>7. ASSUME NEW x \in InstrsIn(f), IsLoad(x)
      PROVE  DOMAIN f.operands[x] = {1} /\ f.operands[x][1] \in Allocas(f)
  <2>1. f.operands[x] \in Seq(ValuesIn(f)) /\ Len(f.operands[x]) = 1 BY <1>2, <1>7
  <2>2. DOMAIN f.operands[x] = {1} BY ONLY <2>1
  <2> QED BY <1>2, <1>6, <1>7, <2>2
<1>8. ASSUME NEW x \in InstrsIn(f), IsStore(x)
      PROVE  /\ DOMAIN f.operands[x] = {1, 2} /\ f.operands[x][2] \in Allocas(f)
             /\ f.operands[x][1][1] \in {"arg", "const", "op", "load"}
  <2>1. f.operands[x] \in Seq(ValuesIn(f)) /\ Len(f.operands[x]) = 2 BY <1>2, <1>8
  <2>2. DOMAIN f.operands[x] = {1, 2} BY ONLY <2>1
  <2>3. ~IsLoad(x) BY <1>8 DEF IsStore, IsLoad
  <2> QED BY <1>2, <1>6, <1>8, <2>2, <2>3
<1> QED BY <1>2, <1>3, <1>5, <1>7, <1>8

\* The variables stored in a block.
LEMMA Stored ==
  ASSUME f \in Functions
  PROVE  /\ \A b, v : v \in StoredIn(f, b) <=>
              \E x \in Range(f.code[b]) : IsStore(x) /\ f.operands[x][2] = v
         /\ \A b \in Block : StoredIn(f, b) \subseteq Variables
         /\ \A b \in Block : \A v \in StoredIn(f, b) : b \in Blocks(f)
<1>1. \A x : IsStore(x) => ~IsPhi(x) /\ ~IsLoad(x) BY DEF IsStore, IsPhi, IsLoad
<1>2. \A b, v : v \in StoredIn(f, b) <=>
              \E x \in Range(f.code[b]) : IsStore(x) /\ f.operands[x][2] = v
  BY <1>1 DEF StoredIn, Stores, Lval
<1>3. \A b \in Block : StoredIn(f, b) \subseteq Variables BY DEF Variables
<1>4. ASSUME NEW b \in Block, b \notin Blocks(f) PROVE Range(f.code[b]) = {}
  BY <1>4, Code DEF Range
<1> QED BY <1>2, <1>3, <1>4

LEMMA Phis ==
  \A v, b : /\ IsPhi(PhiOf(v, b)) /\ ~IsLoad(PhiOf(v, b)) /\ ~IsStore(PhiOf(v, b))
            /\ \A ops : Lval(PhiOf(v, b), ops) = v
            /\ \A w, c : PhiOf(v, b) = PhiOf(w, c) => v = w /\ b = c
  BY DEF IsPhi, IsLoad, IsStore, Lval, PhiOf

\* Where the phis of a variable are placed: what is reached from a block that stores
\* it has a phi or a strict dominator with a store or a phi.
LEMMA ReachedHasDef ==
  ASSUME f \in Functions, NEW v \in Variables,
         \A b \in Blocks(f) : Defines(b, v) => \A c \in Frontier(f, b) : HasPhi(v, c),
         NEW c \in Block, v \in StoredIn(f, c), NEW n \in ReachableFrom(c)
  PROVE  \/ HasPhi(v, n)
         \/ \E d \in Blocks(f) : Defines(d, v) /\ StrictlyDominates(f, d, n)
<1> DEFINE Has(m) == \/ HasPhi(v, m)
                     \/ \E d \in Blocks(f) : Defines(d, v) /\ StrictlyDominates(f, d, m)
           X == {m \in Blocks(f) : Has(m)}
<1>1. c \in Blocks(f) /\ Blocks(f) \subseteq Block /\ EdgesInside(f) BY Code, Stored
\* An edge from a block that a definition dominates stays below that, or leads to a phi.
<1>2. ASSUME NEW d \in Blocks(f), Defines(d, v), NEW p \in Blocks(f), Dominates(f, d, p),
             NEW s \in SuccOf(f, p)
      PROVE  s \in X
  <2>1. s \in Blocks(f) /\ p \in PredsOf(f, s) BY <1>1, <1>2 DEF EdgesInside, PredsOf
  <2>2. CASE StrictlyDominates(f, d, s) BY <1>2, <2>1, <2>2
  <2>3. CASE ~StrictlyDominates(f, d, s) BY <1>2, <2>1, <2>3 DEF Frontier
  <2> QED BY <2>2, <2>3
<1>3. Succs(c) \subseteq X BY <1>1, <1>2, Code, DominatesReflexive DEF Defines
<1>4. ASSUME NEW m \in X PROVE Succs(m) \subseteq X
  <2>1. CASE HasPhi(v, m) BY <1>1, <1>2, <2>1, Code, DominatesReflexive DEF Defines
  <2>2. ASSUME NEW d \in Blocks(f), Defines(d, v), StrictlyDominates(f, d, m)
        PROVE  Succs(m) \subseteq X
    BY <1>1, <1>2, <2>2, Code DEF StrictlyDominates
  <2> QED BY <2>1, <2>2
<1>5. X \in SUBSET Block BY <1>1
<1>6. n \in X BY <1>3, <1>4, <1>5 DEF ReachableFrom
<1> QED BY <1>6

LEMMA PushesFinite ==
  ASSUME f \in Functions, NEW b \in Block, NEW v, NEW S \in SUBSET Pushes(b, v)
  PROVE  IsFiniteSet(S) /\ Cardinality(S) \in Nat
<1> DEFINE s == f.code[b]
           R == {s[j] : j \in 1..Len(s)}
<1>1. s \in Seq(InstrsIn(f)) /\ Range(s) = R BY Code DEF Range
<1>2. IsFiniteSet(1..Len(s)) BY <1>1, FS_Interval
<1>3. IsFiniteSet(R)
  <2>1. s \in Surjection(1..Len(s), R) BY <1>1 DEF Surjection
  <2> QED BY <1>2, <2>1, FS_Surjection
<1>4. IsFiniteSet(R \cup {PhiOf(v, b)}) BY <1>3, FS_AddElement
<1>5. S \subseteq R \cup {PhiOf(v, b)} BY <1>1 DEF Pushes
<1>6. IsFiniteSet(S) BY <1>4, <1>5, FS_Subset
<1> QED BY <1>6, FS_CardinalityType
----
\* What is said of the function alone, and of the function and the phis.
LEMMA SameFunction ==
  ASSUME f' = f
  PROVE  /\ Variables' = Variables /\ root' = root
         /\ \A b : Children(b)' = Children(b)
<1>1. Variables' = Variables BY Zenon DEF Variables
<1>2. root' = root BY DEF root
<1>3. \A b : Children(b)' = Children(b) BY <1>2, Zenon DEF Children
<1> QED BY <1>1, <1>2, <1>3

LEMMA SamePhis ==
  ASSUME f' = f, DOMAIN ir'.operands = DOMAIN ir.operands
  PROVE  /\ \A v, b : HasPhi(v, b)' = HasPhi(v, b) /\ Defines(b, v)' = Defines(b, v)
         /\ \A v, b : Pushes(b, v)' = Pushes(b, v)
         /\ \A b : PhisOf(b)' = PhisOf(b)
         /\ \A b : ir'.code[b] = ir.code[b] => Intact(b)' = Intact(b)
<1>1. \A v, b : HasPhi(v, b)' = HasPhi(v, b) BY DEF HasPhi
<1>2. \A v, b : Defines(b, v)' = Defines(b, v) BY <1>1, Zenon DEF Defines
<1>3. \A v, b : Pushes(b, v)' = Pushes(b, v) BY <1>1, Zenon DEF Pushes
<1>4. \A b : PhisOf(b)' = PhisOf(b) BY <1>1, SameFunction, Zenon DEF PhisOf
<1>5. \A b : ir'.code[b] = ir.code[b] => Intact(b)' = Intact(b) BY <1>4, Zenon DEF Intact
<1> QED BY <1>1, <1>2, <1>3, <1>4, <1>5

\* After the phis are placed, their placement is disturbed no more.
LEMMA PlaceKept ==
  ASSUME PlaceOK, UNCHANGED <<f, vars_left, var, work_list>>,
         DOMAIN ir'.operands = DOMAIN ir.operands, pc # "place", pc' # "place"
  PROVE  PlaceOK'
<1>1. Variables' = Variables /\ \A v, b : HasPhi(v, b)' = HasPhi(v, b) /\ Defines(b, v)' = Defines(b, v)
  BY SameFunction, SamePhis, Zenon
<1>2. PhisPlaced' BY <1>1, Zenon DEF PlaceOK, PhisPlaced
<1> QED BY <1>1, <1>2 DEF PlaceOK

LEMMA InitIInv == InitPass => IInv
<1> SUFFICES ASSUME InitPass PROVE IInv
  OBVIOUS
<1>1. /\ f \in Functions /\ pc = "place" /\ calls = << >> /\ var_val_stack = << >> /\ line = 0
      /\ work_list = {} /\ vars_left = Variables
      /\ ir = [code |-> f.code, operands |-> f.operands,
               use_list |-> [v \in ValuesIn(f) \cup Block |-> Users(f, v)]]
  BY DEF InitPass, Variables
<1>2. ir.code = f.code /\ ir.operands = f.operands
      /\ ir.use_list = [v \in ValuesIn(f) \cup Block |-> Users(f, v)]
  BY <1>1
<1>3. DOMAIN ir.operands = InstrsIn(f) /\ DOMAIN ir.code = Block
      /\ DOMAIN ir.use_list = ValuesIn(f) \cup Block /\ InstrsIn(f) \subseteq ValuesIn(f)
  BY <1>1, <1>2, Code DEF ValuesIn
<1>4. \A v, b : ~HasPhi(v, b) BY <1>1, <1>3, Phis, Code DEF HasPhi
<1>5. IrOK
  <2>1. \A x \in DOMAIN ir.operands : ir.operands[x] \in Seq(DOMAIN ir.use_list)
    BY <1>1, <1>2, <1>3, Code
  <2>2. ASSUME NEW x \in InstrsIn(f), IsStore(x), NEW v \in DOMAIN ir.use_list, IsLoad(v)
        PROVE  <<x, 2>> \notin ir.use_list[v]
    <3> SUFFICES ASSUME <<x, 2>> \in Users(f, v) PROVE FALSE
      BY <1>2, <1>3
    <3>1. f.operands[x][2] = v BY DEF Users, UsesIn
    <3>2. IsAlloca(f.operands[x][2]) BY <1>1, <2>2, Kinds DEF Allocas
    <3> QED BY <2>2, <3>1, <3>2 DEF IsAlloca, IsLoad
  <2>3. \A x \in InstrsIn(f) : IsStore(x) => Len(ir.operands[x]) = 2 BY <1>1, <1>2, Code
  <2> QED BY <1>1, <1>2, <1>3, <2>1, <2>2, <2>3 DEF IrOK
<1>6. \A b \in Block : Intact(b)
  <2> SUFFICES ASSUME NEW b \in Block PROVE Intact(b)
    OBVIOUS
  <2>1. PhisOf(b) = {} BY <1>4 DEF PhisOf
  <2>2. f.code[b] \in Seq(InstrsIn(f)) /\ IsInjective(f.code[b]) BY <1>1, Code
  <2> QED BY <1>2, <1>3, <2>1, <2>2 DEF Intact
<1>7. PlaceOK BY <1>1, <1>4, <1>6 DEF PlaceOK, PhisPlaced
<1>8. CallsOK BY <1>1 DEF CallsOK
<1>9. StacksOK
  <2>1. BaseOK(<< >>) /\ << >> \in [DOMAIN calls -> [Variables -> Nat]] BY <1>1 DEF BaseOK
  <2>2. Known = {} BY <1>1 DEF Known
  <2> QED BY <1>1, <2>1, <2>2 DEF StacksOK
<1> QED BY <1>1, <1>5, <1>7, <1>8, <1>9 DEF IInv

----
\* While phis are placed, and after the walk, there is no call.
LEMMA NoCalls ==
  ASSUME calls' = << >>, pc' \in {"place", "allocas", "done"}, Known' \subseteq Variables',
         \A v \in Known' : var_val_stack'[v] \in Seq(DOMAIN ir'.use_list)
  PROVE  CallsOK' /\ StacksOK'
<1>1. DOMAIN calls' = {} /\ calls' = << >> OBVIOUS
<1>2. CallsOK' BY <1>1 DEF CallsOK
<1>3. BaseOK(<< >>)' /\ << >> \in [DOMAIN calls -> [Variables -> Nat]]' BY <1>1 DEF BaseOK
<1>4. StacksOK' BY <1>3 DEF StacksOK
<1> QED BY <1>2, <1>4

\* What is deleted and replaced leaves the shape of the code.
LEMMA IrKept ==
  ASSUME IrOK, f' = f, DOMAIN ir'.operands = DOMAIN ir.operands,
         DOMAIN ir'.use_list = DOMAIN ir.use_list, DOMAIN ir'.code = Block,
         ir' = [code |-> ir'.code, operands |-> ir'.operands, use_list |-> ir'.use_list],
         \A x \in DOMAIN ir.operands : ir'.operands[x] \in Seq(DOMAIN ir.use_list),
         \A x \in InstrsIn(f) : IsStore(x) =>
           /\ Len(ir'.operands[x]) = Len(ir.operands[x])
           /\ ir'.operands[x][2] = ir.operands[x][2]
           /\ \A v \in DOMAIN ir.use_list : IsLoad(v) => <<x, 2>> \notin ir'.use_list[v]
  PROVE  IrOK'
BY SameFunction DEF IrOK

LEMMA NextVarStep ==
  ASSUME IInv, NextVar
  PROVE  IInv'
<1>1. /\ pc = "place" /\ work_list = {} /\ UNCHANGED <<f, ir, pc, var_val_stack, calls, line>>
      /\ calls = << >> /\ var_val_stack = << >> /\ \A b \in Block : Intact(b)
  BY Zenon DEF NextVar, IInv, PlaceOK
<1>2. PICK v \in vars_left : var' = v /\ vars_left' = vars_left \ {v}
                             /\ work_list' = {b \in Block : v \in StoredIn(f, b)}
  BY Zenon DEF NextVar
<1>3. /\ Variables' = Variables /\ \A b \in Block : Intact(b)' = Intact(b)
      /\ \A w, b : HasPhi(w, b)' = HasPhi(w, b) /\ Defines(b, w)' = Defines(b, w)
  BY <1>1, SameFunction, SamePhis, Zenon
<1>4. IrOK' BY <1>1, <1>3 DEF IInv, IrOK
<1>5. PhisPlaced'
  <2> SUFFICES ASSUME NEW w \in Variables \ vars_left', NEW b \in Blocks(f), Defines(b, w)
               PROVE  \/ w = var' /\ b \in work_list'
                      \/ \A c \in Frontier(f, b) : HasPhi(w, c)
    BY <1>1, <1>3, Zenon DEF PhisPlaced
  <2>1. CASE w = v BY <2>1, <1>2, Code DEF IInv, PlaceOK, Defines
  <2>2. CASE w # v BY <2>2, <1>1, <1>2 DEF IInv, PlaceOK, PhisPlaced
  <2> QED BY <2>1, <2>2
<1>6. PlaceOK'
  <2>1. work_list' \subseteq Blocks(f) BY <1>2, Stored DEF IInv
  <2> QED BY <1>1, <1>2, <1>3, <1>5, <2>1 DEF IInv, PlaceOK
<1>7. CallsOK' /\ StacksOK'
  <2>1. Known' = {} BY <1>1 DEF Known
  <2> QED BY <1>1, <2>1, NoCalls
<1> QED BY <1>1, <1>4, <1>6, <1>7 DEF IInv

LEMMA PlacePhisStep ==
  ASSUME IInv, PlacePhis
  PROVE  IInv'
<1>1. /\ pc = "place" /\ UNCHANGED <<f, pc, vars_left, var, var_val_stack, calls, line>>
      /\ calls = << >> /\ var_val_stack = << >> /\ \A b \in Block : Intact(b)
      /\ f \in Functions /\ IrOK
  BY Zenon DEF PlacePhis, IInv, PlaceOK
<1>2. PICK b \in work_list :
        LET joins == {c \in Frontier(f, b) : PhiOf(var, c) \notin Range(ir.code[c])}
            phis == {PhiOf(var, c) : c \in joins}
            g   == Declare(ir, phis)
        IN  /\ ir' = [g EXCEPT !.code = [c \in Block |->
                        IF c \in joins THEN <<PhiOf(var, c)>> \o @[c] ELSE @[c]]]
            /\ work_list' = (work_list \ {b}) \cup AlsoLookAt(joins)
  BY Zenon DEF PlacePhis
<1> DEFINE added == {c \in Frontier(f, b) : PhiOf(var, c) \notin Range(ir.code[c])}
           phis == {PhiOf(var, c) : c \in added}
<1>3. /\ work_list' = (work_list \ {b}) \cup added
      /\ ir' = [code |-> ir'.code, operands |-> ir'.operands, use_list |-> ir'.use_list]
      /\ ir'.code = [c \in Block |-> IF c \in added THEN <<PhiOf(var, c)>> \o ir.code[c] ELSE ir.code[c]]
      /\ ir'.operands = [y \in DOMAIN ir.operands \cup phis |-> IF y \in phis THEN << >> ELSE ir.operands[y]]
      /\ ir'.use_list = [y \in DOMAIN ir.use_list \cup phis |-> IF y \in phis THEN {} ELSE ir.use_list[y]]
  BY <1>1, <1>2 DEF Declare, AlsoLookAt, IrOK
<1>4. /\ added \subseteq Blocks(f) /\ Blocks(f) \subseteq Block
      /\ b \in Blocks(f) /\ var \in Variables \ vars_left
  <2>1. work_list \subseteq Blocks(f) /\ (work_list # {} => var \in Variables \ vars_left)
    BY Zenon DEF IInv, PlaceOK
  <2>2. Blocks(f) \subseteq Block BY Code DEF IInv
  <2>3. added \subseteq Blocks(f) BY DEF Frontier
  <2> QED BY <1>1, <1>2, <2>1, <2>2, <2>3
<1>5. DOMAIN ir'.operands = DOMAIN ir.operands \cup phis /\ DOMAIN ir'.use_list = DOMAIN ir.use_list \cup phis
  BY <1>3
<1>6. \A v, c : HasPhi(v, c)' <=> HasPhi(v, c) \/ (v = var /\ c \in added)
  <2>1. \A v, c : PhiOf(v, c) \in phis <=> v = var /\ c \in added BY ONLY Phis, Zenon
  <2> HIDE DEF phis, added
  <2> QED BY ONLY <1>5, <2>1 DEF HasPhi
<1>7. Variables' = Variables /\ \A v, c : Defines(c, v)' <=> Defines(c, v) \/ (v = var /\ c \in added)
  <2>1. \A v, c : (v \in StoredIn(f, c))' <=> v \in StoredIn(f, c) BY <1>1, Zenon
  <2>2. Variables' = Variables BY <1>1, SameFunction, Zenon
  <2> QED BY <1>6, <2>1, <2>2, Zenon DEF Defines
<1>8. \A x \in phis : IsPhi(x) /\ ~IsLoad(x) /\ ~IsStore(x) BY Phis
<1>9. IrOK'
  <2>1. \A x \in DOMAIN ir'.operands : ir'.operands[x] \in Seq(DOMAIN ir'.use_list)
    <3> SUFFICES ASSUME NEW x \in DOMAIN ir'.operands PROVE ir'.operands[x] \in Seq(DOMAIN ir'.use_list)
      OBVIOUS
    <3>1. CASE x \in phis BY <3>1, <1>3, <1>5
    <3>2. CASE x \notin phis
      <4>1. ir'.operands[x] = ir.operands[x] /\ ir.operands[x] \in Seq(DOMAIN ir.use_list)
        BY <3>2, <1>1, <1>3, <1>5 DEF IrOK
      <4> HIDE DEF phis
      <4> QED BY <4>1, <1>5
    <3> QED BY <3>1, <3>2
  <2>2. ASSUME NEW x \in InstrsIn(f), IsStore(x)
        PROVE  /\ Len(ir'.operands[x]) = 2
               /\ ir'.operands[x][2] = f.operands[x][2]
               /\ \A v \in DOMAIN ir'.use_list : IsLoad(v) => <<x, 2>> \notin ir'.use_list[v]
    BY <2>2, <1>1, <1>3, <1>5, <1>8 DEF IrOK
  <2>3. \A x \in DOMAIN ir'.operands :
          x \in InstrsIn(f) \/ \E v \in Variables, c \in Blocks(f) : x = PhiOf(v, c)
    BY <1>1, <1>4, <1>5 DEF IrOK
  <2>4. /\ DOMAIN ir'.code = Block /\ InstrsIn(f) \subseteq DOMAIN ir'.operands
        /\ DOMAIN ir'.operands \subseteq DOMAIN ir'.use_list /\ Block \subseteq DOMAIN ir'.use_list
    <3> HIDE DEF phis
    <3> QED BY <1>1, <1>3, <1>5 DEF IrOK
  <2> QED BY <1>1, <1>3, <1>7, <2>1, <2>2, <2>3, <2>4, Zenon DEF IrOK
<1>10. \A c \in Block : Intact(c)'
  <2> SUFFICES ASSUME NEW c \in Block PROVE Intact(c)'
    OBVIOUS
  <2>1. Intact(c) BY <1>1
  <2>2. CASE c \notin added
    <3>1. ir'.code[c] = ir.code[c] BY <1>3, <2>2
    <3>2. PhisOf(c)' = PhisOf(c) BY <1>6, <1>7, <2>2, Zenon DEF PhisOf
    <3> HIDE DEF phis
    <3> QED BY <2>1, <3>1, <3>2, <1>1, <1>5 DEF Intact
  <2>3. CASE c \in added
    <3>1. ir'.code[c] = <<PhiOf(var, c)>> \o ir.code[c] /\ PhiOf(var, c) \notin Range(ir.code[c])
      BY <1>3, <2>3
    <3>2. PhisOf(c)' = PhisOf(c) \cup {PhiOf(var, c)} BY <1>4, <1>6, <1>7, <2>3 DEF PhisOf
    <3>3. ir.code[c] \in Seq(DOMAIN ir'.operands) /\ PhiOf(var, c) \in DOMAIN ir'.operands
      <4> PhiOf(var, c) \in phis
        BY <2>3
      <4> HIDE DEF phis
      <4> QED BY <2>1, <1>5 DEF Intact
    <3> DEFINE s == ir.code[c]
               p == PhiOf(var, c)
               D == DOMAIN ir'.operands
    <3> HIDE DEF s, p, D
    <3>4. s \in Seq(D) /\ p \in D /\ p \notin Range(s) /\ IsInjective(s)
      BY <3>1, <3>3, <2>1 DEF s, p, D, Intact
    <3>5. /\ <<p>> \o s \in Seq(D) /\ IsInjective(<<p>> \o s)
          /\ Range(<<p>> \o s) = Range(s) \cup {p}
      <4>1. Len(<<p>> \o s) = Len(s) + 1 /\ <<p>> \o s \in Seq(D) /\ Len(s) \in Nat BY <3>4
      <4>2. (<<p>> \o s)[1] = p /\ \A j \in 2..(Len(s) + 1) : (<<p>> \o s)[j] = s[j - 1] BY <3>4
      <4>3. \A j \in 1..Len(s) : s[j] # p BY <3>4 DEF Range
      <4>4. IsInjective(<<p>> \o s) BY <3>4, <4>1, <4>2, <4>3 DEF IsInjective
      <4>5. Range(<<p>> \o s) = Range(s) \cup {p}
        <5>1. \A j \in 1..Len(s) : (<<p>> \o s)[j + 1] = s[j] /\ j + 1 \in 1..(Len(s) + 1)
          BY <4>1, <4>2
        <5>2. \A j \in 2..(Len(s) + 1) : j - 1 \in 1..Len(s) BY <4>1
        <5>3. DOMAIN s = 1..Len(s) /\ DOMAIN (<<p>> \o s) = 1..(Len(s) + 1) BY <3>4, <4>1
        <5>4. \A y : y \in Range(s) <=> \E j \in 1..Len(s) : s[j] = y BY <5>3 DEF Range
        <5>5. \A y : y \in Range(<<p>> \o s) <=> \E j \in 1..(Len(s) + 1) : (<<p>> \o s)[j] = y
          BY <5>3 DEF Range
        <5>6. ASSUME NEW y \in Range(<<p>> \o s) PROVE y \in Range(s) \cup {p}
          <6>1. PICK j \in 1..(Len(s) + 1) : (<<p>> \o s)[j] = y BY <5>5
          <6>2. CASE j = 1 BY <4>2, <6>1, <6>2
          <6>3. CASE j # 1 BY <4>1, <4>2, <5>2, <5>4, <6>1, <6>3
          <6> QED BY <6>2, <6>3
        <5>7. ASSUME NEW y \in Range(s) PROVE y \in Range(<<p>> \o s)
          BY <5>1, <5>4, <5>5, <5>7
        <5>8. p \in Range(<<p>> \o s) BY <4>1, <4>2, <5>5
        <5> QED BY <5>6, <5>7, <5>8
      <4> QED BY <4>1, <4>4, <4>5
    <3>6. Range(s) = Range(f.code[c]) \cup PhisOf(c) BY <2>1 DEF s, Intact
    <3> QED BY <1>1, <3>1, <3>2, <3>5, <3>6 DEF s, p, D, Intact
  <2> QED BY <2>2, <2>3
<1>11. PhisPlaced'
  <2> SUFFICES ASSUME NEW v \in Variables \ vars_left, NEW c \in Blocks(f), Defines(c, v)'
               PROVE  \/ v = var /\ c \in work_list'
                      \/ \A e \in Frontier(f, c) : HasPhi(v, e)'
    BY <1>1, <1>7, Zenon DEF PhisPlaced
  <2>1. CASE v = var /\ c \in added BY <1>3, <2>1
  <2>2. CASE v = var /\ c \in work_list /\ c # b BY <1>3, <2>2
  <2>3. CASE v = var /\ c = b
    <3> SUFFICES ASSUME NEW e \in Frontier(f, b) PROVE HasPhi(v, e)'
      BY <2>3
    <3>1. CASE e \in added BY <1>6, <2>3, <3>1
    <3>2. CASE e \notin added
      <4>1. PhiOf(var, e) \in Range(ir.code[e]) /\ e \in Block BY <3>2, <1>4 DEF Frontier
      <4>2. PhiOf(var, e) \in DOMAIN ir.operands BY <4>1, <1>1 DEF Intact, Range
      <4> QED BY <4>2, <2>3, <1>6 DEF HasPhi
    <3> QED BY <3>1, <3>2
  <2>4. CASE ~(v = var /\ c \in added) /\ ~(v = var /\ c \in work_list)
    BY <1>6, <1>7, <2>4 DEF IInv, PlaceOK, PhisPlaced
  <2> QED BY <2>1, <2>2, <2>3, <2>4
<1>12. PlaceOK'
  <2>1. \A v \in vars_left', c \in Block : ~HasPhi(v, c)' BY <1>1, <1>4, <1>6 DEF IInv, PlaceOK
  <2>2. work_list' \subseteq Blocks(f) BY <1>3, <1>4 DEF IInv, PlaceOK
  <2> QED BY <1>1, <1>4, <1>7, <1>10, <1>11, <2>1, <2>2 DEF IInv, PlaceOK
<1>13. CallsOK' /\ StacksOK'
  <2>1. Known' = {} BY <1>1 DEF Known
  <2> QED BY <1>1, <2>1, NoCalls
<1> QED BY <1>1, <1>9, <1>12, <1>13 DEF IInv

LEMMA StartRenameStep ==
  ASSUME IInv, StartRename
  PROVE  IInv'
<1>1. /\ pc = "place" /\ pc' = "enter" /\ work_list = {} /\ vars_left = {}
      /\ UNCHANGED <<f, ir, vars_left, var, work_list, var_val_stack, line>>
      /\ calls' = <<Call(root)>> /\ var_val_stack = << >> /\ \A b \in Block : Intact(b)
      /\ f \in Functions /\ IrOK /\ PlaceOK
  BY Zenon DEF StartRename, IInv, PlaceOK
<1>2. /\ Variables' = Variables /\ \A b \in Block : Intact(b)'
      /\ root' = root /\ \A b : Children(b)' = Children(b)
      /\ \A v, b : HasPhi(v, b)' = HasPhi(v, b) /\ Defines(b, v)' = Defines(b, v)
  BY <1>1, SameFunction, SamePhis, Zenon
<1>3. IrOK' BY <1>1, <1>2 DEF IrOK
<1>4. PlaceOK'
  <2>1. PhisPlaced' BY <1>1, <1>2, Zenon DEF PlaceOK, PhisPlaced
  <2> QED BY <1>1, <1>2, <2>1 DEF PlaceOK
<1>5. DOMAIN calls' = {1} /\ calls'[1] = [bb |-> root, wait_delete |-> {}, left |-> Children(root)]
      /\ Len(calls') = 1 /\ calls' # << >>
  BY <1>1 DEF Call
<1>6. ASSUME NEW d \in Blocks(f), StrictlyDominates(f, d, root) PROVE FALSE
  <2>1. Dominates(f, root, d) /\ AllReached(f) /\ root \in Blocks(f)
    <3>1. Around(f, root, {}) BY DEF Around, root
    <3> QED BY <1>1, <3>1, Code DEF Dominates
  <2> QED BY <1>6, <2>1, DominatesAntisymmetric DEF StrictlyDominates
<1>7. CallsOK'
  <2>1. calls' \in Seq([bb : Blocks(f), wait_delete : SUBSET InstrsIn(f), left : SUBSET Blocks(f)])
    <3>1. root \in Blocks(f) /\ Children(root) \subseteq Blocks(f) BY <1>1, Code DEF Children
    <3> QED BY <1>1, <3>1 DEF Call
  <2>2. \A k \in DOMAIN calls' : Intact(calls[k].bb)' BY <1>1, <1>2, <1>5, Code
  <2>3. \A k \in DOMAIN calls' : \A c \in calls'[k].left, n \in Blocks(f) : Dominates(f, c, n) => Intact(n)'
    BY <1>1, <1>2, Code
  <2>4. \A k \in DOMAIN calls' : calls'[k].left \subseteq Children(calls[k].bb)' BY <1>2, <1>5
  <2>5. \A k \in DOMAIN calls' : ~(k > 1) BY <1>5
  <2>6. \A k \in DOMAIN calls', j \in DOMAIN calls' : ~(j < k) BY <1>5
  <2>7. \A k \in DOMAIN calls', d \in Blocks(f) : ~StrictlyDominates(f, d, calls'[k].bb)
    BY <1>5, <1>6
  <2> QED BY <1>1, <1>2, <1>5, <2>1, <2>2, <2>3, <2>4, <2>5, <2>6, <2>7 DEF CallsOK
<1>8. StacksOK'
  <2>1. Known' = {} /\ \A v : StackOf(v)' = << >> BY <1>1 DEF Known, StackOf
  <2>2. \A v : Here(v)' = {} BY <1>1 DEF Here
  <2>3. Cardinality({}) = 0 BY FS_EmptySet
  <2>4. PICK base \in [DOMAIN calls' -> [Variables -> Nat]] :
               \A k \in {1} : \A v \in Variables : base[k][v] = 0
    <3>1. [k \in {1} |-> [v \in Variables |-> 0]] \in [DOMAIN calls' -> [Variables -> Nat]] BY <1>5
    <3> QED BY <3>1
  <2>5. BaseOK(base)'
    <3>1. ASSUME NEW v \in Variables
          PROVE  Len(StackOf(v)') = base[Len(calls')][v] + Cardinality(Here(v)')
      <4>1. Len(StackOf(v)') = 0 BY <2>1
      <4>2. Cardinality(Here(v)') = 0 BY <2>2, <2>3
      <4>3. base[Len(calls')][v] = 0 BY <1>5, <2>4
      <4> HIDE DEF StackOf, Here
      <4> QED BY <4>1, <4>2, <4>3
    <3>2. \A k \in DOMAIN calls' : k = 1 /\ ~(k > 1) /\ 1..(k - 1) = {} BY <1>5
    <3>3. \A k \in DOMAIN calls' : \A v \in Variables : base[k][v] = 0 BY <1>5, <2>4
    <3> QED BY <1>2, <2>4, <3>1, <3>2, <3>3, Zenon DEF BaseOK
  <2>6. \E x \in [DOMAIN calls -> [Variables -> Nat]]' : BaseOK(x)' BY <1>2, <2>4, <2>5
  <2> QED BY <1>1, <2>1, <2>6 DEF StacksOK
<1> QED BY <1>1, <1>3, <1>4, <1>7, <1>8 DEF IInv
----
\* What the walk does within a block leaves the calls as they are.
LEMMA CallsKept ==
  ASSUME CallsOK, f \in Functions, f' = f, DOMAIN ir'.operands = DOMAIN ir.operands, ir'.code = ir.code,
         pc \in {"enter", "instr", "children", "abort"},
         pc' \in {"enter", "instr", "children", "abort"},
         calls' \in Seq([bb : Blocks(f), wait_delete : SUBSET InstrsIn(f), left : SUBSET Blocks(f)]),
         DOMAIN calls' = DOMAIN calls,
         \A k \in DOMAIN calls : calls'[k].bb = calls[k].bb /\ calls'[k].left = calls[k].left
  PROVE  CallsOK'
<1>1. calls # << >> /\ calls' # << >> /\ 1 \in DOMAIN calls BY DEF CallsOK
<1>2. /\ root' = root /\ \A b : Children(b)' = Children(b)
      /\ \A b : Intact(b)' = Intact(b)
  BY SameFunction, SamePhis, Zenon
<1>3. DOMAIN calls = 1..Len(calls) BY DEF CallsOK
<1>4. \A k \in DOMAIN calls : Intact(calls[k].bb)' BY <1>2 DEF CallsOK
<1>5. \A k \in DOMAIN calls : calls'[k].left \subseteq Children(calls[k].bb)' BY <1>2 DEF CallsOK
<1>6. \A k \in DOMAIN calls : k > 1 => k - 1 \in DOMAIN calls BY <1>3
<1>7. \A k \in DOMAIN calls' : k > 1 =>
        IsIdom(f, calls'[k - 1].bb, calls'[k].bb) /\ calls'[k].bb \notin calls'[k - 1].left
  BY <1>6 DEF CallsOK
<1>8. \A k \in DOMAIN calls', j \in DOMAIN calls' :
        j < k => StrictlyDominates(f, calls'[j].bb, calls'[k].bb)
  <2>1. \A k \in DOMAIN calls, j \in DOMAIN calls : j < k => StrictlyDominates(f, calls[j].bb, calls[k].bb)
    BY Zenon DEF CallsOK
  <2> QED BY <2>1
<1>9. \A k \in DOMAIN calls', d \in Blocks(f) : StrictlyDominates(f, d, calls'[k].bb) =>
        \E j \in 1..(k - 1) : calls'[j].bb = d
  <2>1. \A k \in DOMAIN calls : \A j \in 1..(k - 1) : j \in DOMAIN calls BY <1>3
  <2>2. \A k \in DOMAIN calls, d \in Blocks(f) : StrictlyDominates(f, d, calls[k].bb) =>
          \E j \in 1..(k - 1) : calls[j].bb = d
    BY Zenon DEF CallsOK
  <2> QED BY <2>1, <2>2
<1>10. \A k \in DOMAIN calls' : \A c \in calls'[k].left, n \in Blocks(f) : Dominates(f, c, n) => Intact(n)'
  BY <1>2 DEF CallsOK
<1>11. /\ pc' \in {"place", "enter", "instr", "children", "allocas", "done", "abort"}
       /\ pc' \in {"place", "allocas", "done"} <=> calls' = << >>
       /\ calls'[1].bb = root
  BY <1>1 DEF CallsOK
<1> QED BY <1>2, <1>4, <1>5, <1>7, <1>8, <1>9, <1>10, <1>11, Zenon DEF CallsOK

LEMMA HereFinite ==
  ASSUME f \in Functions, CallsOK, calls # << >>, NEW v
  PROVE  IsFiniteSet(Here(v)) /\ Cardinality(Here(v)) \in Nat /\ bb_ \in Blocks(f) /\ bb_ \in Block
<1>1. Len(calls) \in DOMAIN calls /\ bb_ \in Blocks(f)
  <2>1. calls \in Seq([bb : Blocks(f), wait_delete : SUBSET InstrsIn(f), left : SUBSET Blocks(f)])
    BY DEF CallsOK
  <2>2. Len(calls) \in 1..Len(calls) /\ DOMAIN calls = 1..Len(calls) BY <2>1
  <2>3. this \in [bb : Blocks(f), wait_delete : SUBSET InstrsIn(f), left : SUBSET Blocks(f)]
    <3> DEFINE S == [bb : Blocks(f), wait_delete : SUBSET InstrsIn(f), left : SUBSET Blocks(f)]
    <3>1. calls \in Seq(S) BY <2>1
    <3> HIDE DEF S
    <3>2. calls[Len(calls)] \in S BY <2>2, <3>1
    <3> QED BY <3>2 DEF this, S
  <2> QED BY <2>2, <2>3 DEF bb_
<1>2. bb_ \in Block BY <1>1, Code
<1>3. Here(v) \in SUBSET Pushes(bb_, v) BY DEF Here, PushedBy
<1> QED BY <1>1, <1>2, <1>3, PushesFinite

BaseKept == \A base : BaseOK(base) => BaseOK(base)'

\* So a stack that grows by what is pushed stays as high as it should be.
LEMMA StacksKept ==
  ASSUME IInv, CallsOK', calls # << >>, f' = f, DOMAIN ir'.operands = DOMAIN ir.operands,
         DOMAIN calls' = DOMAIN calls, Len(calls') = Len(calls),
         \A k \in DOMAIN calls : calls'[k].bb = calls[k].bb,
         Known' \subseteq Variables,
         \A v \in Known' : var_val_stack'[v] \in Seq(DOMAIN ir'.use_list),
         pc' \in {"instr", "abort"} => line' \in 0..Len(ir'.code[bb_']),
         \A v \in Variables : \E n \in Nat : /\ Len(StackOf(v)') = Len(StackOf(v)) + n
                                             /\ Cardinality(Here(v)') = Cardinality(Here(v)) + n
  PROVE  StacksOK' /\ BaseKept
<1>1. /\ Variables' = Variables /\ f \in Functions /\ CallsOK /\ StacksOK
      /\ \A v, b : Pushes(b, v)' = Pushes(b, v)
  BY SameFunction, SamePhis, Zenon DEF IInv
<1>2. ASSUME NEW base, BaseOK(base) PROVE BaseOK(base)'
  <2>0. base \in [DOMAIN calls -> [Variables -> Nat]] BY <1>2 DEF BaseOK
  <2>1. \A v \in Variables : Len(StackOf(v)') = base[Len(calls)][v] + Cardinality(Here(v)')
    <3> SUFFICES ASSUME NEW v \in Variables
                 PROVE  Len(StackOf(v)') = base[Len(calls)][v] + Cardinality(Here(v)')
      OBVIOUS
    <3>1. PICK n \in Nat : /\ Len(StackOf(v)') = Len(StackOf(v)) + n
                           /\ Cardinality(Here(v)') = Cardinality(Here(v)) + n
      OBVIOUS
    <3>2. Len(StackOf(v)) = base[Len(calls)][v] + Cardinality(Here(v)) BY <1>2 DEF BaseOK
    <3>3. Len(calls) \in DOMAIN calls /\ base[Len(calls)][v] \in Nat /\ Cardinality(Here(v)) \in Nat
      BY <1>1, <2>0, HereFinite DEF CallsOK
    <3> HIDE DEF Here, StackOf
    <3> QED BY <3>1, <3>2, <3>3
  <2>2. \A v \in Variables : Len(StackOf(v))' = base[Len(calls')][v] + Cardinality(Here(v))' BY <2>1
  <2>3. \A k \in DOMAIN calls : \A v : Pushes(calls[k].bb, v)' = Pushes(calls[k].bb, v) BY <1>1
  <2>4. \A v \in Variables : \A k \in DOMAIN calls' :
       /\ k = 1 => base[k][v] = 0
       /\ k > 1 => base[k][v] = base[k - 1][v] + Cardinality(Pushes(calls[k - 1].bb, v)')
       /\ \A j \in 1..(k - 1) : base[k][v] >= base[j][v] + Cardinality(Pushes(calls[j].bb, v)')
    <3>1. DOMAIN calls = 1..Len(calls) /\ Len(calls) \in Nat BY <1>1 DEF CallsOK
    <3>2. \A k \in DOMAIN calls : \A j \in 1..(k - 1) : j \in DOMAIN calls BY <3>1
    <3>3. \A k \in DOMAIN calls : k > 1 => k - 1 \in DOMAIN calls BY <3>1
    <3> SUFFICES ASSUME NEW v \in Variables, NEW k \in DOMAIN calls
                 PROVE  /\ k = 1 => base[k][v] = 0
                        /\ k > 1 => base[k][v] = base[k - 1][v] + Cardinality(Pushes(calls[k - 1].bb, v)')
                        /\ \A j \in 1..(k - 1) : base[k][v] >= base[j][v] + Cardinality(Pushes(calls[j].bb, v)')
      OBVIOUS
    <3>4. \A j \in DOMAIN calls : Pushes(calls[j].bb, v)' = Pushes(calls[j].bb, v) BY <2>3
    <3>5. /\ k = 1 => base[k][v] = 0
          /\ k > 1 => base[k][v] = base[k - 1][v] + Cardinality(Pushes(calls[k - 1].bb, v))
          /\ \A j \in 1..(k - 1) : base[k][v] >= base[j][v] + Cardinality(Pushes(calls[j].bb, v))
      BY <1>2 DEF BaseOK
    <3> QED BY <3>2, <3>3, <3>4, <3>5
  <2> QED BY <1>1, <2>0, <2>2, <2>4 DEF BaseOK
<1>3. PICK base \in [DOMAIN calls -> [Variables -> Nat]] : BaseOK(base) BY <1>1 DEF StacksOK
<1>4. \E x \in [DOMAIN calls -> [Variables -> Nat]]' : BaseOK(x)' BY <1>1, <1>2, <1>3
<1>5. StacksOK' BY <1>1, <1>4 DEF StacksOK
<1>6. BaseKept BY <1>2, Zenon DEF BaseKept
<1> QED BY <1>5, <1>6

\* The block of the last call.
LEMMA AtBlock ==
  ASSUME IInv, calls # << >>
  PROVE  /\ bb_ \in Blocks(f) /\ bb_ \in Block /\ Len(calls) \in DOMAIN calls
         /\ ir.code[bb_] \in Seq(DOMAIN ir.operands) /\ IsInjective(ir.code[bb_])
         /\ \A x \in Range(ir.code[bb_]) :
              IF IsPhi(x) THEN \E v \in Variables : x = PhiOf(v, bb_) /\ HasPhi(v, bb_)
                          ELSE x \in Range(f.code[bb_]) /\ x \in InstrsIn(f)
         /\ \A v \in Variables : HasPhi(v, bb_) => PhiOf(v, bb_) \in Range(ir.code[bb_])
         /\ \A v \in Variables : Pushes(bb_, v) \subseteq Range(ir.code[bb_])
<1>1. f \in Functions /\ bb_ \in Blocks(f) /\ bb_ \in Block BY HereFinite DEF IInv
<1>2. Len(calls) \in DOMAIN calls BY DEF IInv, CallsOK
<1>3. Intact(bb_) BY <1>2 DEF IInv, CallsOK, bb_, this
<1>4. ir.code[bb_] \in Seq(DOMAIN ir.operands) /\ IsInjective(ir.code[bb_])
      /\ Range(ir.code[bb_]) = Range(f.code[bb_]) \cup PhisOf(bb_)
  BY <1>3, Zenon DEF Intact
<1>5. \A x \in Range(f.code[bb_]) : x \in InstrsIn(f) /\ ~IsPhi(x) BY <1>1, Code DEF InstrsIn
<1>6. \A x \in PhisOf(bb_) : IsPhi(x) /\ \E v \in Variables : x = PhiOf(v, bb_) /\ HasPhi(v, bb_)
  BY Phis DEF PhisOf
<1>7. \A v \in Variables : HasPhi(v, bb_) => PhiOf(v, bb_) \in PhisOf(bb_) BY DEF PhisOf
<1>8. \A v \in Variables : Pushes(bb_, v) \subseteq Range(ir.code[bb_]) BY <1>4, <1>7 DEF Pushes
<1> QED BY <1>1, <1>2, <1>4, <1>5, <1>6, <1>7, <1>8

\* The instruction the walk is at.
LEMMA AtInstrOfBlock ==
  ASSUME IInv, pc = "instr", line < Len(ir.code[bb_])
  PROVE  /\ calls # << >> /\ line \in Nat /\ line + 1 \in 1..Len(ir.code[bb_])
         /\ instr \in Range(ir.code[bb_]) /\ instr \in DOMAIN ir.operands
         /\ ~IsPhi(instr) => instr \in InstrsIn(f) /\ instr \in Range(f.code[bb_])
         /\ \A j \in 1..line : ir.code[bb_][j] # instr
         /\ \A v : PushedBy(line + 1, v) = PushedBy(line, v) \cup {x \in {instr} : x \in Pushes(bb_, v)}
<1>1. calls # << >> /\ line \in 0..Len(ir.code[bb_]) BY DEF IInv, CallsOK, StacksOK
<1> DEFINE s == ir.code[bb_]
           D == DOMAIN ir.operands
<1>2. s \in Seq(D) /\ IsInjective(s) BY <1>1, AtBlock
<1> HIDE DEF s, D
<1>3. line < Len(s) /\ line \in 0..Len(s) /\ instr = s[line + 1] BY <1>1 DEF s, instr
<1>4. Len(s) \in Nat /\ DOMAIN s = 1..Len(s) BY <1>2
<1>5. line \in Nat /\ line + 1 \in 1..Len(s) BY <1>3, <1>4
<1>6. instr \in Range(s) /\ instr \in D BY <1>2, <1>3, <1>4, <1>5 DEF Range
<1>7. \A j \in 1..line : s[j] # instr
  <2> SUFFICES ASSUME NEW j \in 1..line, s[j] = instr PROVE FALSE
    OBVIOUS
  <2>1. j \in 1..Len(s) /\ j # line + 1 BY <1>4, <1>5
  <2> QED BY <1>2, <1>3, <1>4, <1>5, <2>1 DEF IsInjective
<1>8. \A v : PushedBy(line + 1, v) = PushedBy(line, v) \cup {x \in {instr} : x \in Pushes(bb_, v)}
  <2>1. \A j : j \in 1..(line + 1) <=> j \in 1..line \/ j = line + 1 BY <1>5
  <2>2. \A x : (\E j \in 1..(line + 1) : s[j] = x) <=> (\E j \in 1..line : s[j] = x) \/ x = instr
    BY <1>3, <2>1
  <2> QED BY <2>2 DEF PushedBy, s
<1>9. ~IsPhi(instr) => instr \in InstrsIn(f) /\ instr \in Range(f.code[bb_])
  BY <1>1, <1>6, AtBlock DEF s
<1> QED BY <1>1, <1>5, <1>6, <1>7, <1>8, <1>9 DEF s, D

LEMMA StackTyped ==
  ASSUME StacksOK, NEW v
  PROVE  StackOf(v) \in Seq(DOMAIN ir.use_list)
<1> DEFINE D == DOMAIN ir.use_list
<1>1. \A w \in Known : var_val_stack[w] \in Seq(D) BY DEF StacksOK
<1> HIDE DEF D
<1>2. << >> \in Seq(D) OBVIOUS
<1>3. StackOf(v) \in Seq(D) BY <1>1, <1>2 DEF StackOf
<1> QED BY <1>3 DEF D

LEMMA PushPhisStep ==
  ASSUME IInv, PushPhis
  PROVE  IInv' /\ BaseKept
<1> DEFINE names == {Lval(p, << >>) : p \in PhisIn(bb_)}
<1>1. /\ pc = "enter" /\ pc' = "instr" /\ line' = 0
      /\ UNCHANGED <<f, ir, vars_left, var, work_list, calls>>
      /\ var_val_stack' = [v \in Known \cup names |->
           IF v \in names THEN Append(StackOf(v), PhiOf(v, bb_)) ELSE var_val_stack[v]]
  BY Zenon DEF PushPhis
<1>2. /\ calls # << >> /\ f \in Functions /\ CallsOK /\ IrOK /\ PlaceOK
      /\ Known \subseteq Variables /\ \A v \in Known : var_val_stack[v] \in Seq(DOMAIN ir.use_list)
  BY <1>1 DEF IInv, CallsOK, StacksOK
<1>3. /\ bb_ \in Blocks(f) /\ ir.code[bb_] \in Seq(DOMAIN ir.operands) /\ bb_' = bb_
  BY <1>1, <1>2, AtBlock DEF bb_, this
<1>4. \A v : v \in names <=> v \in Variables /\ HasPhi(v, bb_)
  <2>1. ASSUME NEW p \in PhisIn(bb_) PROVE Lval(p, << >>) \in Variables /\ HasPhi(Lval(p, << >>), bb_)
    BY <1>2, AtBlock, Phis DEF PhisIn
  <2>2. ASSUME NEW v \in Variables, HasPhi(v, bb_) PROVE v \in names
    <3>1. PhiOf(v, bb_) \in PhisIn(bb_) /\ Lval(PhiOf(v, bb_), << >>) = v
      BY <1>2, <2>2, AtBlock, Phis DEF PhisIn
    <3> QED BY <3>1
  <2> QED BY <2>1, <2>2
<1> HIDE DEF names
<1>5. IrOK' /\ PlaceOK' /\ CallsOK'
  <2>1. IrOK' BY <1>1, <1>2, IrKept DEF IrOK
  <2>2. PlaceOK' BY <1>1, <1>2, PlaceKept
  <2>3. CallsOK'
    <3>1. calls' \in Seq([bb : Blocks(f), wait_delete : SUBSET InstrsIn(f), left : SUBSET Blocks(f)])
      BY <1>1, <1>2 DEF CallsOK
    <3> QED BY <1>1, <1>2, <3>1, CallsKept
  <2> QED BY <2>1, <2>2, <2>3
<1>6. Known' = Known \cup names /\ Known' \subseteq Variables BY <1>1, <1>2, <1>4 DEF Known
<1>7. \A v \in Variables : StackOf(v)' = IF v \in names THEN Append(StackOf(v), PhiOf(v, bb_)) ELSE StackOf(v)
  BY <1>1, <1>6 DEF StackOf
<1>8. \A v \in Variables : StackOf(v) \in Seq(DOMAIN ir.use_list) BY StackTyped DEF IInv
<1>9. \A v \in Known' : var_val_stack'[v] \in Seq(DOMAIN ir'.use_list)
  <2> SUFFICES ASSUME NEW v \in Known' PROVE var_val_stack'[v] \in Seq(DOMAIN ir.use_list)
    BY <1>1
  <2>1. CASE v \in names
    <3>1. PhiOf(v, bb_) \in DOMAIN ir.use_list BY <1>2, <1>4, <2>1 DEF HasPhi, IrOK
    <3> QED BY <1>1, <1>4, <1>6, <1>8, <2>1, <3>1
  <2>2. CASE v \notin names BY <1>1, <1>2, <1>6, <2>2
  <2> QED BY <2>1, <2>2
<1>10. \A v \in Variables : \E n \in Nat : /\ Len(StackOf(v)') = Len(StackOf(v)) + n
                                           /\ Cardinality(Here(v)') = Cardinality(Here(v)) + n
  <2> SUFFICES ASSUME NEW v \in Variables
               PROVE  \E n \in Nat : /\ Len(StackOf(v)') = Len(StackOf(v)) + n
                                     /\ Cardinality(Here(v)') = Cardinality(Here(v)) + n
    OBVIOUS
  <2>1. Here(v) = {} /\ Cardinality({}) = 0 BY <1>1, FS_EmptySet DEF Here
  <2>2. Here(v)' = {x \in Pushes(bb_, v) : IsPhi(x)}
    <3>1. Here(v)' = {x \in Pushes(bb_, v)' : IsPhi(x) \/ \E j \in 1..0 : ir'.code[bb_][j] = x}
      BY <1>1, <1>3 DEF Here, PushedBy
    <3>2. Pushes(bb_, v)' = Pushes(bb_, v) BY <1>1, <1>3, SamePhis, Zenon
    <3> QED BY <3>1, <3>2
  <2>3. \A x \in Pushes(bb_, v) : IsPhi(x) <=> x = PhiOf(v, bb_) BY Phis DEF Pushes, IsStore, IsPhi
  <2>4. CASE v \in names
    <3>1. Here(v)' = {PhiOf(v, bb_)} BY <1>4, <2>2, <2>3, <2>4 DEF Pushes
    <3>2. Cardinality(Here(v)') = 1 BY <3>1, FS_Singleton
    <3>3. Len(StackOf(v)') = Len(StackOf(v)) + 1 BY <1>7, <1>8, <2>4
    <3> HIDE DEF StackOf, Here
    <3> QED BY <2>1, <3>2, <3>3
  <2>5. CASE v \notin names
    <3>1. Here(v)' = {}
      <4>1. \A x \in Pushes(bb_, v) : ~IsPhi(x) BY <1>4, <2>5 DEF Pushes, IsStore, IsPhi
      <4> QED BY <2>2, <4>1
    <3>2. Len(StackOf(v)') = Len(StackOf(v)) + 0 BY <1>7, <1>8, <2>5
    <3> HIDE DEF StackOf, Here
    <3> QED BY <2>1, <3>1, <3>2
  <2> QED BY <2>4, <2>5
<1>11. StacksOK' /\ BaseKept
  <2>1. line' \in 0..Len(ir'.code[bb_']) BY <1>1, <1>3
  <2> QED BY <1>1, <1>2, <1>5, <1>6, <1>9, <1>10, <2>1, StacksKept
<1> QED BY <1>1, <1>2, <1>5, <1>11 DEF IInv

\* An instruction that is noted for deletion changes no more of the calls.
LEMMA Marked ==
  ASSUME CallsOK, calls # << >>,
         calls' = calls \/ \E x \in InstrsIn(f) : WaitDelete(x)
  PROVE  /\ calls' \in Seq([bb : Blocks(f), wait_delete : SUBSET InstrsIn(f), left : SUBSET Blocks(f)])
         /\ DOMAIN calls' = DOMAIN calls /\ Len(calls') = Len(calls) /\ bb_' = bb_
         /\ \A k \in DOMAIN calls : calls'[k].bb = calls[k].bb /\ calls'[k].left = calls[k].left
<1> DEFINE S == [bb : Blocks(f), wait_delete : SUBSET InstrsIn(f), left : SUBSET Blocks(f)]
<1>1. calls \in Seq(S) BY DEF CallsOK
<1>2. CASE calls' = calls BY <1>1, <1>2 DEF bb_, this
<1>3. ASSUME NEW x \in InstrsIn(f), WaitDelete(x)
      PROVE  /\ calls' \in Seq(S)
             /\ DOMAIN calls' = DOMAIN calls /\ Len(calls') = Len(calls) /\ bb_' = bb_
             /\ \A k \in DOMAIN calls : calls'[k].bb = calls[k].bb /\ calls'[k].left = calls[k].left
  <2>1. Len(calls) \in 1..Len(calls) /\ DOMAIN calls = 1..Len(calls) /\ Len(calls) \in Nat BY <1>1
  <2>2. \A k \in 1..Len(calls) : calls[k] \in S
    <3> HIDE DEF S
    <3> QED BY <1>1
  <2>3. /\ DOMAIN calls' = DOMAIN calls
        /\ \A k \in 1..Len(calls) :
             calls'[k] = IF k = Len(calls)
                         THEN [calls[k] EXCEPT !.wait_delete = calls[k].wait_delete \cup {x}]
                         ELSE calls[k]
    BY <1>3, <2>1 DEF WaitDelete
  <2>4. \A k \in 1..Len(calls) : /\ calls'[k] \in S
                                 /\ calls'[k].bb = calls[k].bb /\ calls'[k].left = calls[k].left
    <3> SUFFICES ASSUME NEW k \in 1..Len(calls)
                 PROVE  calls'[k] \in S /\ calls'[k].bb = calls[k].bb /\ calls'[k].left = calls[k].left
      OBVIOUS
    <3>1. calls[k] \in S BY <2>2
    <3>2. PICK b \in Blocks(f), w \in SUBSET InstrsIn(f), l \in SUBSET Blocks(f) :
            calls[k] = [bb |-> b, wait_delete |-> w, left |-> l]
      BY <3>1
    <3>3. \/ calls'[k] = calls[k]
          \/ calls'[k] = [bb |-> b, wait_delete |-> w \cup {x}, left |-> l]
      BY <2>3, <3>2
    <3> QED BY <1>3, <3>1, <3>2, <3>3
  <2>5. calls' = [k \in 1..Len(calls) |-> calls'[k]] BY <1>3, <2>1 DEF WaitDelete
  <2>6. calls' \in Seq(S) /\ Len(calls') = Len(calls)
    <3> HIDE DEF S
    <3> QED BY <2>1, <2>4, <2>5, SeqDef
  <2>7. bb_' = bb_ BY <2>1, <2>4, <2>6 DEF bb_, this
  <2> QED BY <2>1, <2>3, <2>4, <2>6, <2>7
<1> QED BY <1>2, <1>3

\* An instruction that pushes nothing now.
LEMMA Passed ==
  ASSUME IInv, pc = "instr", pc' = "instr", line < Len(ir.code[bb_]), line' = line + 1,
         UNCHANGED <<f, vars_left, var, work_list, var_val_stack>>,
         ir'.code = ir.code, DOMAIN ir'.operands = DOMAIN ir.operands,
         DOMAIN ir'.use_list = DOMAIN ir.use_list, IrOK',
         calls' = calls \/ \E x \in InstrsIn(f) : WaitDelete(x),
         \A v \in Variables : instr \in Pushes(bb_, v) => IsPhi(instr)
  PROVE  IInv' /\ BaseKept
<1>1. calls # << >> /\ f \in Functions /\ CallsOK /\ PlaceOK /\ StacksOK
      /\ Known \subseteq Variables /\ \A v \in Known : var_val_stack[v] \in Seq(DOMAIN ir.use_list)
  BY DEF IInv, CallsOK, StacksOK
<1>2. PlaceOK' BY <1>1, PlaceKept
<1>3. /\ calls' \in Seq([bb : Blocks(f), wait_delete : SUBSET InstrsIn(f), left : SUBSET Blocks(f)])
      /\ DOMAIN calls' = DOMAIN calls /\ Len(calls') = Len(calls) /\ bb_' = bb_
      /\ \A k \in DOMAIN calls : calls'[k].bb = calls[k].bb /\ calls'[k].left = calls[k].left
  BY <1>1, Marked
<1>4. CallsOK' BY <1>1, <1>3, CallsKept
<1>5. Known' \subseteq Variables /\ \A v \in Known' : var_val_stack'[v] \in Seq(DOMAIN ir'.use_list)
  BY <1>1 DEF Known
<1>6. line' \in 0..Len(ir'.code[bb_']) BY <1>3, AtInstrOfBlock
<1>7. \A v \in Variables : \E n \in Nat : /\ Len(StackOf(v)') = Len(StackOf(v)) + n
                                          /\ Cardinality(Here(v)') = Cardinality(Here(v)) + n
  <2> SUFFICES ASSUME NEW v \in Variables
               PROVE  \E n \in Nat : /\ Len(StackOf(v)') = Len(StackOf(v)) + n
                                     /\ Cardinality(Here(v)') = Cardinality(Here(v)) + n
    OBVIOUS
  <2>1. StackOf(v)' = StackOf(v) BY DEF StackOf, Known
  <2>2. Here(v) = PushedBy(line, v) /\ Here(v)' = PushedBy(line + 1, v)
    <3>1. Pushes(bb_, v)' = Pushes(bb_, v) BY <1>3, SamePhis, Zenon
    <3>2. PushedBy(line, v)' = PushedBy(line + 1, v) BY <1>3, <3>1 DEF PushedBy
    <3> QED BY <3>2 DEF Here
  <2>3. PushedBy(line + 1, v) = PushedBy(line, v)
    <3>1. PushedBy(line + 1, v) = PushedBy(line, v) \cup {x \in {instr} : x \in Pushes(bb_, v)}
      BY AtInstrOfBlock
    <3> QED BY <3>1 DEF PushedBy
  <2>4. Len(StackOf(v)) \in Nat /\ Cardinality(Here(v)) \in Nat BY <1>1, StackTyped, HereFinite
  <2> HIDE DEF StackOf, Here
  <2>5. /\ Len(StackOf(v)') = Len(StackOf(v)) + 0
        /\ Cardinality(Here(v)') = Cardinality(Here(v)) + 0
    BY <2>1, <2>2, <2>3, <2>4
  <2> QED BY <2>5
<1>8. StacksOK' /\ BaseKept BY <1>1, <1>3, <1>4, <1>5, <1>6, <1>7, StacksKept
<1> QED BY <1>1, <1>2, <1>4, <1>8 DEF IInv

LEMMA SkipInstrStep ==
  ASSUME IInv, SkipInstr
  PROVE  IInv' /\ BaseKept
<1>1. /\ pc = "instr" /\ pc' = "instr" /\ line < Len(ir.code[bb_]) /\ line' = line + 1
      /\ UNCHANGED <<f, ir, vars_left, var, work_list, var_val_stack, calls>> /\ ~IsStore(instr)
  BY DEF SkipInstr, AtInstr
<1>2. IrOK' BY <1>1, IrKept DEF IInv, IrOK
<1>3. \A v \in Variables : instr \in Pushes(bb_, v) => IsPhi(instr) BY <1>1, Phis DEF Pushes
<1> QED BY <1>1, <1>2, <1>3, Passed

\* A load has a variable of the function to itself: no operand of a store is its
\* address.
LEMMA RenameLoadStep ==
  ASSUME IInv, RenameLoad
  PROVE  IInv' /\ BaseKept
<1> DEFINE value == Newest(lval)
<1>1. /\ pc = "instr" /\ pc' = "instr" /\ line < Len(ir.code[bb_]) /\ line' = line + 1
      /\ UNCHANGED <<f, vars_left, var, work_list, var_val_stack>>
      /\ IsLoad(instr) /\ lval \in Known /\ var_val_stack[lval] # << >>
      /\ ir' = ReplaceAllUseWith(ir, instr, value) /\ WaitDelete(instr)
  BY DEF RenameLoad, AtInstr
<1>2. IrOK /\ StacksOK /\ instr \in DOMAIN ir.operands /\ ~IsPhi(instr) /\ ~IsStore(instr)
      /\ instr \in InstrsIn(f) /\ instr \in DOMAIN ir.use_list
  BY <1>1, AtInstrOfBlock DEF IInv, IrOK, IsLoad, IsPhi, IsStore
<1>3. value \in DOMAIN ir.use_list
  <2> DEFINE D == DOMAIN ir.use_list
             s == var_val_stack[lval]
  <2>1. s \in Seq(D) /\ s # << >> /\ value = s[Len(s)] BY <1>1, <1>2 DEF StacksOK, Newest, Last
  <2> HIDE DEF D, s, value
  <2>2. s[Len(s)] \in D BY <2>1
  <2> QED BY <2>1, <2>2 DEF D
<1> HIDE DEF value
<1>4. /\ ir' = [code |-> ir'.code, operands |-> ir'.operands, use_list |-> ir'.use_list]
      /\ ir'.code = ir.code
      /\ ir'.operands = [u \in DOMAIN ir.operands |-> [i \in DOMAIN ir.operands[u] |->
                           IF <<u, i>> \in ir.use_list[instr] THEN value ELSE ir.operands[u][i]]]
      /\ ir'.use_list = [ir.use_list EXCEPT ![value] = @ \cup ir.use_list[instr]]
  BY <1>1, <1>2 DEF ReplaceAllUseWith, IrOK
<1>5. DOMAIN ir'.operands = DOMAIN ir.operands /\ DOMAIN ir'.use_list = DOMAIN ir.use_list BY <1>4
<1>6. \A x \in DOMAIN ir.operands : /\ ir'.operands[x] \in Seq(DOMAIN ir.use_list)
                                    /\ Len(ir'.operands[x]) = Len(ir.operands[x])
  <2> SUFFICES ASSUME NEW x \in DOMAIN ir.operands
               PROVE  /\ ir'.operands[x] \in Seq(DOMAIN ir.use_list)
                      /\ Len(ir'.operands[x]) = Len(ir.operands[x])
    OBVIOUS
  <2> DEFINE D == DOMAIN ir.use_list
             s == ir.operands[x]
  <2>1. s \in Seq(D) BY <1>2 DEF IrOK
  <2>2. ir'.operands[x] = [i \in DOMAIN s |-> IF <<x, i>> \in ir.use_list[instr] THEN value ELSE s[i]]
    BY <1>4
  <2>3. value \in D BY <1>3
  <2> HIDE DEF D, s
  <2>4. [i \in DOMAIN s |-> IF <<x, i>> \in ir.use_list[instr] THEN value ELSE s[i]] \in Seq(D)
        /\ Len([i \in DOMAIN s |-> IF <<x, i>> \in ir.use_list[instr] THEN value ELSE s[i]]) = Len(s)
    <3> DEFINE t == [i \in DOMAIN s |-> IF <<x, i>> \in ir.use_list[instr] THEN value ELSE s[i]]
    <3>1. Len(s) \in Nat /\ DOMAIN s = 1..Len(s) /\ \A i \in 1..Len(s) : s[i] \in D BY <2>1
    <3>2. t = [i \in 1..Len(s) |-> t[i]] /\ \A i \in 1..Len(s) : t[i] \in D BY <2>3, <3>1
    <3> HIDE DEF t
    <3>3. t \in Seq(D) /\ Len(t) = Len(s) BY <3>1, <3>2, IsSequence
    <3> QED BY <3>3 DEF t
  <2> QED BY <2>2, <2>4 DEF D, s
<1>7. ASSUME NEW x \in InstrsIn(f), IsStore(x)
      PROVE  /\ ir'.operands[x][2] = ir.operands[x][2]
             /\ \A v \in DOMAIN ir.use_list : IsLoad(v) => <<x, 2>> \notin ir'.use_list[v]
  <2>1. /\ x \in DOMAIN ir.operands /\ Len(ir.operands[x]) = 2
        /\ \A v \in DOMAIN ir.use_list : IsLoad(v) => <<x, 2>> \notin ir.use_list[v]
    BY <1>2, <1>7 DEF IrOK
  <2>2. 2 \in DOMAIN ir.operands[x] BY <1>2, <2>1 DEF IrOK
  <2>3. <<x, 2>> \notin ir.use_list[instr] BY <1>1, <1>2, <2>1
  <2> QED BY <1>4, <2>1, <2>2, <2>3
<1>8. IrOK' BY <1>1, <1>2, <1>4, <1>5, <1>6, <1>7, IrKept DEF IrOK
<1>9. \A v \in Variables : instr \in Pushes(bb_, v) => IsPhi(instr) BY <1>2, Phis DEF Pushes
<1> QED BY <1>1, <1>2, <1>4, <1>5, <1>8, <1>9, Passed

LEMMA Aborted ==
  ASSUME IInv, pc = "instr", pc' = "abort",
         UNCHANGED <<f, ir, vars_left, var, work_list, var_val_stack, calls, line>>
  PROVE  IInv' /\ BaseKept
<1>1. /\ calls # << >> /\ f \in Functions /\ CallsOK /\ PlaceOK /\ IrOK /\ StacksOK
      /\ Known \subseteq Variables /\ \A v \in Known : var_val_stack[v] \in Seq(DOMAIN ir.use_list)
      /\ line \in 0..Len(ir.code[bb_])
  BY DEF IInv, CallsOK, StacksOK
<1>2. IrOK' /\ PlaceOK' BY <1>1, IrKept, PlaceKept DEF IrOK
<1>3. calls' \in Seq([bb : Blocks(f), wait_delete : SUBSET InstrsIn(f), left : SUBSET Blocks(f)])
      /\ bb_' = bb_
  BY <1>1, Marked
<1>4. CallsOK' BY <1>1, <1>3, CallsKept
<1>5. Known' = Known /\ \A v : StackOf(v)' = StackOf(v) BY DEF Known, StackOf
<1>6. \A v \in Variables : \E n \in Nat : /\ Len(StackOf(v)') = Len(StackOf(v)) + n
                                          /\ Cardinality(Here(v)') = Cardinality(Here(v)) + n
  <2> SUFFICES ASSUME NEW v \in Variables
               PROVE  \E n \in Nat : /\ Len(StackOf(v)') = Len(StackOf(v)) + n
                                     /\ Cardinality(Here(v)') = Cardinality(Here(v)) + n
    OBVIOUS
  <2>1. Here(v)' = Here(v)
    <3>1. Pushes(bb_, v)' = Pushes(bb_, v) BY <1>3, SamePhis, Zenon
    <3>2. PushedBy(line, v)' = PushedBy(line, v) BY <1>3, <3>1 DEF PushedBy
    <3> QED BY <3>2 DEF Here
  <2>2. Len(StackOf(v)) \in Nat /\ Cardinality(Here(v)) \in Nat BY <1>1, StackTyped, HereFinite
  <2> HIDE DEF StackOf, Here
  <2>3. /\ Len(StackOf(v)') = Len(StackOf(v)) + 0
        /\ Cardinality(Here(v)') = Cardinality(Here(v)) + 0
    BY <1>5, <2>1, <2>2
  <2> QED BY <2>3
<1>7. StacksOK' /\ BaseKept
  <2>1. Known' \subseteq Variables /\ \A v \in Known' : var_val_stack'[v] \in Seq(DOMAIN ir'.use_list)
    BY <1>1, <1>5
  <2>2. line' \in 0..Len(ir'.code[bb_']) /\ Len(calls') = Len(calls) /\ DOMAIN calls' = DOMAIN calls
    BY <1>1, <1>3
  <2> QED BY <1>1, <1>4, <1>6, <2>1, <2>2, StacksKept
<1> QED BY <1>1, <1>2, <1>4, <1>7 DEF IInv

LEMMA LoadOfNothingStep ==
  ASSUME IInv, LoadOfNothing
  PROVE  IInv' /\ BaseKept
<1>1. /\ pc = "instr" /\ line < Len(ir.code[bb_]) /\ IsLoad(instr)
      /\ UNCHANGED <<f, ir, vars_left, var, work_list, var_val_stack>>
      /\ \/ WaitDelete(instr) /\ line' = line + 1 /\ pc' = pc
         \/ pc' = "abort" /\ UNCHANGED <<calls, line>>
  BY DEF LoadOfNothing, AtInstr
<1>2. instr \in InstrsIn(f) /\ ~IsPhi(instr) /\ ~IsStore(instr)
  BY <1>1, AtInstrOfBlock DEF IsLoad, IsPhi, IsStore
<1>3. CASE WaitDelete(instr) /\ line' = line + 1 /\ pc' = pc
  <2>1. IrOK' BY <1>1, IrKept DEF IInv, IrOK
  <2>2. \A v \in Variables : instr \in Pushes(bb_, v) => IsPhi(instr) BY <1>2, Phis DEF Pushes
  <2> QED BY <1>1, <1>2, <1>3, <2>1, <2>2, Passed
<1>4. CASE pc' = "abort" /\ UNCHANGED <<calls, line>> BY <1>1, <1>4, Aborted
<1> QED BY <1>1, <1>3, <1>4

LEMMA RenameStoreStep ==
  ASSUME IInv, RenameStore
  PROVE  IInv' /\ BaseKept
<1> DEFINE value == ir.operands[instr][1]
<1>1. /\ pc = "instr" /\ pc' = "instr" /\ line < Len(ir.code[bb_]) /\ line' = line + 1
      /\ UNCHANGED <<f, ir, vars_left, var, work_list>> /\ WaitDelete(instr) /\ IsStore(instr)
      /\ var_val_stack' = [v \in Known \cup {lval} |->
           IF v = lval THEN Append(StackOf(v), value) ELSE var_val_stack[v]]
  BY DEF RenameStore, AtInstr
<1>2. calls # << >> /\ f \in Functions /\ CallsOK /\ PlaceOK /\ IrOK /\ StacksOK
      /\ Known \subseteq Variables /\ \A v \in Known : var_val_stack[v] \in Seq(DOMAIN ir.use_list)
  BY <1>1 DEF IInv, CallsOK, StacksOK
<1>3. /\ instr \in InstrsIn(f) /\ instr \in Range(f.code[bb_]) /\ instr \in DOMAIN ir.operands
      /\ ~IsPhi(instr) /\ ~IsLoad(instr)
      /\ line \in Nat /\ line + 1 \in 1..Len(ir.code[bb_]) /\ \A j \in 1..line : ir.code[bb_][j] # instr
      /\ \A v : PushedBy(line + 1, v) = PushedBy(line, v) \cup {x \in {instr} : x \in Pushes(bb_, v)}
  BY <1>1, AtInstrOfBlock DEF IsStore, IsPhi, IsLoad
<1>4. lval = f.operands[instr][2] /\ Len(ir.operands[instr]) = 2
  BY <1>1, <1>2, <1>3 DEF lval, Lval, IrOK
<1>5. lval \in Variables
  <2>1. lval \in StoredIn(f, bb_) BY <1>1, <1>2, <1>3, <1>4, Stored
  <2> QED BY <1>2, <2>1, AtBlock, Stored
<1>6. value \in DOMAIN ir.use_list
  <2> DEFINE D == DOMAIN ir.use_list
             s == ir.operands[instr]
  <2>1. s \in Seq(D) /\ Len(s) = 2 BY <1>2, <1>3, <1>4 DEF IrOK
  <2> HIDE DEF D, s
  <2>2. s[1] \in D BY <2>1
  <2> QED BY <2>2 DEF D, s
<1> HIDE DEF value
<1>7. IrOK' /\ PlaceOK' BY <1>1, <1>2, IrKept, PlaceKept DEF IrOK
<1>8. /\ calls' \in Seq([bb : Blocks(f), wait_delete : SUBSET InstrsIn(f), left : SUBSET Blocks(f)])
      /\ DOMAIN calls' = DOMAIN calls /\ Len(calls') = Len(calls) /\ bb_' = bb_
      /\ \A k \in DOMAIN calls : calls'[k].bb = calls[k].bb /\ calls'[k].left = calls[k].left
  BY <1>1, <1>2, <1>3, Marked
<1>9. CallsOK' BY <1>1, <1>2, <1>8, CallsKept
<1>10. /\ Known' = Known \cup {lval} /\ Known' \subseteq Variables
       /\ \A v : StackOf(v)' = IF v = lval THEN Append(StackOf(v), value) ELSE StackOf(v)
  BY <1>1, <1>2, <1>5 DEF Known, StackOf
<1>11. \A v \in Known' : var_val_stack'[v] \in Seq(DOMAIN ir'.use_list)
  <2> SUFFICES ASSUME NEW v \in Known' PROVE var_val_stack'[v] \in Seq(DOMAIN ir.use_list)
    BY <1>1
  <2>1. CASE v = lval
    <3> DEFINE D == DOMAIN ir.use_list
               s == StackOf(v)
    <3>1. s \in Seq(D) /\ value \in D /\ var_val_stack'[v] = Append(s, value)
      BY <1>1, <1>2, <1>6, <1>10, <2>1, StackTyped
    <3> HIDE DEF D, s
    <3>2. var_val_stack'[v] \in Seq(D) BY <3>1
    <3> QED BY <3>2 DEF D
  <2>2. CASE v # lval BY <1>1, <1>2, <1>10, <2>2
  <2> QED BY <2>1, <2>2
<1>12. \A v \in Variables : \E n \in Nat : /\ Len(StackOf(v)') = Len(StackOf(v)) + n
                                           /\ Cardinality(Here(v)') = Cardinality(Here(v)) + n
  <2> SUFFICES ASSUME NEW v \in Variables
               PROVE  \E n \in Nat : /\ Len(StackOf(v)') = Len(StackOf(v)) + n
                                     /\ Cardinality(Here(v)') = Cardinality(Here(v)) + n
    OBVIOUS
  <2>1. Here(v) = PushedBy(line, v) /\ Here(v)' = PushedBy(line + 1, v)
    <3>1. Pushes(bb_, v)' = Pushes(bb_, v) BY <1>1, <1>8, SamePhis, Zenon
    <3>2. PushedBy(line, v)' = PushedBy(line + 1, v) BY <1>1, <1>8, <3>1 DEF PushedBy
    <3> QED BY <1>1, <3>2 DEF Here
  <2>2. Len(StackOf(v)) \in Nat /\ IsFiniteSet(Here(v)) /\ Cardinality(Here(v)) \in Nat
    BY <1>2, StackTyped, HereFinite
  <2>3. CASE v = lval
    <3>1. instr \in Pushes(bb_, v) BY <1>1, <1>3, <1>4, <2>3 DEF Pushes
    <3>2. Here(v)' = Here(v) \cup {instr} BY <1>3, <2>1, <3>1
    <3>3. instr \notin Here(v) BY <1>3, <2>1 DEF PushedBy
    <3>4. Cardinality(Here(v)') = Cardinality(Here(v)) + 1
      <4> HIDE DEF Here
      <4> QED BY <2>2, <3>2, <3>3, FS_AddElement
    <3>5. Len(StackOf(v)') = Len(StackOf(v)) + 1
      <4>1. StackOf(v)' = Append(StackOf(v), value) BY <1>10, <2>3
      <4>2. StackOf(v) \in Seq(DOMAIN ir.use_list) BY <1>2, StackTyped
      <4> HIDE DEF StackOf
      <4> QED BY <4>1, <4>2
    <3> HIDE DEF StackOf, Here
    <3> QED BY <3>4, <3>5
  <2>4. CASE v # lval
    <3>1. instr \notin Pushes(bb_, v) BY <1>3, <1>4, <2>4, Phis DEF Pushes
    <3>2. Here(v)' = Here(v) /\ StackOf(v)' = StackOf(v) BY <1>3, <1>10, <2>1, <2>4, <3>1
    <3> HIDE DEF StackOf, Here
    <3>3. /\ Len(StackOf(v)') = Len(StackOf(v)) + 0
          /\ Cardinality(Here(v)') = Cardinality(Here(v)) + 0
      BY <2>2, <3>2
    <3> QED BY <3>3
  <2> QED BY <2>3, <2>4
<1>13. StacksOK' /\ BaseKept
  <2>1. line' \in 0..Len(ir'.code[bb_']) BY <1>1, <1>3, <1>8
  <2> QED BY <1>1, <1>2, <1>8, <1>9, <1>10, <1>11, <1>12, <2>1, StacksKept
<1> QED BY <1>1, <1>2, <1>7, <1>9, <1>13 DEF IInv

\* Operands are added to phis alone, and a block has pushed what it will push by then.
LEMMA FillPhisStep ==
  ASSUME IInv, FillPhis
  PROVE  IInv' /\ BaseKept
<1> DEFINE vs == [p \in ToFill |-> <<Newest(Lval(p, << >>)), bb_>>]
<1>1. /\ pc = "instr" /\ line = Len(ir.code[bb_])
      /\ UNCHANGED <<f, vars_left, var, work_list, var_val_stack, calls, line>>
      /\ \/ pc' = "abort" /\ UNCHANGED ir
         \/ /\ ~ \E p \in ToFill : var_val_stack[Lval(p, << >>)] = << >>
            /\ ir' = AddOperands(ir, vs) /\ pc' = "children"
  BY DEF FillPhis
<1>2. /\ calls # << >> /\ f \in Functions /\ CallsOK /\ PlaceOK /\ IrOK /\ StacksOK
      /\ Known \subseteq Variables /\ \A v \in Known : var_val_stack[v] \in Seq(DOMAIN ir.use_list)
  BY <1>1 DEF IInv, CallsOK, StacksOK
<1>3. CASE pc' = "abort" /\ UNCHANGED ir BY <1>1, <1>3, Aborted
<1>4. CASE /\ ~ \E p \in ToFill : var_val_stack[Lval(p, << >>)] = << >>
           /\ ir' = AddOperands(ir, vs) /\ pc' = "children"
  <2>1. \A p \in ToFill : IsPhi(p) /\ ~IsStore(p) /\ Lval(p, << >>) \in Known
    BY DEF ToFill, PhisIn, IsPhi, IsStore
  <2>2. bb_ \in Block /\ bb_ \in DOMAIN ir.use_list BY <1>2, AtBlock DEF IrOK
  <2>3. ASSUME NEW p \in ToFill PROVE Newest(Lval(p, << >>)) \in DOMAIN ir.use_list
    <3> DEFINE D == DOMAIN ir.use_list
               s == var_val_stack[Lval(p, << >>)]
    <3>1. s \in Seq(D) /\ s # << >> BY <1>2, <1>4, <2>1
    <3> HIDE DEF D
    <3>2. s[Len(s)] \in D
      <4> HIDE DEF s
      <4> QED BY <3>1
    <3> QED BY <3>2 DEF Newest, Last, D
  <2>4. ASSUME NEW p \in ToFill PROVE vs[p] \in Seq(DOMAIN ir.use_list)
    <3>1. vs[p] = <<Newest(Lval(p, << >>)), bb_>> OBVIOUS
    <3> DEFINE D == DOMAIN ir.use_list
               v == Newest(Lval(p, << >>))
    <3>2. v \in D /\ bb_ \in D BY <2>2, <2>3
    <3> HIDE DEF D, v
    <3>3. <<v, bb_>> \in Seq(D) BY <3>2
    <3> QED BY <3>1, <3>3 DEF D, v
  <2>5. DOMAIN vs = ToFill OBVIOUS
  <2> HIDE DEF vs
  <2> DEFINE uses(x, v) == {<<x, Len(ir.operands[x]) + use[2]>> : use \in UsesIn(x, vs[x], v)}
  <2>6. /\ ir' = [code |-> ir'.code, operands |-> ir'.operands, use_list |-> ir'.use_list]
        /\ ir'.code = ir.code
        /\ ir'.operands = [x \in DOMAIN ir.operands |-> IF x \in ToFill THEN ir.operands[x] \o vs[x]
                                                        ELSE ir.operands[x]]
        /\ ir'.use_list = [v \in DOMAIN ir.use_list |->
                             ir.use_list[v] \cup UNION {uses(x, v) : x \in ToFill}]
    BY <1>2, <1>4, <2>5 DEF AddOperands, IrOK
  <2>7. DOMAIN ir'.operands = DOMAIN ir.operands /\ DOMAIN ir'.use_list = DOMAIN ir.use_list BY <2>6
  <2>8. ASSUME NEW x \in DOMAIN ir.operands PROVE ir'.operands[x] \in Seq(DOMAIN ir.use_list)
    <3> DEFINE D == DOMAIN ir.use_list
               s == ir.operands[x]
    <3>1. s \in Seq(D) BY <1>2 DEF IrOK
    <3>2. CASE x \in ToFill
      <4>1. ir'.operands[x] = s \o vs[x] /\ vs[x] \in Seq(D) BY <2>4, <2>6, <3>2
      <4> HIDE DEF s, D
      <4>2. s \o vs[x] \in Seq(D) BY <3>1, <4>1
      <4> QED BY <4>1, <4>2 DEF D
    <3>3. CASE x \notin ToFill BY <2>6, <3>1, <3>3
    <3> QED BY <3>2, <3>3
  <2>9. ASSUME NEW x \in InstrsIn(f), IsStore(x)
        PROVE  /\ ir'.operands[x] = ir.operands[x]
               /\ \A v \in DOMAIN ir.use_list : IsLoad(v) => <<x, 2>> \notin ir'.use_list[v]
    <3>1. x \in DOMAIN ir.operands /\ x \notin ToFill BY <1>2, <2>1, <2>9 DEF IrOK
    <3>2. ASSUME NEW v \in DOMAIN ir.use_list, IsLoad(v) PROVE <<x, 2>> \notin ir'.use_list[v]
      <4>1. <<x, 2>> \notin ir.use_list[v] BY <1>2, <2>9, <3>2 DEF IrOK
      <4>2. \A y \in ToFill : <<x, 2>> \notin uses(y, v) BY <3>1
      <4> QED BY <2>6, <4>1, <4>2
    <3> QED BY <2>6, <3>1, <3>2
  <2>10. IrOK' BY <1>1, <1>2, <2>6, <2>7, <2>8, <2>9, IrKept DEF IrOK
  <2>11. PlaceOK' BY <1>1, <1>2, <1>4, <2>7, PlaceKept
  <2>12. calls' \in Seq([bb : Blocks(f), wait_delete : SUBSET InstrsIn(f), left : SUBSET Blocks(f)])
         /\ bb_' = bb_
    BY <1>1, <1>2, Marked
  <2>13. CallsOK' BY <1>1, <1>2, <1>4, <2>6, <2>7, <2>12, CallsKept
  <2>14. Known' = Known /\ \A v : StackOf(v)' = StackOf(v) BY <1>1 DEF Known, StackOf
  <2>15. \A v \in Variables : \E n \in Nat : /\ Len(StackOf(v)') = Len(StackOf(v)) + n
                                             /\ Cardinality(Here(v)') = Cardinality(Here(v)) + n
    <3> SUFFICES ASSUME NEW v \in Variables
                 PROVE  \E n \in Nat : /\ Len(StackOf(v)') = Len(StackOf(v)) + n
                                       /\ Cardinality(Here(v)') = Cardinality(Here(v)) + n
      OBVIOUS
    <3>1. Here(v)' = Here(v)
      <4>1. Pushes(bb_, v)' = Pushes(bb_, v) BY <1>1, <2>7, <2>12, SamePhis, Zenon
      <4>2. PushedBy(line, v) = Pushes(bb_, v)
        <5>1. Pushes(bb_, v) \subseteq Range(ir.code[bb_]) /\ ir.code[bb_] \in Seq(DOMAIN ir.operands)
          BY <1>2, AtBlock
        <5>2. DOMAIN ir.code[bb_] = 1..line BY <1>1, <5>1
        <5> QED BY <5>1, <5>2 DEF PushedBy, Range
      <4> QED BY <1>1, <1>4, <4>1, <4>2 DEF Here
    <3>2. Len(StackOf(v)) \in Nat /\ Cardinality(Here(v)) \in Nat BY <1>2, StackTyped, HereFinite
    <3> HIDE DEF StackOf, Here
    <3>3. /\ Len(StackOf(v)') = Len(StackOf(v)) + 0
          /\ Cardinality(Here(v)') = Cardinality(Here(v)) + 0
      BY <2>14, <3>1, <3>2
    <3> QED BY <3>3
  <2>16. StacksOK' /\ BaseKept
    <3>1. Known' \subseteq Variables /\ \A v \in Known' : var_val_stack'[v] \in Seq(DOMAIN ir'.use_list)
      BY <1>1, <1>2, <2>7, <2>14
    <3>2. Len(calls') = Len(calls) /\ DOMAIN calls' = DOMAIN calls
          /\ \A k \in DOMAIN calls : calls'[k].bb = calls[k].bb
      BY <1>1
    <3> QED BY <1>1, <1>2, <1>4, <2>7, <2>13, <2>15, <3>1, <3>2, StacksKept
  <2> QED BY <1>1, <1>2, <2>10, <2>11, <2>13, <2>16 DEF IInv
<1> QED BY <1>1, <1>3, <1>4

\* The call for a child is added, and the child is no longer left to be visited.
LEMMA Visited ==
  ASSUME CallsOK, NEW c \in Blocks(f), Len(calls) \in DOMAIN calls,
         calls' = Append([calls EXCEPT ![Len(calls)].left = @ \ {c}], Call(c))
  PROVE  /\ Len(calls') = Len(calls) + 1 /\ DOMAIN calls' = 1..(Len(calls) + 1)
         /\ calls' \in Seq([bb : Blocks(f), wait_delete : SUBSET InstrsIn(f), left : SUBSET Blocks(f)])
         /\ \A k \in 1..Len(calls) :
              /\ calls'[k].bb = calls[k].bb /\ calls'[k].wait_delete = calls[k].wait_delete
              /\ calls'[k].left = IF k = Len(calls) THEN calls[k].left \ {c} ELSE calls[k].left
         /\ calls'[Len(calls) + 1] = [bb |-> c, wait_delete |-> {}, left |-> Children(c)]
<1> DEFINE S == [bb : Blocks(f), wait_delete : SUBSET InstrsIn(f), left : SUBSET Blocks(f)]
           n == Len(calls)
           t == [calls EXCEPT ![n].left = @ \ {c}]
<1>1. calls \in Seq(S) /\ n \in Nat /\ DOMAIN calls = 1..n /\ n \in 1..n BY DEF CallsOK
<1>2. \A k \in 1..n : calls[k] \in S
  <2> HIDE DEF S
  <2> QED BY <1>1
<1>3. t = [k \in 1..n |-> t[k]] BY <1>1
<1>4. \A k \in 1..n : t[k] = IF k = n THEN [calls[k] EXCEPT !.left = calls[k].left \ {c}] ELSE calls[k]
  BY <1>1
<1>5. ASSUME NEW k \in 1..n
      PROVE  /\ t[k] \in S /\ t[k].bb = calls[k].bb /\ t[k].wait_delete = calls[k].wait_delete
             /\ t[k].left = IF k = n THEN calls[k].left \ {c} ELSE calls[k].left
  <2>1. PICK b \in Blocks(f), w \in SUBSET InstrsIn(f), l \in SUBSET Blocks(f) :
          calls[k] = [bb |-> b, wait_delete |-> w, left |-> l]
    BY <1>2
  <2>2. t[k] = IF k = n THEN [bb |-> b, wait_delete |-> w, left |-> l \ {c}] ELSE calls[k]
    BY <1>4, <2>1
  <2> HIDE DEF t
  <2> QED BY <1>2, <2>1, <2>2
<1>6. Call(c) = [bb |-> c, wait_delete |-> {}, left |-> Children(c)] /\ Call(c) \in S
  BY DEF Call, Children
<1>7. calls' = Append(t, Call(c)) OBVIOUS
<1> HIDE DEF t, S
<1>8. t \in Seq(S) /\ Len(t) = n /\ DOMAIN t = 1..n
  <2> HIDE DEF n
  <2> QED BY <1>1, <1>3, <1>5, IsSequence
<1>9. /\ calls' \in Seq(S) /\ Len(calls') = n + 1 /\ DOMAIN calls' = 1..(n + 1)
      /\ \A k \in 1..n : calls'[k] = t[k]
      /\ calls'[n + 1] = Call(c)
  <2> HIDE DEF n
  <2> DEFINE q == Append(t, Call(c))
  <2>1. /\ q \in Seq(S) /\ Len(q) = Len(t) + 1 /\ DOMAIN q = 1..(Len(t) + 1)
        /\ \A k \in 1..Len(t) : q[k] = t[k]
        /\ q[Len(t) + 1] = Call(c)
    <3>1. t \in Seq(S) /\ Call(c) \in S BY <1>6, <1>8
    <3> QED BY ONLY <3>1, Appended
  <2> HIDE DEF q
  <2>2. /\ q \in Seq(S) /\ Len(q) = n + 1 /\ DOMAIN q = 1..(n + 1)
        /\ \A k \in 1..n : q[k] = t[k]
        /\ q[n + 1] = Call(c)
    BY <1>8, <2>1, Zenon
  <2>3. calls' = q BY <1>7, Zenon DEF q
  <2> QED BY <2>2, <2>3, Zenon
<1> QED BY <1>5, <1>6, <1>9 DEF n, S

\* A child begins where its parent is: the calls are what is above it.
LEMMA VisitChildFrom ==
  ASSUME IInv, VisitChild, NEW base, BaseOK(base)
  PROVE  /\ IInv'
         /\ \E next : /\ BaseOK(next)'
                      /\ \A v \in Variables : \A k \in DOMAIN calls : next[k][v] = base[k][v]
<1> DEFINE S == [bb : Blocks(f), wait_delete : SUBSET InstrsIn(f), left : SUBSET Blocks(f)]
           n == Len(calls)
<1>1. /\ pc = "children" /\ pc' = "enter"
      /\ UNCHANGED <<f, ir, vars_left, var, work_list, var_val_stack, line>>
  BY DEF VisitChild
<1>2. PICK c \in this.left : calls' = Append([calls EXCEPT ![n].left = @ \ {c}], Call(c))
  BY DEF VisitChild
<1>3. /\ calls # << >> /\ f \in Functions /\ CallsOK /\ PlaceOK /\ IrOK /\ StacksOK
      /\ calls \in Seq(S) /\ bb_ \in Blocks(f) /\ bb_ \in Block
      /\ Known \subseteq Variables /\ \A v \in Known : var_val_stack[v] \in Seq(DOMAIN ir.use_list)
  BY <1>1, HereFinite DEF IInv, CallsOK, StacksOK
<1>4. n \in Nat /\ DOMAIN calls = 1..n /\ n \in 1..n BY <1>3
<1>5. \A k \in 1..n : calls[k] \in S
  <2> HIDE DEF S
  <2> QED BY <1>3
<1>6. /\ Variables' = Variables /\ root' = root /\ \A b : Children(b)' = Children(b)
      /\ \A b : Intact(b)' = Intact(b) /\ \A v, e : Pushes(e, v)' = Pushes(e, v)
  BY <1>1, SameFunction, SamePhis, Zenon
<1>7. IrOK' /\ PlaceOK' BY <1>1, <1>3, IrKept, PlaceKept DEF IrOK
<1>8. /\ c \in Children(bb_) /\ c \in Blocks(f) /\ IsIdom(f, bb_, c)
      /\ \A m \in Blocks(f) : Dominates(f, c, m) => Intact(m)
  <2>1. c \in calls[n].left /\ bb_ = calls[n].bb BY DEF this, bb_
  <2> QED BY <1>3, <1>4, <2>1 DEF CallsOK, Children
<1>9. /\ Len(calls') = n + 1 /\ DOMAIN calls' = 1..(n + 1) /\ calls' \in Seq(S)
      /\ \A k \in 1..n : /\ calls'[k].bb = calls[k].bb
                         /\ calls'[k].left = IF k = n THEN calls[k].left \ {c} ELSE calls[k].left
      /\ calls'[n + 1] = [bb |-> c, wait_delete |-> {}, left |-> Children(c)]
  <2>1. Len(calls) \in DOMAIN calls /\ CallsOK BY <1>3, <1>4
  <2>2. /\ Len(calls') = n + 1 /\ DOMAIN calls' = 1..(n + 1) /\ calls' \in Seq(S)
        /\ \A k \in 1..n :
             /\ calls'[k].bb = calls[k].bb /\ calls'[k].wait_delete = calls[k].wait_delete
             /\ calls'[k].left = IF k = n THEN calls[k].left \ {c} ELSE calls[k].left
        /\ calls'[n + 1] = [bb |-> c, wait_delete |-> {}, left |-> Children(c)]
    BY <1>2, <1>8, <2>1, Visited, Zenon
  <2> HIDE DEF n, S
  <2> QED BY <2>2
<1>10. bb_ = calls[n].bb /\ bb_' = c BY <1>9 DEF bb_, this
<1> HIDE DEF S, n
<1>11. \A j \in 1..n : calls[j].bb \in Blocks(f) /\ StrictlyDominates(f, calls[j].bb, c)
  <2> SUFFICES ASSUME NEW j \in 1..n
               PROVE  calls[j].bb \in Blocks(f) /\ StrictlyDominates(f, calls[j].bb, c)
    OBVIOUS
  <2>1. calls[j].bb \in Blocks(f) BY <1>5 DEF S
  <2>2. StrictlyDominates(f, bb_, c) BY <1>8 DEF IsIdom
  <2>3. CASE j = n BY <1>10, <2>1, <2>2, <2>3
  <2>4. CASE j < n
    <3>1. StrictlyDominates(f, calls[j].bb, bb_) BY <1>3, <1>4, <1>10, <2>4 DEF CallsOK
    <3>2. Dominates(f, calls[j].bb, c) BY <2>2, <3>1, DominatesTransitive DEF StrictlyDominates
    <3>3. calls[j].bb # c
      BY <1>3, <1>8, <2>2, <3>1, Code, DominatesAntisymmetric DEF StrictlyDominates
    <3> QED BY <2>1, <3>2, <3>3 DEF StrictlyDominates
  <2> QED BY <1>4, <2>3, <2>4
<1>12. CallsOK'
  <2>0. /\ \A k \in 1..n : calls'[k].bb = calls[k].bb /\ calls'[k].left \subseteq calls[k].left
        /\ calls'[n + 1].bb = c /\ calls'[n + 1].left = Children(c)
        /\ c \notin calls'[n].left
    <3>1. \A k \in 1..n : calls'[k].left = IF k = n THEN calls[k].left \ {c} ELSE calls[k].left
      BY <1>9
    <3>2. calls'[n].left = calls[n].left \ {c} BY <1>4, <3>1
    <3>3. \A k \in 1..n : calls'[k].left \subseteq calls[k].left BY <3>1
    <3>4. \A k \in 1..n : calls'[k].bb = calls[k].bb BY <1>9
    <3>5. calls'[n + 1].bb = c /\ calls'[n + 1].left = Children(c) BY <1>9
    <3> QED BY <3>2, <3>3, <3>4, <3>5
  <2>1. \A k \in 1..(n + 1) : k \in 1..n \/ k = n + 1 BY <1>4
  <2>2. \A k \in 1..(n + 1) : Intact(calls[k].bb)'
    <3>1. Intact(c) BY <1>3, <1>8, Code, DominatesReflexive
    <3>2. \A k \in 1..n : Intact(calls[k].bb) BY <1>3, <1>4 DEF CallsOK
    <3> QED BY <1>6, <2>0, <2>1, <3>1, <3>2
  <2>3. \A k \in 1..(n + 1) : calls'[k].left \subseteq Children(calls[k].bb)'
    <3>1. \A k \in 1..n : calls[k].left \subseteq Children(calls[k].bb) BY <1>3, <1>4 DEF CallsOK
    <3> QED BY <1>6, <2>0, <2>1, <3>1
  <2>4. ASSUME NEW k \in 1..(n + 1), k > 1
        PROVE  IsIdom(f, calls'[k - 1].bb, calls'[k].bb) /\ calls'[k].bb \notin calls'[k - 1].left
    <3>1. CASE k = n + 1
      <4>1. k - 1 = n BY <1>4, <3>1
      <4> QED BY <1>4, <1>8, <1>10, <2>0, <3>1, <4>1
    <3>2. CASE k \in 1..n
      <4>1. k - 1 \in 1..n BY <1>4, <2>4, <3>2
      <4>2. IsIdom(f, calls[k - 1].bb, calls[k].bb) /\ calls[k].bb \notin calls[k - 1].left
        BY <1>3, <1>4, <2>4, <3>2 DEF CallsOK
      <4> QED BY <2>0, <3>2, <4>1, <4>2
    <3> QED BY <2>1, <3>1, <3>2
  <2>5. ASSUME NEW k \in 1..(n + 1), NEW j \in 1..(n + 1), j < k
        PROVE  StrictlyDominates(f, calls'[j].bb, calls'[k].bb)
    <3>0. j \in 1..n BY <1>4, <2>5
    <3>1. CASE k = n + 1 BY <2>0, <1>11, <3>0, <3>1
    <3>2. CASE k \in 1..n BY <1>3, <1>4, <2>0, <2>5, <3>0, <3>2 DEF CallsOK
    <3> QED BY <2>1, <3>1, <3>2
  <2>6. ASSUME NEW k \in 1..(n + 1), NEW d \in Blocks(f), StrictlyDominates(f, d, calls'[k].bb)
        PROVE  \E j \in 1..(k - 1) : calls'[j].bb = d
    <3>1. CASE k = n + 1
      <4>1. Dominates(f, d, bb_) BY <1>8, <2>0, <2>6, <3>1 DEF IsIdom
      <4>2. CASE d = bb_
        <5>1. n \in 1..(k - 1) /\ calls'[n].bb = d BY <1>4, <2>0, <1>10, <3>1, <4>2
        <5> QED BY <5>1
      <4>3. CASE d # bb_
        <5>1. StrictlyDominates(f, d, bb_) BY <4>1, <4>3 DEF StrictlyDominates
        <5>2. PICK j \in 1..(n - 1) : calls[j].bb = d BY <1>3, <1>4, <1>10, <5>1 DEF CallsOK
        <5>3. j \in 1..(k - 1) /\ j \in 1..n BY <1>4, <3>1
        <5> QED BY <2>0, <5>2, <5>3
      <4> QED BY <4>2, <4>3
    <3>2. CASE k \in 1..n
      <4>1. StrictlyDominates(f, d, calls[k].bb) BY <2>0, <2>6, <3>2
      <4>2. PICK j \in 1..(k - 1) : calls[j].bb = d BY <1>3, <1>4, <3>2, <4>1 DEF CallsOK
      <4>3. j \in 1..n BY <1>4, <3>2
      <4> QED BY <2>0, <4>2, <4>3
    <3> QED BY <2>1, <3>1, <3>2
  <2>7. ASSUME NEW k \in 1..(n + 1), NEW e \in calls'[k].left, NEW m \in Blocks(f), Dominates(f, e, m)
        PROVE  Intact(m)'
    <3>1. CASE k = n + 1
      <4>1. e \in Blocks(f) /\ Dominates(f, c, e)
        BY <2>0, <2>7, <3>1 DEF Children, IsIdom, StrictlyDominates
      <4> QED BY <1>6, <1>8, <2>7, <4>1, DominatesTransitive
    <3>2. CASE k \in 1..n
      <4>1. e \in calls[k].left BY <2>0, <2>7, <3>2
      <4> QED BY <1>3, <1>4, <1>6, <2>7, <3>2, <4>1 DEF CallsOK
    <3> QED BY <2>1, <3>1, <3>2
  <2>8. /\ calls' # << >> /\ calls'[1].bb = root
        /\ pc' \in {"place", "enter", "instr", "children", "allocas", "done", "abort"}
        /\ pc' \notin {"place", "allocas", "done"}
    <3>1. calls' # << >> BY <1>4, <1>9
    <3>2. 1 \in 1..n BY <1>4
    <3> QED BY <1>1, <1>3, <2>0, <3>1, <3>2 DEF CallsOK
  <2>9. calls' \in Seq([bb : Blocks(f'), wait_delete : SUBSET InstrsIn(f'), left : SUBSET Blocks(f')])
    BY <1>1, <1>9 DEF S
  <2> QED BY <1>1, <1>6, <1>9, <2>2, <2>3, <2>4, <2>5, <2>6, <2>7, <2>8, <2>9, Zenon DEF CallsOK
<1>13. StacksOK' /\ \E next : /\ BaseOK(next)'
                              /\ \A v \in Variables : \A k \in DOMAIN calls : next[k][v] = base[k][v]
  <2>1. base \in [1..n -> [Variables -> Nat]] /\ BaseOK(base) BY <1>4 DEF BaseOK
  <2>2. \A v : Len(StackOf(v)) \in Nat /\ StackOf(v)' = StackOf(v)
    BY <1>1, <1>3, StackTyped DEF StackOf, Known
  <2>3. PICK next \in [1..(n + 1) -> [Variables -> Nat]] :
          \A v \in Variables : (\A k \in 1..n : next[k][v] = base[k][v]) /\ next[n + 1][v] = Len(StackOf(v))
    <3> DEFINE x == [k \in 1..(n + 1) |-> [v \in Variables |-> IF k \in 1..n THEN base[k][v] ELSE Len(StackOf(v))]]
    <3>1. x \in [1..(n + 1) -> [Variables -> Nat]] BY <2>1, <2>2
    <3>2. n + 1 \notin 1..n /\ n + 1 \in 1..(n + 1) /\ \A k \in 1..n : k \in 1..(n + 1) BY <1>4
    <3>3. \A v \in Variables : (\A k \in 1..n : x[k][v] = base[k][v]) /\ x[n + 1][v] = Len(StackOf(v))
      BY <3>2
    <3> QED BY <3>1, <3>3
  <2>4. \A j \in 1..n : calls'[j].bb = calls[j].bb BY <1>9
  <2>5. ASSUME NEW v \in Variables
        PROVE  /\ next[n + 1][v] = next[n][v] + Cardinality(Pushes(calls[n].bb, v))
               /\ \A k \in 1..n : next[k][v] \in Nat /\ Cardinality(Pushes(calls[k].bb, v)) \in Nat
    <3>1. Here(v) = Pushes(bb_, v) BY <1>1 DEF Here
    <3>2. Len(StackOf(v)) = base[n][v] + Cardinality(Here(v)) BY <1>3, <2>1 DEF BaseOK, n
    <3>3. \A k \in 1..n : Cardinality(Pushes(calls[k].bb, v)) \in Nat
      BY <1>3, <1>11, Code, PushesFinite
    <3>4. \A k \in 1..n : next[k][v] \in Nat
      <4>1. \A k \in 1..n : k \in 1..(n + 1) BY <1>4
      <4> QED BY <4>1
    <3>5. next[n][v] = base[n][v] /\ next[n + 1][v] = Len(StackOf(v)) BY <1>4, <2>3
    <3> QED BY <1>10, <3>1, <3>2, <3>3, <3>4, <3>5
  <2>6. ASSUME NEW v \in Variables, NEW k \in 1..(n + 1)
        PROVE  /\ k = 1 => next[k][v] = 0
               /\ k > 1 => next[k][v] = next[k - 1][v] + Cardinality(Pushes(calls[k - 1].bb, v))
               /\ \A j \in 1..(k - 1) : next[k][v] >= next[j][v] + Cardinality(Pushes(calls[j].bb, v))
    <3>1. \A m \in 1..n :
            /\ m = 1 => base[m][v] = 0
            /\ m > 1 => base[m][v] = base[m - 1][v] + Cardinality(Pushes(calls[m - 1].bb, v))
            /\ \A j \in 1..(m - 1) : base[m][v] >= base[j][v] + Cardinality(Pushes(calls[j].bb, v))
      BY <1>4, <2>1 DEF BaseOK
    <3>2. \A m \in 1..n : next[m][v] = base[m][v] BY <2>3
    <3>3. CASE k \in 1..n
      <4>1. \A j \in 1..(k - 1) : j \in 1..n BY <1>4, <3>3
      <4>2. k > 1 => k - 1 \in 1..n BY <1>4, <3>3
      <4> QED BY <3>1, <3>2, <3>3, <4>1, <4>2
    <3>4. CASE k = n + 1
      <4>1. k - 1 = n /\ k # 1 BY <1>4, <3>4
      <4>2. ASSUME NEW j \in 1..n PROVE next[k][v] >= next[j][v] + Cardinality(Pushes(calls[j].bb, v))
        <5>1. next[k][v] = next[n][v] + Cardinality(Pushes(calls[n].bb, v)) BY <2>5, <3>4
        <5>2. next[n][v] \in Nat /\ next[j][v] \in Nat /\ Cardinality(Pushes(calls[n].bb, v)) \in Nat
              /\ Cardinality(Pushes(calls[j].bb, v)) \in Nat
          BY <1>4, <2>5
        <5>3. CASE j = n BY <5>1, <5>2, <5>3
        <5>4. CASE j # n
          <6>1. j \in 1..(n - 1) BY <1>4, <5>4
          <6>2. base[n][v] >= base[j][v] + Cardinality(Pushes(calls[j].bb, v)) BY <1>4, <3>1, <6>1
          <6>3. next[n][v] >= next[j][v] + Cardinality(Pushes(calls[j].bb, v)) BY <1>4, <3>2, <6>2
          <6> QED BY <5>1, <5>2, <6>3
        <5> QED BY <5>3, <5>4
      <4> QED BY <2>5, <3>4, <4>1, <4>2
    <3> QED BY <1>4, <3>3, <3>4
  <2>7. ASSUME NEW v \in Variables PROVE Len(StackOf(v)') = next[n + 1][v] + Cardinality(Here(v)')
    <3>1. Here(v)' = {} /\ Cardinality({}) = 0 BY <1>1, FS_EmptySet DEF Here
    <3>2. Len(StackOf(v)') = next[n + 1][v] BY <2>2, <2>3
    <3>3. next[n + 1][v] \in Nat BY <2>2, <2>3
    <3> HIDE DEF Here, StackOf
    <3> QED BY <3>1, <3>2, <3>3
  <2>8. BaseOK(next)'
    <3>1. \A v \in Variables : \A k \in 1..(n + 1) :
            /\ k = 1 => next[k][v] = 0
            /\ k > 1 => next[k][v] = next[k - 1][v] + Cardinality(Pushes(calls[k - 1].bb, v)')
            /\ \A j \in 1..(k - 1) : next[k][v] >= next[j][v] + Cardinality(Pushes(calls[j].bb, v)')
      <4> SUFFICES ASSUME NEW v \in Variables, NEW k \in 1..(n + 1)
                   PROVE  /\ k = 1 => next[k][v] = 0
                          /\ k > 1 => next[k][v] = next[k - 1][v] + Cardinality(Pushes(calls[k - 1].bb, v)')
                          /\ \A j \in 1..(k - 1) : next[k][v] >= next[j][v] + Cardinality(Pushes(calls[j].bb, v)')
        OBVIOUS
      <4>1. \A j \in 1..n : Pushes(calls[j].bb, v)' = Pushes(calls[j].bb, v) BY <1>6, <2>4
      <4>2. \A j \in 1..(k - 1) : j \in 1..n BY <1>4
      <4>3. k > 1 => k - 1 \in 1..n BY <1>4
      <4> QED BY <2>6, <4>1, <4>2, <4>3
    <3> QED BY <1>6, <1>9, <2>3, <2>7, <3>1 DEF BaseOK
  <2>9. \E x \in [DOMAIN calls -> [Variables -> Nat]]' : BaseOK(x)' BY <1>6, <1>9, <2>8
  <2>10. Known' \subseteq Variables /\ \A v \in Known' : var_val_stack'[v] \in Seq(DOMAIN ir'.use_list)
    BY <1>1, <1>3 DEF Known
  <2>11. StacksOK' BY <1>1, <1>6, <2>9, <2>10 DEF StacksOK
  <2> QED BY <1>4, <2>3, <2>8, <2>11
<1> QED BY <1>1, <1>3, <1>7, <1>12, <1>13 DEF IInv

LEMMA VisitChildStep ==
  ASSUME IInv, VisitChild
  PROVE  IInv'
<1>1. PICK base \in [DOMAIN calls -> [Variables -> Nat]] : BaseOK(base) BY DEF IInv, StacksOK
<1> QED BY <1>1, VisitChildFrom

\* What delete_instr does to other blocks, and to the use lists.
LEMMA Deleted ==
  ASSUME IrOK, NEW b, NEW D, ir' = DeleteInstrs(ir, b, D)
  PROVE  /\ ir' = [code |-> ir'.code, operands |-> ir'.operands, use_list |-> ir'.use_list]
         /\ DOMAIN ir'.code = Block /\ ir'.operands = ir.operands
         /\ \A c \in Block \ {b} : ir'.code[c] = ir.code[c]
         /\ DOMAIN ir'.use_list = DOMAIN ir.use_list
         /\ \A v \in DOMAIN ir.use_list : ir'.use_list[v] \subseteq ir.use_list[v]
<1> DEFINE s == Without(ir.code[b], D)
           readers(v) == {x \in D : \E i \in DOMAIN ir.operands[x] : ir.operands[x][i] = v}
           lists == [v \in DOMAIN ir.use_list |-> {use \in ir.use_list[v] : use[1] \notin readers(v)}]
<1>1. ir = [code |-> ir.code, operands |-> ir.operands, use_list |-> ir.use_list] /\ DOMAIN ir.code = Block
  BY DEF IrOK
<1>2. DeleteInstrs(ir, b, D) = RemoveUseOfOps([ir EXCEPT !.code[b] = s], D)
  BY Zenon DEF DeleteInstrs
<1> HIDE DEF s
<1>3. [ir EXCEPT !.code[b] = s] = [code |-> [ir.code EXCEPT ![b] = s], operands |-> ir.operands, use_list |-> ir.use_list]
  BY <1>1
<1> DEFINE g == [code |-> [ir.code EXCEPT ![b] = s], operands |-> ir.operands, use_list |-> ir.use_list]
<1>4. ir' = [code |-> [ir.code EXCEPT ![b] = s], operands |-> ir.operands, use_list |-> lists]
  <2>1. RemoveUseOfOps(g, D) =
          [g EXCEPT !.use_list = [v \in DOMAIN g.use_list |->
             {use \in g.use_list[v] :
                use[1] \notin {x \in D : \E i \in DOMAIN g.operands[x] : g.operands[x][i] = v}}]]
    <3> HIDE DEF g
    <3> QED BY Zenon DEF RemoveUseOfOps
  <2>2. g.use_list = ir.use_list /\ g.operands = ir.operands /\ g.code = [ir.code EXCEPT ![b] = s]
    OBVIOUS
  <2>3. RemoveUseOfOps(g, D) = [g EXCEPT !.use_list = lists] BY <2>1, <2>2
  <2> QED BY <1>2, <1>3, <2>3
<1> QED BY <1>1, <1>4

\* What is above the block of the last call is not below a child still to be visited.
LEMMA NotBelow ==
  ASSUME IInv, calls # << >>, NEW d, Dominates(f, d, bb_)
  PROVE  ~Below(d)
<1> SUFFICES ASSUME NEW k \in DOMAIN calls, NEW c \in calls[k].left, Dominates(f, c, d) PROVE FALSE
  BY DEF Below
<1> DEFINE n == Len(calls)
<1>1. f \in Functions /\ CallsOK /\ bb_ \in Blocks(f) /\ n \in DOMAIN calls /\ bb_ = calls[n].bb
  BY AtBlock DEF IInv, bb_, this
<1>2. DOMAIN calls = 1..n /\ n \in Nat /\ n \in 1..n /\ k \in 1..n BY <1>1 DEF CallsOK
<1>3. Dominates(f, c, bb_) BY DominatesTransitive
<1>4. \A m \in 1..n : calls[m].bb \in Blocks(f)
  <2> DEFINE S == [bb : Blocks(f), wait_delete : SUBSET InstrsIn(f), left : SUBSET Blocks(f)]
  <2>1. calls \in Seq(S) BY <1>1 DEF CallsOK
  <2>2. \A m \in 1..n : calls[m] \in S
    <3> HIDE DEF S
    <3> QED BY <2>1
  <2> QED BY <2>2
<1>5. c \in Blocks(f) /\ IsIdom(f, calls[k].bb, c) BY <1>1, <1>2 DEF CallsOK, Children
<1>6. PICK m \in 1..n : c = calls[m].bb
  <2>1. CASE c = bb_ BY <1>1, <1>2, <2>1
  <2>2. CASE c # bb_
    <3>1. PICK j \in 1..(n - 1) : calls[j].bb = c
      BY <1>1, <1>2, <1>3, <1>5, <2>2 DEF CallsOK, StrictlyDominates
    <3> QED BY <1>2, <3>1
  <2> QED BY <2>1, <2>2
<1>7. StrictlyDominates(f, calls[k].bb, c) BY <1>5 DEF IsIdom
<1>8. ~Dominates(f, c, calls[k].bb)
  BY <1>1, <1>2, <1>4, <1>5, <1>7, Code, DominatesAntisymmetric DEF StrictlyDominates
<1>9. CASE m = k BY <1>6, <1>7, <1>9 DEF StrictlyDominates
<1>10. CASE m < k
  <2>1. StrictlyDominates(f, calls[m].bb, calls[k].bb) BY <1>1, <1>2, <1>10 DEF CallsOK
  <2> QED BY <1>6, <1>8, <2>1 DEF StrictlyDominates
<1>11. CASE m = k + 1
  <2>1. m > 1 /\ m - 1 = k BY <1>2, <1>11
  <2> QED BY <1>1, <1>2, <1>6, <2>1 DEF CallsOK
<1>12. CASE m > k + 1
  <2>1. k + 1 \in 1..n /\ k + 1 < m /\ k < k + 1 BY <1>2, <1>12
  <2>2. StrictlyDominates(f, calls[k + 1].bb, calls[m].bb) /\ StrictlyDominates(f, calls[k].bb, calls[k + 1].bb)
    BY <1>1, <1>2, <2>1 DEF CallsOK
  <2>3. Dominates(f, calls[k + 1].bb, calls[k].bb) BY <1>4, <1>5, <1>6, <2>1, <2>2 DEF IsIdom
  <2> QED BY <1>1, <1>2, <1>4, <2>1, <2>2, <2>3, Code, DominatesAntisymmetric DEF StrictlyDominates
<1> QED BY <1>2, <1>9, <1>10, <1>11, <1>12

\* No child that is left is above the block that returns, which is the only one that
\* loses instructions; and what it has pushed is what it pops.
LEMMA ReturnFrom ==
  ASSUME IInv, Return, NEW base, BaseOK(base)
  PROVE  /\ IInv'
         /\ \A v \in Variables : Len(StackOf(v)') = base[Len(calls)][v]
         /\ calls' # << >> => \E next : /\ BaseOK(next)'
                                        /\ \A k \in DOMAIN calls' : next[k] = base[k]
<1> DEFINE S == [bb : Blocks(f), wait_delete : SUBSET InstrsIn(f), left : SUBSET Blocks(f)]
           n == Len(calls)
           Popped(v) == SubSeq(var_val_stack[v], 1, Len(var_val_stack[v]) - Cardinality(PushedHere(v)))
<1>1. /\ pc = "children" /\ pc' = (IF n = 1 THEN "allocas" ELSE "children")
      /\ UNCHANGED <<f, vars_left, var, work_list, line>>
      /\ var_val_stack' = [v \in Known |-> Popped(v)]
      /\ ir' = DeleteInstrs(ir, bb_, this.wait_delete) /\ calls' = Front(calls)
  BY Zenon DEF Return
<1>2. /\ calls # << >> /\ f \in Functions /\ CallsOK /\ PlaceOK /\ IrOK /\ StacksOK
      /\ calls \in Seq(S) /\ bb_ \in Blocks(f) /\ bb_ \in Block
      /\ Known \subseteq Variables /\ \A v \in Known : var_val_stack[v] \in Seq(DOMAIN ir.use_list)
  BY <1>1, HereFinite DEF IInv, CallsOK, StacksOK
<1>3. n \in Nat /\ DOMAIN calls = 1..n /\ n \in 1..n /\ bb_ = calls[n].bb BY <1>2 DEF bb_, this
<1>4. /\ ir' = [code |-> ir'.code, operands |-> ir'.operands, use_list |-> ir'.use_list]
      /\ DOMAIN ir'.code = Block /\ ir'.operands = ir.operands
      /\ \A c \in Block \ {bb_} : ir'.code[c] = ir.code[c]
      /\ DOMAIN ir'.use_list = DOMAIN ir.use_list
      /\ \A v \in DOMAIN ir.use_list : ir'.use_list[v] \subseteq ir.use_list[v]
  BY <1>1, <1>2, Deleted
<1>5. /\ Variables' = Variables /\ root' = root /\ \A b : Children(b)' = Children(b)
      /\ \A b \in Block \ {bb_} : Intact(b)' = Intact(b)
      /\ \A v, b : Pushes(b, v)' = Pushes(b, v)
  BY <1>1, <1>4, SameFunction, SamePhis, Zenon
<1>6. IrOK' /\ PlaceOK'
  <2>1. IrOK' BY <1>1, <1>2, <1>4, IrKept DEF IrOK
  <2>2. pc' # "place" BY <1>1
  <2> QED BY <1>1, <1>2, <1>4, <2>1, <2>2, PlaceKept
<1>7. /\ calls' \in Seq(S) /\ Len(calls') = n - 1 /\ DOMAIN calls' = 1..(n - 1)
      /\ \A k \in 1..(n - 1) : calls'[k] = calls[k] /\ k \in 1..n /\ k < n
      /\ calls' = << >> <=> n = 1
  <2>1. calls' = SubSeq(calls, 1, n - 1) BY <1>1 DEF Front
  <2> HIDE DEF S
  <2>2. /\ calls' \in Seq(S) /\ Len(calls') = n - 1 /\ DOMAIN calls' = 1..(n - 1)
        /\ \A k \in 1..(n - 1) : calls'[k] = calls[k]
    BY <1>2, <1>3, <2>1
  <2>3. \A k \in 1..(n - 1) : k \in 1..n /\ k < n BY <1>3
  <2>4. calls' = << >> <=> n = 1 BY <1>3, <2>2
  <2> QED BY <2>2, <2>3, <2>4
<1> HIDE DEF S, n, Popped
<1>8. \A k \in 1..n : calls[k].bb \in Blocks(f) /\ calls[k].bb \in Block
  <2>1. \A k \in 1..n : calls[k] \in S BY <1>2, <1>3
  <2> QED BY <1>2, <2>1, Code DEF S
<1>9. \A k \in 1..(n - 1) : StrictlyDominates(f, calls[k].bb, bb_) /\ calls[k].bb # bb_
  BY <1>2, <1>3, <1>7 DEF CallsOK, StrictlyDominates
<1>10. ASSUME NEW k \in 1..(n - 1), NEW c \in calls[k].left, Dominates(f, c, bb_) PROVE FALSE
  <2>1. Dominates(f, bb_, bb_) BY <1>2, Code, DominatesReflexive
  <2>2. ~Below(bb_) BY <1>2, <2>1, NotBelow
  <2> QED BY <1>3, <1>7, <1>10, <2>2 DEF Below
<1>11. CallsOK'
  <2>1. \A k \in 1..(n - 1) : Intact(calls[k].bb)'
    <3>1. \A k \in 1..(n - 1) : Intact(calls[k].bb) /\ calls[k].bb \in Block \ {bb_}
      BY <1>2, <1>3, <1>7, <1>8, <1>9 DEF CallsOK
    <3> QED BY <1>5, <1>7, <3>1
  <2>2. ASSUME NEW k \in 1..(n - 1), NEW c \in calls[k].left, NEW m \in Blocks(f), Dominates(f, c, m)
        PROVE  Intact(m)'
    <3>1. m # bb_ /\ Intact(m) BY <1>2, <1>3, <1>7, <1>10, <2>2 DEF CallsOK
    <3>2. m \in Block BY <1>2, Code
    <3> QED BY <1>5, <3>1, <3>2
  <2>3. \A k \in 1..(n - 1) : calls[k].left \subseteq Children(calls[k].bb)'
    BY <1>2, <1>3, <1>5, <1>7 DEF CallsOK
  <2>4. \A k \in 1..(n - 1) : k > 1 => k - 1 \in 1..(n - 1) BY <1>3
  <2>5. \A k \in 1..(n - 1) : \A j \in 1..(k - 1) : j \in 1..(n - 1) BY <1>3
  <2>6. \A k \in 1..(n - 1) : k > 1 =>
          IsIdom(f, calls'[k - 1].bb, calls'[k].bb) /\ calls'[k].bb \notin calls'[k - 1].left
    BY <1>2, <1>3, <1>7, <2>4 DEF CallsOK
  <2>7. \A k \in 1..(n - 1), j \in 1..(n - 1) : j < k => StrictlyDominates(f, calls'[j].bb, calls'[k].bb)
    BY <1>2, <1>3, <1>7 DEF CallsOK
  <2>8. \A k \in 1..(n - 1), d \in Blocks(f) : StrictlyDominates(f, d, calls'[k].bb) =>
          \E j \in 1..(k - 1) : calls'[j].bb = d
    <3> SUFFICES ASSUME NEW k \in 1..(n - 1), NEW d \in Blocks(f), StrictlyDominates(f, d, calls'[k].bb)
                 PROVE  \E j \in 1..(k - 1) : calls'[j].bb = d
      OBVIOUS
    <3>1. k \in 1..n /\ StrictlyDominates(f, d, calls[k].bb) BY <1>7
    <3>2. PICK j \in 1..(k - 1) : calls[j].bb = d BY <1>2, <1>3, <3>1 DEF CallsOK
    <3> QED BY <1>7, <2>5, <3>2
  <2>9. calls' # << >> => calls'[1].bb = root
    <3>1. n # 1 => 1 \in 1..(n - 1) BY <1>3
    <3> QED BY <1>2, <1>7, <3>1 DEF CallsOK
  <2>10. /\ pc' \in {"place", "enter", "instr", "children", "allocas", "done", "abort"}
         /\ pc' \in {"place", "allocas", "done"} <=> calls' = << >>
    BY <1>1, <1>7
  <2>11. calls' \in Seq([bb : Blocks(f'), wait_delete : SUBSET InstrsIn(f'), left : SUBSET Blocks(f')])
    BY <1>1, <1>7 DEF S
  <2>12. /\ \A k \in 1..(n - 1) : Intact(calls[k].bb)' /\ calls'[k].left \subseteq Children(calls[k].bb)'
         /\ \A k \in 1..(n - 1) : \A c \in calls'[k].left, m \in Blocks(f) : Dominates(f, c, m) => Intact(m)'
    BY <1>7, <2>1, <2>2, <2>3
  <2> QED BY <1>1, <1>5, <1>7, <2>6, <2>7, <2>8, <2>9, <2>10, <2>11, <2>12, Zenon DEF CallsOK

<1>12. \A v \in Variables : PushedHere(v) = Pushes(bb_, v)
  <2> SUFFICES ASSUME NEW v \in Variables, NEW x PROVE x \in PushedHere(v) <=> x \in Pushes(bb_, v)
    OBVIOUS
  <2>1. ASSUME x \in PushedHere(v) PROVE x \in Pushes(bb_, v)
    <3>1. x \in Range(ir.code[bb_]) /\ (IsStore(x) \/ IsPhi(x)) /\ Lval(x, ir.operands[x]) = v
      BY <2>1 DEF PushedHere
    <3>2. CASE IsPhi(x) BY <1>2, <3>1, <3>2, AtBlock, Phis DEF Pushes
    <3>3. CASE IsStore(x) /\ ~IsPhi(x)
      <4>1. x \in Range(f.code[bb_]) /\ x \in InstrsIn(f) BY <1>2, <3>1, <3>3, AtBlock
      <4>2. Lval(x, ir.operands[x]) = ir.operands[x][2] BY <3>3 DEF Lval, IsStore, IsLoad, IsPhi
      <4> QED BY <1>2, <3>1, <3>3, <4>1, <4>2 DEF IrOK, Pushes
    <3> QED BY <3>1, <3>2, <3>3
  <2>2. ASSUME x \in Pushes(bb_, v) PROVE x \in PushedHere(v)
    <3>1. x \in Range(ir.code[bb_]) BY <1>2, <2>2, AtBlock
    <3>2. CASE x = PhiOf(v, bb_) BY <3>1, <3>2, Phis DEF PushedHere
    <3>3. CASE x # PhiOf(v, bb_)
      <4>1. x \in Range(f.code[bb_]) /\ IsStore(x) /\ f.operands[x][2] = v BY <2>2, <3>3 DEF Pushes
      <4>2. x \in InstrsIn(f) BY <1>2, <4>1 DEF InstrsIn
      <4>3. Lval(x, ir.operands[x]) = ir.operands[x][2] BY <4>1 DEF Lval, IsStore, IsLoad, IsPhi
      <4> QED BY <1>2, <3>1, <4>1, <4>2, <4>3 DEF IrOK, PushedHere
    <3> QED BY <3>2, <3>3
  <2> QED BY <2>1, <2>2
<1>13. base \in [1..n -> [Variables -> Nat]] /\ BaseOK(base) BY <1>3 DEF BaseOK
<1>14. ASSUME NEW v \in Variables
       PROVE  Len(StackOf(v)) = base[n][v] + Cardinality(PushedHere(v)) /\ base[n][v] \in Nat
              /\ Cardinality(PushedHere(v)) \in Nat
  <2>1. Here(v) = PushedHere(v) BY <1>1, <1>12 DEF Here
  <2>2. Len(StackOf(v)) = base[n][v] + Cardinality(Here(v)) BY <1>2, <1>13 DEF BaseOK, n
  <2>3. Cardinality(Here(v)) \in Nat BY <1>2, HereFinite
  <2> QED BY <1>3, <1>13, <2>1, <2>2, <2>3
<1>15. ASSUME NEW v \in Known
       PROVE  var_val_stack'[v] \in Seq(DOMAIN ir.use_list) /\ Len(var_val_stack'[v]) = base[n][v]
  <2> DEFINE D == DOMAIN ir.use_list
             s == var_val_stack[v]
             m == Cardinality(PushedHere(v))
             k == base[n][v]
  <2>1. s \in Seq(D) /\ var_val_stack'[v] = SubSeq(s, 1, Len(s) - m) BY <1>1, <1>2 DEF Popped
  <2>2. Len(s) = k + m /\ k \in Nat /\ m \in Nat BY <1>2, <1>14 DEF StackOf
  <2> HIDE DEF D, s, m, k
  <2>3. Len(s) - m = k /\ Len(s) \in Nat /\ k <= Len(s) BY <2>2
  <2>4. SubSeq(s, 1, k) \in Seq(D) /\ Len(SubSeq(s, 1, k)) = k BY <2>1, <2>2, <2>3
  <2> QED BY <2>1, <2>3, <2>4 DEF D, k
<1>16. Known' = Known BY <1>1 DEF Known
<1>17. \A v \in Variables : Len(StackOf(v)') = base[n][v]
  <2> SUFFICES ASSUME NEW v \in Variables PROVE Len(StackOf(v)') = base[n][v]
    OBVIOUS
  <2>1. CASE v \in Known BY <1>15, <1>16, <2>1 DEF StackOf
  <2>2. CASE v \notin Known
    <3>1. StackOf(v) = << >> /\ StackOf(v)' = << >> BY <1>16, <2>2 DEF StackOf
    <3>2. Len(StackOf(v)) = 0 /\ Len(StackOf(v)') = 0 BY <3>1
    <3> HIDE DEF StackOf
    <3> QED BY <1>14, <3>2
  <2> QED BY <2>1, <2>2
<1>18. /\ StacksOK'
       /\ calls' # << >> => \E next : BaseOK(next)' /\ \A k \in DOMAIN calls' : next[k] = base[k]
  <2>1. Known' \subseteq Variables' /\ \A v \in Known' : var_val_stack'[v] \in Seq(DOMAIN ir'.use_list)
    BY <1>2, <1>4, <1>5, <1>15, <1>16
  <2>2. CASE n = 1
    <3>1. calls' = << >> /\ pc' = "allocas" BY <1>1, <1>7, <2>2
    <3> QED BY <2>1, <3>1, NoCalls
  <2>3. CASE n # 1
    <3>1. n > 1 /\ n - 1 \in 1..n /\ n - 1 \in 1..(n - 1) /\ pc' = "children" /\ bb_' = calls[n - 1].bb
      <4>1. n > 1 /\ n - 1 \in 1..n /\ n - 1 \in 1..(n - 1) /\ pc' = "children" BY <1>1, <1>3, <2>3
      <4> QED BY <1>7, <4>1 DEF bb_, this
    <3>2. PICK next \in [1..(n - 1) -> [Variables -> Nat]] : \A k \in 1..(n - 1) : next[k] = base[k]
      <4>1. [k \in 1..(n - 1) |-> base[k]] \in [1..(n - 1) -> [Variables -> Nat]] BY <1>7, <1>13
      <4> QED BY <4>1
    <3>3. ASSUME NEW v \in Variables, NEW k \in 1..(n - 1)
          PROVE  /\ k = 1 => next[k][v] = 0
                 /\ k > 1 => next[k][v] = next[k - 1][v] + Cardinality(Pushes(calls[k - 1].bb, v)')
                 /\ \A j \in 1..(k - 1) : next[k][v] >= next[j][v] + Cardinality(Pushes(calls[j].bb, v)')
      <4>1. \A j \in 1..(n - 1) : Pushes(calls[j].bb, v)' = Pushes(calls[j].bb, v) BY <1>5, <1>7
      <4>2. (\A j \in 1..(k - 1) : j \in 1..(n - 1)) /\ (k > 1 => k - 1 \in 1..(n - 1)) BY <1>3
      <4>3. /\ k = 1 => base[k][v] = 0
            /\ k > 1 => base[k][v] = base[k - 1][v] + Cardinality(Pushes(calls[k - 1].bb, v))
            /\ \A j \in 1..(k - 1) : base[k][v] >= base[j][v] + Cardinality(Pushes(calls[j].bb, v))
        BY <1>3, <1>7, <1>13 DEF BaseOK
      <4> QED BY <3>2, <4>1, <4>2, <4>3
    <3>4. ASSUME NEW v \in Variables PROVE Len(StackOf(v)') = next[n - 1][v] + Cardinality(Here(v)')
      <4>1. Here(v)' = Pushes(bb_, v)' BY <3>1 DEF Here
      <4>2. Pushes(bb_, v)' = Pushes(calls[n - 1].bb, v) BY <1>5, <3>1
      <4>3. base[n][v] = base[n - 1][v] + Cardinality(Pushes(calls[n - 1].bb, v))
        BY <1>3, <1>13, <3>1 DEF BaseOK
      <4>4. next[n - 1][v] = base[n - 1][v] BY <3>1, <3>2
      <4> HIDE DEF Here, StackOf
      <4> QED BY <1>17, <4>1, <4>2, <4>3, <4>4
    <3>5. BaseOK(next)' BY <1>5, <1>7, <3>2, <3>3, <3>4 DEF BaseOK
    <3>6. \E x \in [DOMAIN calls -> [Variables -> Nat]]' : BaseOK(x)' BY <1>5, <1>7, <3>2, <3>5
    <3>7. StacksOK' BY <1>5, <2>1, <3>1, <3>6 DEF StacksOK
    <3> QED BY <1>7, <3>2, <3>5, <3>7
  <2> QED BY <2>2, <2>3
<1> QED BY <1>1, <1>2, <1>6, <1>11, <1>17, <1>18 DEF IInv, n

LEMMA ReturnStep ==
  ASSUME IInv, Return
  PROVE  IInv'
<1>1. PICK base \in [DOMAIN calls -> [Variables -> Nat]] : BaseOK(base) BY DEF IInv, StacksOK
<1> QED BY <1>1, ReturnFrom

LEMMA RemoveAllocasStep ==
  ASSUME IInv, RemoveAllocas
  PROVE  IInv'
<1>1. /\ pc = "allocas" /\ pc' = "done"
      /\ UNCHANGED <<f, vars_left, var, work_list, var_val_stack, calls, line>>
      /\ ir' = [ir EXCEPT !.code = [b \in Block |-> Without(ir.code[b], ScalarAllocas)]]
  BY DEF RemoveAllocas
<1>2. /\ f \in Functions /\ IrOK /\ PlaceOK /\ StacksOK /\ calls = << >>
      /\ Known \subseteq Variables /\ \A v \in Known : var_val_stack[v] \in Seq(DOMAIN ir.use_list)
  BY <1>1 DEF IInv, CallsOK, StacksOK
<1>3. /\ ir' = [code |-> ir'.code, operands |-> ir'.operands, use_list |-> ir'.use_list]
      /\ DOMAIN ir'.code = Block /\ ir'.operands = ir.operands /\ ir'.use_list = ir.use_list
  BY <1>1, <1>2 DEF IrOK
<1>4. IrOK' /\ PlaceOK' BY <1>1, <1>2, <1>3, IrKept, PlaceKept DEF IrOK
<1>5. Variables' = Variables /\ Known' = Known BY <1>1, SameFunction DEF Known
<1>6. CallsOK' /\ StacksOK'
  <2>1. Known' \subseteq Variables' /\ \A v \in Known' : var_val_stack'[v] \in Seq(DOMAIN ir'.use_list)
    BY <1>1, <1>2, <1>3, <1>5
  <2> QED BY <1>1, <1>2, <2>1, NoCalls
<1> QED BY <1>1, <1>2, <1>4, <1>6 DEF IInv

----
LEMMA Untouched ==
  ASSUME IInv, UNCHANGED pass
  PROVE  IInv' /\ BaseKept
<1>1. /\ f' = f /\ ir' = ir /\ pc' = pc /\ vars_left' = vars_left /\ var' = var
      /\ work_list' = work_list /\ var_val_stack' = var_val_stack /\ calls' = calls /\ line' = line
  BY DEF pass
<1>2. /\ Variables' = Variables /\ root' = root /\ \A b : Children(b)' = Children(b)
      /\ \A v, b : HasPhi(v, b)' = HasPhi(v, b) /\ Defines(b, v)' = Defines(b, v)
      /\ \A v, b : Pushes(b, v)' = Pushes(b, v)
      /\ \A b : Intact(b)' = Intact(b)
  BY <1>1, SameFunction, SamePhis, Zenon
<1>3. IrOK' /\ f' \in Functions BY <1>1, <1>2 DEF IInv, IrOK
<1>4. PlaceOK'
  <2>1. PhisPlaced' BY <1>1, <1>2, Zenon DEF IInv, PlaceOK, PhisPlaced
  <2>2. PlaceOK BY DEF IInv
  <2> QED BY <1>1, <1>2, <2>1, <2>2 DEF PlaceOK
<1>5. CallsOK'
  <2>1. CallsOK BY DEF IInv
  <2>2. /\ calls' \in Seq([bb : Blocks(f'), wait_delete : SUBSET InstrsIn(f'), left : SUBSET Blocks(f')])
        /\ pc' \in {"place", "enter", "instr", "children", "allocas", "done", "abort"}
        /\ pc' \in {"place", "allocas", "done"} <=> calls' = << >>
        /\ calls' # << >> => calls'[1].bb = root'
    BY <1>1, <1>2, <2>1 DEF CallsOK
  <2>3. /\ \A k \in DOMAIN calls : calls[k].left \subseteq Children(calls[k].bb)
        /\ \A k \in DOMAIN calls : Intact(calls[k].bb)
        /\ \A k \in DOMAIN calls : \A c \in calls[k].left, m \in Blocks(f) : Dominates(f, c, m) => Intact(m)
    BY <2>1, Zenon DEF CallsOK
  <2>4. /\ \A k \in DOMAIN calls' : calls'[k].left \subseteq Children(calls[k].bb)'
        /\ \A k \in DOMAIN calls' : Intact(calls[k].bb)'
        /\ \A k \in DOMAIN calls' : \A c \in calls'[k].left, m \in Blocks(f') : Dominates(f', c, m) => Intact(m)'
    BY <1>1, <1>2, <2>3, Zenon
  <2>5. /\ \A k \in DOMAIN calls' : k > 1 =>
             IsIdom(f', calls'[k - 1].bb, calls'[k].bb) /\ calls'[k].bb \notin calls'[k - 1].left
        /\ \A k \in DOMAIN calls', j \in DOMAIN calls' : j < k => StrictlyDominates(f', calls'[j].bb, calls'[k].bb)
        /\ \A k \in DOMAIN calls', d \in Blocks(f') : StrictlyDominates(f', d, calls'[k].bb) =>
             \E j \in 1..(k - 1) : calls'[j].bb = d
    <3>1. f' = f /\ calls' = calls BY ONLY <1>1
    <3>2. /\ \A k \in DOMAIN calls : k > 1 =>
               IsIdom(f, calls[k - 1].bb, calls[k].bb) /\ calls[k].bb \notin calls[k - 1].left
          /\ \A k \in DOMAIN calls, j \in DOMAIN calls : j < k => StrictlyDominates(f, calls[j].bb, calls[k].bb)
          /\ \A k \in DOMAIN calls, d \in Blocks(f) : StrictlyDominates(f, d, calls[k].bb) =>
               \E j \in 1..(k - 1) : calls[j].bb = d
      BY ONLY <2>1, Zenon DEF CallsOK
    <3> QED BY ONLY <3>1, <3>2
  <2> QED BY <2>2, <2>4, <2>5, Zenon DEF CallsOK
<1>6. bb_' = bb_ /\ Known' = Known /\ \A v : StackOf(v)' = StackOf(v)
  BY <1>1 DEF bb_, this, Known, StackOf
<1>7. BaseKept
  <2>1. \A v : Here(v)' = Here(v)
    <3>1. \A v : PushedBy(line, v)' = PushedBy(line, v) BY <1>1, <1>2, <1>6 DEF PushedBy
    <3> QED BY <1>1, <1>2, <1>6, <3>1, Zenon DEF Here
  <2>2. calls' = calls /\ Variables' = Variables BY ONLY <1>1, <1>2
  <2>3. \A v : Len(StackOf(v))' = Len(StackOf(v)) /\ Cardinality(Here(v))' = Cardinality(Here(v))
    BY ONLY <1>6, <2>1
  <2>4. \A b, v : Cardinality(Pushes(b, v))' = Cardinality(Pushes(b, v)) BY ONLY <1>2
  <2> SUFFICES ASSUME NEW base, BaseOK(base) PROVE BaseOK(base)'
    BY DEF BaseKept
  <2>5. /\ base \in [DOMAIN calls -> [Variables -> Nat]]
        /\ \A v \in Variables : \A k \in DOMAIN calls :
             /\ k = 1 => base[k][v] = 0
             /\ k > 1 => base[k][v] = base[k - 1][v] + Cardinality(Pushes(calls[k - 1].bb, v))
             /\ \A j \in 1..(k - 1) : base[k][v] >= base[j][v] + Cardinality(Pushes(calls[j].bb, v))
        /\ calls # << >> => \A v \in Variables :
             Len(StackOf(v)) = base[Len(calls)][v] + Cardinality(Here(v))
    BY DEF BaseOK
  <2>6. base \in [DOMAIN calls' -> [Variables' -> Nat]] BY ONLY <2>2, <2>5
  <2>7. \A v \in Variables' : \A k \in DOMAIN calls' :
          /\ k = 1 => base[k][v] = 0
          /\ k > 1 => base[k][v] = base[k - 1][v] + Cardinality(Pushes(calls[k - 1].bb, v))'
          /\ \A j \in 1..(k - 1) : base[k][v] >= base[j][v] + Cardinality(Pushes(calls[j].bb, v))'
    BY ONLY <2>2, <2>4, <2>5
  <2>8. calls' # << >> => \A v \in Variables' :
          Len(StackOf(v))' = base[Len(calls')][v] + Cardinality(Here(v))'
    BY ONLY <2>2, <2>3, <2>5
  <2> QED BY ONLY <2>6, <2>7, <2>8 DEF BaseOK
<1>8. StacksOK'
  <2>1. \A base : BaseOK(base) => BaseOK(base)' BY <1>7 DEF BaseKept
  <2>2. PICK base \in [DOMAIN calls -> [Variables -> Nat]] : BaseOK(base) BY DEF IInv, StacksOK
  <2>3. \E x \in [DOMAIN calls -> [Variables -> Nat]]' : BaseOK(x)' BY <1>1, <1>2, <2>1, <2>2
  <2> QED BY <1>1, <1>2, <1>6, <2>3 DEF IInv, StacksOK
<1> QED BY <1>3, <1>4, <1>5, <1>7, <1>8 DEF IInv

LEMMA NextIInv == IInv /\ [Next]_vars => IInv'
<1> SUFFICES ASSUME IInv, [Next]_vars PROVE IInv'
  OBVIOUS
<1>1. NextPass \/ UNCHANGED pass BY DEF Next, Rename, Memory0, Memory1, Together, vars
<1>2. CASE UNCHANGED pass BY <1>2, Untouched
<1>3. CASE NextPass
  BY <1>3, NextVarStep, PlacePhisStep, StartRenameStep, PushPhisStep, RenameLoadStep,
     LoadOfNothingStep, RenameStoreStep, SkipInstrStep, FillPhisStep, VisitChildStep, ReturnStep,
     RemoveAllocasStep, Zenon DEF NextPass
<1> QED BY <1>1, <1>2, <1>3

\* An empty stack has no store above it in the dominator tree and no phi: nothing
\* stored to the variable can reach the block.
LEMMA EmptyIsUnassigned == IInv => EmptyMeansUnassigned
<1> SUFFICES ASSUME IInv, pc \in {"instr", "abort"}, NEW v \in Known, var_val_stack[v] = << >>,
                    NEW c \in Block, v \in StoredIn(f, c), bb_ \in ReachableFrom(c)
             PROVE  FALSE
  BY Zenon DEF EmptyMeansUnassigned
<1> DEFINE n == Len(calls)
<1>1. /\ calls # << >> /\ f \in Functions /\ CallsOK /\ v \in Variables
      /\ bb_ \in Blocks(f) /\ bb_ \in Block /\ n \in DOMAIN calls
      /\ pc # "place" /\ pc # "enter" /\ pc # "children"
  BY AtBlock DEF IInv, CallsOK, StacksOK
<1>2. PICK base \in [DOMAIN calls -> [Variables -> Nat]] : BaseOK(base) BY DEF IInv, StacksOK
<1>3. Here(v) = PushedBy(line, v) /\ Len(StackOf(v)) = 0 BY <1>1 DEF Here, StackOf
<1>4. IsFiniteSet(Here(v)) /\ Cardinality(Here(v)) \in Nat BY <1>1, HereFinite
<1>5. base[n][v] = 0 /\ Cardinality(Here(v)) = 0
  <2>1. Len(StackOf(v)) = base[n][v] + Cardinality(Here(v)) /\ base[n][v] \in Nat
    BY <1>1, <1>2 DEF BaseOK
  <2>2. \A x, y \in Nat : x + y = 0 => x = 0 /\ y = 0 OBVIOUS
  <2>3. base[n][v] + Cardinality(Here(v)) = 0 BY <1>3, <2>1, Zenon
  <2> QED BY <1>4, <2>1, <2>2, <2>3, Zenon
<1>6. ~HasPhi(v, bb_)
  <2>1. Here(v) = {} BY <1>4, <1>5, FS_EmptySet
  <2>2. HasPhi(v, bb_) => PhiOf(v, bb_) \in Here(v) BY <1>3, Phis DEF PushedBy, Pushes
  <2> QED BY <2>1, <2>2
<1>7. ASSUME NEW d \in Blocks(f), Defines(d, v), StrictlyDominates(f, d, bb_) PROVE FALSE
  <2>1. PICK j \in 1..(n - 1) : calls[j].bb = d BY <1>1, <1>7 DEF CallsOK, bb_, this
  <2>2. base[n][v] >= base[j][v] + Cardinality(Pushes(d, v)) BY <1>1, <1>2, <2>1 DEF BaseOK
  <2>3. d \in Block BY <1>1, Code
  <2>4. IsFiniteSet(Pushes(d, v)) /\ Cardinality(Pushes(d, v)) \in Nat BY <1>1, <2>3, PushesFinite
  <2>5. base[j][v] \in Nat
    <3>1. DOMAIN calls = 1..n /\ n \in Nat BY <1>1 DEF CallsOK
    <3>2. j \in DOMAIN calls BY <3>1
    <3> QED BY <1>1, <3>2
  <2>6. Cardinality(Pushes(d, v)) = 0
    <3> HIDE DEF n
    <3> QED BY <1>5, <2>2, <2>4, <2>5
  <2>7. Pushes(d, v) = {} BY <2>4, <2>6, FS_EmptySet
  <2> QED BY <1>1, <1>7, <2>7, Stored DEF Defines, Pushes
<1>8. \A b \in Blocks(f) : Defines(b, v) => \A e \in Frontier(f, b) : HasPhi(v, e)
  BY <1>1 DEF IInv, PlaceOK, PhisPlaced
<1> QED BY <1>1, <1>6, <1>7, <1>8, ReachedHasDef

----
\* What else IsFunction says: an instruction is in one place.
LEMMA Places ==
  ASSUME f \in Functions
  PROVE  /\ \A b, c \in Block : \A x : x \in Range(f.code[b]) /\ x \in Range(f.code[c]) => b = c
         /\ \A x \in InstrsIn(f) : IsAlloca(x) => f.operands[x] = << >>
         /\ \A x \in InstrsIn(f) : \E b \in Blocks(f) : x \in Range(f.code[b])
         /\ \A b \in Block : Range(f.code[b]) \subseteq InstrsIn(f)
         /\ \A v \in ValuesIn(f) : ~IsPhi(v)
         /\ InstrsIn(f) \subseteq ValuesIn(f)
<1>1. /\ \A b, c \in Block : b # c => Range(f.code[b]) \cap Range(f.code[c]) = {}
      /\ \A x \in InstrsIn(f) : IsAlloca(x) => f.operands[x] = << >>
      /\ \A v \in ValuesIn(f) : ~IsPhi(v)
  <2>1. IsFunction(f) BY FunctionsAssumption
  <2>2. \A b, c \in Block : b # c => Range(f.code[b]) \cap Range(f.code[c]) = {}
    BY <2>1, Zenon DEF IsFunction
  <2> QED BY <2>2, Kinds DEF IsPhi
<1>2. \A b \in Block \ Blocks(f) : Range(f.code[b]) = {} BY Code DEF Range
<1>3. \A x \in InstrsIn(f) : \E b \in Blocks(f) : x \in Range(f.code[b]) BY <1>2 DEF InstrsIn
<1>4. \A b \in Block : Range(f.code[b]) \subseteq InstrsIn(f) BY DEF InstrsIn
<1>5. InstrsIn(f) \subseteq ValuesIn(f) BY DEF ValuesIn
<1> QED BY <1>1, <1>3, <1>4, <1>5

\* An instruction is read behind its place, or below its block.
LEMMA ReadBehind ==
  ASSUME f \in Functions, NEW b \in Block, NEW x \in Range(f.code[b]),
         NEW v \in InstrsIn(f), v \in Range(f.operands[x])
  PROVE  \/ \E i, j \in DOMAIN f.code[b] : i < j /\ f.code[b][i] = v /\ f.code[b][j] = x
         \/ \E c \in Blocks(f) : c # b /\ v \in Range(f.code[c]) /\ Dominates(f, c, b)
<1> DEFINE at(y) == CHOOSE c \in Block : y \in Range(f.code[c])
           pos(y) == CHOOSE j \in DOMAIN f.code[at(y)] : f.code[at(y)][j] = y
           before(y, z) == IF at(y) = at(z) THEN pos(y) < pos(z) ELSE Dominates(f, at(y), at(z))
<1>1. x \in InstrsIn(f) BY Places
<1>2. before(v, x)
  <2>1. IsFunction(f) BY FunctionsAssumption
  <2>2. \A y \in InstrsIn(f) : \A w \in Range(f.operands[y]) \cap InstrsIn(f) : before(w, y)
    BY <2>1, Zenon DEF IsFunction
  <2> HIDE DEF before
  <2> QED BY <1>1, <2>2
<1>3. ASSUME NEW y \in InstrsIn(f)
      PROVE  /\ at(y) \in Block /\ y \in Range(f.code[at(y)])
             /\ pos(y) \in DOMAIN f.code[at(y)] /\ f.code[at(y)][pos(y)] = y
  <2>1. \E c \in Block : y \in Range(f.code[c]) BY DEF InstrsIn
  <2>2. at(y) \in Block /\ y \in Range(f.code[at(y)]) BY <2>1, Zenon
  <2> HIDE DEF at
  <2>3. \E j \in DOMAIN f.code[at(y)] : f.code[at(y)][j] = y BY <2>2 DEF Range
  <2>4. pos(y) \in DOMAIN f.code[at(y)] /\ f.code[at(y)][pos(y)] = y BY <2>3, Zenon
  <2> QED BY <2>2, <2>4
<1> HIDE DEF at, pos
<1>4. at(x) = b BY <1>1, <1>3, Places
<1>5. CASE at(v) = b BY <1>1, <1>2, <1>3, <1>4, <1>5
<1>6. CASE at(v) # b
  <2>1. at(v) \in Blocks(f) BY <1>3, Code DEF Range
  <2> QED BY <1>2, <1>3, <1>4, <1>6, <2>1
<1> QED BY <1>5, <1>6

LEMMA SettledKept ==
  ASSUME f' = f, \A x \in InstrsIn(f) : Ahead(x)' => Ahead(x),
         \A x \in Renamed' : x \in Renamed \/ Ahead(x)
  PROVE  \A v : Settled(v) => Settled(v)'
<1>1. InstrsIn(f)' = InstrsIn(f) OBVIOUS
<1> SUFFICES ASSUME NEW v, Settled(v), v \in InstrsIn(f), IsLoad(v) PROVE ~Ahead(v)' /\ v \notin Renamed'
  BY <1>1, Zenon DEF Settled
<1>2. ~Ahead(v) /\ v \notin Renamed BY Zenon DEF Settled
<1> QED BY <1>2

LEMMA NotRenamed ==
  ASSUME NEW v, Settled(v)
  PROVE  v \notin Renamed
BY DEF Settled, Renamed

LEMMA OrderKept ==
  ASSUME f' = f, NEW b, ir'.code[b] = ir.code[b]
  PROVE  Ordered(b)' <=> Ordered(b)
BY SMT DEF Ordered

\* What the walk does within a block deletes nothing and goes on.
LEMMA Onwards ==
  ASSUME IInv, CodeOK, UNCHANGED f, ir'.code = ir.code, calls # << >>, pc # "place", pc' # "place",
         DOMAIN ir'.operands = DOMAIN ir.operands, DOMAIN ir'.use_list = DOMAIN ir.use_list,
         calls' = calls \/ \E x \in InstrsIn(f) : WaitDelete(x),
         pc' # "enter", pc' = "instr" => pc = "enter" \/ (pc = "instr" /\ line' >= line /\ line' \in Nat)
  PROVE  /\ CodeOK' /\ bb_' = bb_ /\ Instrs' = Instrs
         /\ \A n : Below(n)' = Below(n)
         /\ \A x \in InstrsIn(f) : Ahead(x)' => Ahead(x)
<1>1. f \in Functions /\ CallsOK /\ StacksOK BY DEF IInv
<1>2. /\ DOMAIN calls' = DOMAIN calls /\ bb_' = bb_
      /\ \A k \in DOMAIN calls : calls'[k].bb = calls[k].bb /\ calls'[k].left = calls[k].left
  BY <1>1, Marked
<1>3. \A n : Below(n)' = Below(n) BY <1>2 DEF Below
<1>4. \A b : Open(b)' = Open(b) BY <1>2, <1>3 DEF Open
<1>5. \A b : Ordered(b)' <=> Ordered(b) BY OrderKept
<1>6. CodeOK'
  <2>1. ValuesIn(f)' = ValuesIn(f) OBVIOUS
  <2>2. \A b \in Block : ir.code[b] \in Seq(DOMAIN ir'.operands) BY DEF CodeOK
  <2> QED BY <1>4, <1>5, <2>1, <2>2 DEF CodeOK
<1>7. Instrs' = Instrs BY DEF Instrs
<1>8. ASSUME NEW x \in InstrsIn(f), Ahead(x)' PROVE Ahead(x)
  <2>1. CASE \E n \in Blocks(f) : Below(n) /\ x \in Range(f.code[n]) BY <2>1 DEF Ahead
  <2>2. CASE pc' = "instr" /\ \E j \in DOMAIN ir.code[bb_] : j > line' /\ ir.code[bb_][j] = x
    <3>1. CASE pc = "instr"
      <4>1. line \in Nat /\ line' >= line /\ line' \in Nat BY <3>1, <2>2, <1>1 DEF StacksOK
      <4>2. ir.code[bb_] \in Seq(DOMAIN ir.operands) BY AtBlock
      <4>3. PICK j \in DOMAIN ir.code[bb_] : j > line' /\ ir.code[bb_][j] = x BY <2>2
      <4>4. j \in Nat /\ j > line BY <4>1, <4>2, <4>3
      <4> QED BY <3>1, <4>3, <4>4 DEF Ahead
    <3>2. CASE pc = "enter"
      <4>1. x \in Range(ir.code[bb_]) /\ ~IsPhi(x) BY <1>1, <2>2, Code DEF Range
      <4>2. x \in Range(f.code[bb_]) BY <4>1, AtBlock
      <4> QED BY <3>2, <4>2 DEF Ahead
    <3> QED BY <2>2, <3>1, <3>2
  <2> QED BY <1>2, <1>3, <1>8, <2>1, <2>2 DEF Ahead
<1> QED BY <1>2, <1>3, <1>6, <1>7, <1>8

LEMMA MarkedWaits ==
  ASSUME CallsOK, calls # << >>, NEW x, WaitDelete(x)
  PROVE  /\ DOMAIN calls' = DOMAIN calls
         /\ \A k \in DOMAIN calls : \A y : y \in calls'[k].wait_delete <=>
              y \in calls[k].wait_delete \/ (k = Len(calls) /\ y = x)
         /\ Waiting' = Waiting \cup {x}
<1> DEFINE S == [bb : Blocks(f), wait_delete : SUBSET InstrsIn(f), left : SUBSET Blocks(f)]
<1>1. calls \in Seq(S) BY DEF CallsOK
<1>2. Len(calls) \in DOMAIN calls BY <1>1
<1>3. \A k \in DOMAIN calls : calls[k] \in S
  <2> HIDE DEF S
  <2> QED BY <1>1
<1>4. /\ DOMAIN calls' = DOMAIN calls
      /\ \A k \in DOMAIN calls :
           calls'[k] = IF k = Len(calls)
                       THEN [calls[k] EXCEPT !.wait_delete = calls[k].wait_delete \cup {x}]
                       ELSE calls[k]
  BY <1>2 DEF WaitDelete
<1>5. ASSUME NEW k \in DOMAIN calls
      PROVE  calls'[k].wait_delete = IF k = Len(calls) THEN calls[k].wait_delete \cup {x}
                                     ELSE calls[k].wait_delete
  <2>1. PICK b \in Blocks(f), w \in SUBSET InstrsIn(f), l \in SUBSET Blocks(f) :
          calls[k] = [bb |-> b, wait_delete |-> w, left |-> l]
    BY <1>3
  <2> QED BY <1>4, <2>1
<1>6. \A k \in DOMAIN calls : \A y : y \in calls'[k].wait_delete <=>
              y \in calls[k].wait_delete \/ (k = Len(calls) /\ y = x)
  BY <1>5
<1>7. Waiting' = Waiting \cup {x}
  <2>1. \A y : y \in Waiting <=> \E k \in DOMAIN calls : y \in calls[k].wait_delete BY DEF Waiting
  <2>2. \A y : y \in Waiting' <=> \E k \in DOMAIN calls : y \in calls'[k].wait_delete
    BY <1>4 DEF Waiting
  <2> QED BY <1>2, <1>6, <2>1, <2>2
<1> QED BY <1>4, <1>6, <1>7

\* An instruction that is noted for deletion has just been dealt with.
LEMMA MarkedLists ==
  ASSUME IInv, CodeOK, WaitOK, UNCHANGED f, ir'.code = ir.code,
         DOMAIN ir'.operands = DOMAIN ir.operands, DOMAIN ir'.use_list = DOMAIN ir.use_list,
         pc = "instr", pc' = "instr", line < Len(ir.code[bb_]), line' = line + 1,
         NEW x, x = instr, ~IsPhi(x), WaitDelete(x)
  PROVE  /\ CodeOK' /\ WaitOK' /\ Instrs' = Instrs
         /\ \A y : y \in Renamed' <=> y \in Renamed \/ (y = x /\ IsLoad(x))
         /\ x \in Instrs /\ x \in InstrsIn(f) /\ x \notin Waiting
         /\ \A v : Settled(v) => v # x \/ ~IsLoad(x)
         /\ \A v : Settled(v) => Settled(v)'
<1>1. /\ calls # << >> /\ CallsOK /\ f \in Functions /\ line \in Nat
      /\ x \in Range(ir.code[bb_]) /\ x \in InstrsIn(f) /\ x \in Range(f.code[bb_])
      /\ bb_ \in Block /\ bb_ \in Blocks(f) /\ bb_ = calls[Len(calls)].bb
      /\ ir.code[bb_] \in Seq(DOMAIN ir.operands) /\ IsInjective(ir.code[bb_])
      /\ line + 1 \in DOMAIN ir.code[bb_] /\ ir.code[bb_][line + 1] = x
  BY AtInstrOfBlock, AtBlock DEF IInv, bb_, this, instr
<1>2. /\ CodeOK' /\ bb_' = bb_ /\ Instrs' = Instrs
      /\ \A n : Below(n)' = Below(n)
      /\ \A y \in InstrsIn(f) : Ahead(y)' => Ahead(y)
  <2>1. line' >= line /\ line' \in Nat BY <1>1
  <2> QED BY <1>1, <2>1, Onwards
<1>3. Ahead(x) BY <1>1 DEF Ahead
<1>4. ~Ahead(x)'
  <2>1. ASSUME NEW n \in Blocks(f), Below(n), x \in Range(f.code[n]) PROVE FALSE
    <3>1. n = bb_ BY <1>1, <2>1, Code, Places
    <3>2. Dominates(f, bb_, bb_) BY <1>1, Code, DominatesReflexive
    <3> QED BY <1>1, <2>1, <3>1, <3>2, NotBelow
  <2>2. ASSUME NEW j \in DOMAIN ir.code[bb_], j > line + 1, ir.code[bb_][j] = x PROVE FALSE
    <3>1. j = line + 1 BY <1>1, <2>2 DEF IsInjective
    <3> QED BY <1>1, <2>2, <3>1
  <2> QED BY <1>2, <2>1, <2>2 DEF Ahead
<1>5. /\ DOMAIN calls' = DOMAIN calls
      /\ \A k \in DOMAIN calls : \A y : y \in calls'[k].wait_delete <=>
           y \in calls[k].wait_delete \/ (k = Len(calls) /\ y = x)
      /\ Waiting' = Waiting \cup {x}
  BY <1>1, MarkedWaits
<1>6. \A k \in DOMAIN calls : calls'[k].bb = calls[k].bb BY <1>1, Marked
<1>7. WaitOK'
  <2> SUFFICES ASSUME NEW k \in DOMAIN calls, NEW y \in calls'[k].wait_delete
               PROVE  y \in Range(ir.code[calls[k].bb]) /\ ~Ahead(y)'
    BY <1>5, <1>6 DEF WaitOK
  <2>1. CASE y \in calls[k].wait_delete
    <3>1. y \in Range(ir.code[calls[k].bb]) /\ ~Ahead(y) BY <2>1 DEF WaitOK
    <3>2. y \in InstrsIn(f)
      <4> DEFINE S == [bb : Blocks(f), wait_delete : SUBSET InstrsIn(f), left : SUBSET Blocks(f)]
      <4>1. calls \in Seq(S) BY <1>1 DEF CallsOK
      <4> HIDE DEF S
      <4>2. calls[k] \in S BY <4>1
      <4> QED BY <2>1, <4>2 DEF S
    <3> QED BY <1>2, <3>1, <3>2
  <2>2. CASE k = Len(calls) /\ y = x BY <1>1, <1>4, <2>2
  <2> QED BY <1>5, <2>1, <2>2
<1>8. x \in Instrs BY <1>1 DEF Instrs
<1>9. \A y : y \in Renamed' <=> y \in Renamed \/ (y = x /\ IsLoad(x))
  BY <1>1, <1>2, <1>5 DEF Renamed
<1>10. x \notin Waiting BY <1>3 DEF WaitOK, Waiting
<1>11. \A v : Settled(v) => Settled(v)' BY <1>2, <1>3, <1>9, SettledKept
<1>12. \A v : Settled(v) => v # x \/ ~IsLoad(x) BY <1>1, <1>3 DEF Settled
<1> QED BY <1>1, <1>2, <1>3, <1>7, <1>8, <1>9, <1>10, <1>11, <1>12

\* Where no operand changes, what is said of them stays true.
LEMMA OperandsKept ==
  ASSUME f' = f, ir'.operands = ir.operands, \A v : Settled(v) => Settled(v)', OperandsOK
  PROVE  OperandsOK'
<1> SUFFICES ASSUME NEW x \in InstrsIn(f)
             PROVE  /\ DOMAIN ir.operands[x] = DOMAIN f.operands[x]
                    /\ \A j \in DOMAIN f.operands[x] :
                         ir.operands[x][j] = f.operands[x][j] \/ Settled(ir.operands[x][j])'
  BY Zenon DEF OperandsOK
<1>1. /\ DOMAIN ir.operands[x] = DOMAIN f.operands[x]
      /\ \A j \in DOMAIN f.operands[x] :
           ir.operands[x][j] = f.operands[x][j] \/ Settled(ir.operands[x][j])
  BY Zenon DEF OperandsOK
<1>2. ASSUME NEW j \in DOMAIN f.operands[x], NEW v, v = ir.operands[x][j], Settled(v)
      PROVE  Settled(ir.operands[x][j])'
  <2>1. Settled(v)' BY <1>2
  <2>2. v = ir'.operands[x][j] BY <1>2
  <2> QED BY <2>1, <2>2, Zenon
<1> QED BY <1>1, <1>2, Zenon

LEMMA ReadsKept ==
  ASSUME f' = f, ir' = ir, Renamed' = Renamed, \A v : Settled(v) => Settled(v)',
         UsesOK, ReadsOK, OperandsOK
  PROVE  UsesOK' /\ ReadsOK' /\ OperandsOK'
<1>1. Instrs' = Instrs BY DEF Instrs
<1>2. UsesOK' BY <1>1, Zenon DEF UsesOK
<1>3. ReadsOK' BY <1>1, Zenon DEF ReadsOK
<1>4. OperandsOK' BY OperandsKept
<1> QED BY <1>2, <1>3, <1>4

LEMMA StackedKept ==
  ASSUME StackedOK, var_val_stack' = var_val_stack, \A v : Settled(v) => Settled(v)'
  PROVE  StackedOK'
<1> SUFFICES ASSUME NEW v \in Known, NEW j \in DOMAIN var_val_stack[v] PROVE Settled(var_val_stack[v][j])'
  BY DEF StackedOK, Known
<1>1. PICK u : u = var_val_stack[v][j] OBVIOUS
<1>2. Settled(u)' BY <1>1 DEF StackedOK
<1>3. u = var_val_stack'[v][j] BY <1>1
<1> QED BY <1>2, <1>3, Zenon

LEMMA ListsUntouched ==
  ASSUME ListsOK, UNCHANGED <<f, ir, pc, var_val_stack, calls, line>>
  PROVE  ListsOK'
<1>1. /\ \A n : Below(n)' = Below(n)
      /\ bb_' = bb_ /\ Waiting' = Waiting /\ Instrs' = Instrs
  BY DEF Below, bb_, this, Waiting, Instrs
<1>2. /\ \A x : Ahead(x)' = Ahead(x)
      /\ Renamed' = Renamed
      /\ \A b : (Ordered(b)' <=> Ordered(b)) /\ Open(b)' = Open(b)
  <2>1. \A x : Ahead(x)' = Ahead(x) BY <1>1, Zenon DEF Ahead
  <2>2. Renamed' = Renamed BY <1>1, Zenon DEF Renamed
  <2>3. \A b : Ordered(b)' <=> Ordered(b) BY OrderKept
  <2>4. \A b : Open(b)' = Open(b) BY <1>1, Zenon DEF Open
  <2> QED BY <2>1, <2>2, <2>3, <2>4, Zenon
<1>3. \A v : Settled(v) => Settled(v)' BY <1>2, SettledKept
<1>4. UsesOK' /\ ReadsOK' /\ OperandsOK' /\ StackedOK'
  BY <1>2, <1>3, ReadsKept, StackedKept, Zenon DEF ListsOK
<1>5. CodeOK' BY <1>2, Zenon DEF ListsOK, CodeOK
<1>6. WaitOK' BY <1>2, Zenon DEF ListsOK, WaitOK
<1> QED BY <1>4, <1>5, <1>6 DEF ListsOK

LEMMA InitLists == InitPass => ListsOK
<1> SUFFICES ASSUME InitPass PROVE ListsOK
  OBVIOUS
<1>1. /\ f \in Functions /\ pc = "place" /\ calls = << >> /\ var_val_stack = << >>
      /\ ir = [code |-> f.code, operands |-> f.operands,
               use_list |-> [v \in ValuesIn(f) \cup Block |-> Users(f, v)]]
  BY DEF InitPass
<1>2. ir.code = f.code /\ ir.operands = f.operands
      /\ ir.use_list = [v \in ValuesIn(f) \cup Block |-> Users(f, v)]
  BY <1>1
<1>3. Instrs = InstrsIn(f) /\ Waiting = {} /\ Renamed = {}
  BY <1>1, <1>2 DEF Instrs, InstrsIn, Waiting, Renamed
<1>4. CodeOK
  <2>1. /\ f.code \in [Block -> Seq(InstrsIn(f))] /\ DOMAIN f.operands = InstrsIn(f)
        /\ InstrsIn(f) \subseteq ValuesIn(f) /\ \A b \in Block : IsInjective(f.code[b])
    BY <1>1, Code, Places
  <2>2. ASSUME NEW b \in Block PROVE Ordered(b)
    <3> DEFINE s == f.code[b]
    <3>1. s \in Seq(InstrsIn(f)) /\ IsInjective(s) /\ ir.code[b] = s BY <1>2, <2>1
    <3> HIDE DEF s
    <3>2. \A i, j, m, n \in DOMAIN s : i < j /\ s[i] = s[m] /\ s[j] = s[n] => m < n
      BY <3>1 DEF IsInjective
    <3> QED BY <3>1, <3>2 DEF Ordered, s
  <2> QED BY <1>2, <2>1, <2>2 DEF CodeOK
<1>5. WaitOK BY <1>1 DEF WaitOK
<1>6. UsesOK
  <2> SUFFICES ASSUME NEW v \in DOMAIN ir.use_list
               PROVE  ir.use_list[v] = UNION {UsesIn(x, ir.operands[x], v) : x \in InstrsIn(f)}
    BY <1>3, Zenon DEF UsesOK, Exact
  <2>1. ir.use_list[v] = Users(f, v) BY <1>2
  <2> QED BY <1>2, <2>1, Zenon DEF Users
<1>7. ReadsOK /\ OperandsOK BY <1>2, <1>3 DEF ReadsOK, OperandsOK
<1>8. StackedOK BY <1>1 DEF StackedOK, Known
<1> QED BY <1>4, <1>5, <1>6, <1>7, <1>8 DEF ListsOK

LEMMA StartRenameLists ==
  ASSUME IInv, ListsOK, StartRename
  PROVE  ListsOK'
<1>1. /\ pc = "place" /\ pc' = "enter" /\ UNCHANGED <<f, ir, var_val_stack>>
      /\ calls' = <<Call(root)>> /\ calls = << >> /\ var_val_stack = << >>
  BY Zenon DEF StartRename, IInv, PlaceOK
<1>2. DOMAIN calls' = {1} /\ calls'[1].wait_delete = {} BY <1>1 DEF Call
<1>3. Waiting' = {} /\ Waiting = {} /\ Instrs' = Instrs BY <1>1, <1>2 DEF Waiting, Instrs
<1>4. Renamed' = Renamed BY <1>1, <1>3 DEF Renamed
<1>5. \A v : Settled(v) => Settled(v)'
  <2>1. \A x : Ahead(x) BY <1>1 DEF Ahead
  <2> QED BY <1>1, <1>4, <2>1, SettledKept
<1>6. UsesOK' /\ ReadsOK' /\ OperandsOK' /\ StackedOK'
  BY <1>1, <1>4, <1>5, ReadsKept, StackedKept DEF ListsOK
<1>7. CodeOK'
  <2>1. \A b \in Block : Ordered(b)' BY <1>1 DEF ListsOK, CodeOK, Open, Ordered
  <2> QED BY <1>1, <2>1 DEF ListsOK, CodeOK
<1>8. WaitOK' BY <1>2 DEF WaitOK
<1> QED BY <1>6, <1>7, <1>8 DEF ListsOK

LEMMA WaitTyped ==
  ASSUME CallsOK, NEW k \in DOMAIN calls
  PROVE  /\ \A x \in calls[k].wait_delete : x \in InstrsIn(f)
         /\ calls[k].bb \in Blocks(f) /\ calls[k].left \subseteq Blocks(f)
<1> DEFINE S == [bb : Blocks(f), wait_delete : SUBSET InstrsIn(f), left : SUBSET Blocks(f)]
<1>1. calls \in Seq(S) BY DEF CallsOK
<1> HIDE DEF S
<1>2. calls[k] \in S BY <1>1
<1> QED BY <1>2 DEF S

\* What the walk does within a block without changing an operand.
LEMMA WalkedLists ==
  ASSUME IInv, ListsOK, UNCHANGED <<f, ir, calls>>, calls # << >>, pc # "place", pc' # "place",
         pc' # "enter", pc' = "instr" => pc = "enter" \/ (pc = "instr" /\ line' >= line /\ line' \in Nat)
  PROVE  /\ CodeOK' /\ WaitOK' /\ UsesOK' /\ ReadsOK' /\ OperandsOK'
         /\ \A v : Settled(v) => Settled(v)'
         /\ bb_' = bb_
<1>1. /\ CodeOK' /\ bb_' = bb_ /\ Instrs' = Instrs
      /\ \A n : Below(n)' = Below(n)
      /\ \A x \in InstrsIn(f) : Ahead(x)' => Ahead(x)
  BY Onwards DEF ListsOK
<1>2. Waiting' = Waiting BY DEF Waiting
<1>3. Renamed' = Renamed BY <1>1, <1>2 DEF Renamed
<1>4. \A v : Settled(v) => Settled(v)' BY <1>1, <1>3, SettledKept
<1>5. UsesOK' /\ ReadsOK' /\ OperandsOK' BY <1>3, <1>4, ReadsKept DEF ListsOK
<1>6. WaitOK' BY <1>1, WaitTyped DEF IInv, ListsOK, WaitOK
<1> QED BY <1>1, <1>4, <1>5, <1>6

LEMMA StackedIs ==
  ASSUME \A v \in Known' : \A j \in DOMAIN var_val_stack'[v] : \E u : u = var_val_stack'[v][j] /\ Settled(u)'
  PROVE  StackedOK'
<1> SUFFICES ASSUME NEW v \in Known', NEW j \in DOMAIN var_val_stack'[v] PROVE Settled(var_val_stack[v][j])'
  BY Zenon DEF StackedOK
<1>1. PICK u : u = var_val_stack'[v][j] /\ Settled(u)' OBVIOUS
<1> QED BY <1>1, Zenon

\* What a stack holds stays settled, and so is what is pushed on it.
LEMMA Pushed ==
  ASSUME StacksOK, StackedOK, \A v : Settled(v) => Settled(v)', NEW v,
         \/ v \in Known /\ var_val_stack'[v] = var_val_stack[v]
         \/ \E x : var_val_stack'[v] = Append(StackOf(v), x) /\ Settled(x)'
  PROVE  \A j \in DOMAIN var_val_stack'[v] : \E u : u = var_val_stack'[v][j] /\ Settled(u)'
<1> SUFFICES ASSUME NEW j \in DOMAIN var_val_stack'[v] PROVE \E u : u = var_val_stack'[v][j] /\ Settled(u)'
  OBVIOUS
<1>1. ASSUME v \in Known, NEW i \in DOMAIN var_val_stack[v]
      PROVE  \E u : u = var_val_stack[v][i] /\ Settled(u)'
  <2>1. PICK u : u = var_val_stack[v][i] OBVIOUS
  <2>2. Settled(u) BY <1>1, <2>1 DEF StackedOK
  <2> QED BY <2>1, <2>2
<1>2. CASE v \in Known /\ var_val_stack'[v] = var_val_stack[v] BY <1>1, <1>2
<1>3. ASSUME NEW x, var_val_stack'[v] = Append(StackOf(v), x), Settled(x)'
      PROVE  \E u : u = var_val_stack'[v][j] /\ Settled(u)'
  <2> DEFINE s == StackOf(v)
             D == DOMAIN ir.use_list
  <2>1. s \in Seq(D) BY StackTyped
  <2>2. v \in Known \/ s = << >> BY DEF StackOf
  <2>3. v \in Known => s = var_val_stack[v] BY DEF StackOf
  <2> HIDE DEF s, D
  <2>4. var_val_stack'[v] = Append(s, x) BY <1>3 DEF s
  <2>5. Len(s) \in Nat /\ DOMAIN s = 1..Len(s) /\ DOMAIN Append(s, x) = 1..(Len(s) + 1)
        /\ Append(s, x)[Len(s) + 1] = x /\ \A i \in 1..Len(s) : Append(s, x)[i] = s[i]
    BY <2>1
  <2>6. CASE j = Len(s) + 1 BY <1>3, <2>4, <2>5, <2>6
  <2>7. CASE j \in 1..Len(s)
    <3>1. v \in Known /\ j \in DOMAIN var_val_stack[v] /\ var_val_stack'[v][j] = var_val_stack[v][j]
      BY <2>2, <2>3, <2>4, <2>5, <2>7
    <3> QED BY <1>1, <3>1
  <2> QED BY <2>4, <2>5, <2>6, <2>7
<1> QED BY <1>2, <1>3

LEMMA PushPhisLists ==
  ASSUME IInv, ListsOK, PushPhis
  PROVE  ListsOK'
<1> DEFINE names == {Lval(p, << >>) : p \in PhisIn(bb_)}
<1>1. /\ pc = "enter" /\ pc' = "instr" /\ UNCHANGED <<f, ir, calls>>
      /\ var_val_stack' = [v \in Known \cup names |->
           IF v \in names THEN Append(StackOf(v), PhiOf(v, bb_)) ELSE var_val_stack[v]]
  BY Zenon DEF PushPhis
<1> HIDE DEF names
<1>2. calls # << >> /\ f \in Functions /\ StacksOK BY <1>1 DEF IInv, CallsOK
<1>3. /\ CodeOK' /\ WaitOK' /\ UsesOK' /\ ReadsOK' /\ OperandsOK' /\ StackedOK
      /\ \A v : Settled(v) => Settled(v)'
  <2>1. /\ pc # "place" /\ pc' # "place" /\ pc' # "enter"
        /\ pc' = "instr" => pc = "enter" \/ (pc = "instr" /\ line' >= line /\ line' \in Nat)
    BY <1>1
  <2>2. /\ CodeOK' /\ WaitOK' /\ UsesOK' /\ ReadsOK' /\ OperandsOK'
        /\ \A v : Settled(v) => Settled(v)'
    BY <1>1, <1>2, <2>1, WalkedLists
  <2> QED BY <2>2 DEF ListsOK
<1>5. ASSUME NEW v \in Known'
      PROVE  \A j \in DOMAIN var_val_stack'[v] : \E u : u = var_val_stack'[v][j] /\ Settled(u)'
  <2>1. v \in Known \cup names BY <1>1 DEF Known
  <2>2. CASE v \in names
    <3>1. PICK x : x = PhiOf(v, bb_) OBVIOUS
    <3>2. Settled(x)'
      <4>1. ~IsLoad(x) BY <3>1, Phis
      <4> QED BY <4>1 DEF Settled
    <3>3. var_val_stack'[v] = Append(StackOf(v), x) BY <1>1, <2>1, <2>2, <3>1
    <3> QED BY <1>2, <1>3, <3>2, <3>3, Pushed
  <2>3. CASE v \notin names
    <3>1. v \in Known /\ var_val_stack'[v] = var_val_stack[v] BY <1>1, <2>1, <2>3
    <3> QED BY <1>2, <1>3, <3>1, Pushed
  <2> QED BY <2>2, <2>3
<1>6. StackedOK' BY <1>5, StackedIs
<1> QED BY <1>3, <1>6 DEF ListsOK

LEMMA SkipInstrLists ==
  ASSUME IInv, ListsOK, SkipInstr
  PROVE  ListsOK'
<1>1. /\ pc = "instr" /\ pc' = "instr" /\ line < Len(ir.code[bb_]) /\ line' = line + 1
      /\ UNCHANGED <<f, ir, var_val_stack, calls>>
  BY DEF SkipInstr, AtInstr
<1>2. calls # << >> /\ line' \in Nat /\ line' >= line BY <1>1, AtInstrOfBlock
<1>3. /\ CodeOK' /\ WaitOK' /\ UsesOK' /\ ReadsOK' /\ OperandsOK'
      /\ \A v : Settled(v) => Settled(v)'
  BY <1>1, <1>2, WalkedLists
<1>4. StackedOK' BY <1>1, <1>3, StackedKept DEF ListsOK
<1> QED BY <1>3, <1>4 DEF ListsOK

LEMMA NewestIsSettled ==
  ASSUME StacksOK, StackedOK, NEW v \in Known, var_val_stack[v] # << >>
  PROVE  Settled(Newest(v)) /\ Newest(v) \in DOMAIN ir.use_list
<1> DEFINE D == DOMAIN ir.use_list
           s == var_val_stack[v]
<1>1. s \in Seq(D) /\ s # << >> /\ Newest(v) = s[Len(s)] BY DEF StacksOK, Newest, Last
<1> HIDE DEF D, s
<1>2. Len(s) \in DOMAIN s /\ s[Len(s)] \in D BY <1>1
<1>3. Settled(s[Len(s)]) BY <1>2 DEF StackedOK, s
<1> QED BY <1>1, <1>2, <1>3 DEF D

\* A load that is replaced is read no more, and its readers are those of its value.
LEMMA RenameLoadLists ==
  ASSUME IInv, ListsOK, RenameLoad
  PROVE  ListsOK'
<1>1. /\ pc = "instr" /\ pc' = "instr" /\ line < Len(ir.code[bb_]) /\ line' = line + 1
      /\ UNCHANGED <<f, var_val_stack>>
      /\ IsLoad(instr) /\ lval \in Known /\ var_val_stack[lval] # << >>
      /\ ir' = ReplaceAllUseWith(ir, instr, Newest(lval)) /\ WaitDelete(instr)
  BY DEF RenameLoad, AtInstr
<1>2. PICK x, value : x = instr /\ value = Newest(lval) OBVIOUS
<1>3. ir' = ReplaceAllUseWith(ir, x, value) /\ IsLoad(x) /\ ~IsPhi(x) /\ WaitDelete(x)
  BY <1>1, <1>2 DEF IsLoad, IsPhi
<1>4. IsData(ir) /\ IrOK /\ StacksOK /\ CodeOK /\ WaitOK /\ UsesOK /\ ReadsOK /\ OperandsOK /\ StackedOK
  BY DEF IInv, IrOK, ListsOK, IsData
<1>5. /\ ir'.code = ir.code
      /\ DOMAIN ir'.operands = DOMAIN ir.operands /\ DOMAIN ir'.use_list = DOMAIN ir.use_list
      /\ \A y \in DOMAIN ir.operands : DOMAIN ir'.operands[y] = DOMAIN ir.operands[y]
      /\ \A y \in DOMAIN ir.operands : \A i \in DOMAIN ir.operands[y] :
           /\ <<y, i>> \in ir.use_list[x] => ir'.operands[y][i] = value
           /\ <<y, i>> \notin ir.use_list[x] => ir'.operands[y][i] = ir.operands[y][i]
  BY <1>3, <1>4, Replaced
<1>6. /\ CodeOK' /\ WaitOK' /\ Instrs' = Instrs
      /\ \A y : y \in Renamed' <=> y \in Renamed \/ (y = x /\ IsLoad(x))
      /\ x \in Instrs /\ x \in InstrsIn(f) /\ x \notin Waiting
      /\ \A v : Settled(v) => v # x \/ ~IsLoad(x)
      /\ \A v : Settled(v) => Settled(v)'
  BY <1>1, <1>2, <1>3, <1>4, <1>5, MarkedLists
<1>7. Settled(value) BY <1>1, <1>2, <1>4, NewestIsSettled
<1>8. value # x /\ value \notin Renamed /\ x \notin Renamed /\ Settled(value)'
  <2>1. value # x /\ Settled(value)' BY <1>3, <1>6, <1>7
  <2>2. value \notin Renamed BY <1>7, NotRenamed
  <2>3. x \notin Renamed BY <1>6 DEF Renamed
  <2> QED BY <2>1, <2>2, <2>3
<1>9. Instrs \subseteq DOMAIN ir.operands /\ x \in DOMAIN ir.use_list
  <2>1. \A b \in Block : Range(ir.code[b]) \subseteq DOMAIN ir.operands
    <3> TAKE b \in Block
    <3> DEFINE D == DOMAIN ir.operands
    <3>1. ir.code[b] \in Seq(D) BY <1>4 DEF CodeOK
    <3> HIDE DEF D
    <3>2. Range(ir.code[b]) \subseteq D BY <3>1 DEF Range
    <3> QED BY <3>2 DEF D
  <2> QED BY <1>4, <1>6, <2>1 DEF Instrs, IrOK
<1>10. Exact(ir, Instrs, x) BY <1>4, <1>8, <1>9 DEF UsesOK
<1>11. \A y \in Instrs : \A i \in DOMAIN ir.operands[y] :
         <<y, i>> \in ir.use_list[x] <=> ir.operands[y][i] = x
  <2>1. /\ \A u \in ir.use_list[x] : \E y \in Instrs : \E i \in DOMAIN ir.operands[y] :
             u = <<y, i>> /\ ir.operands[y][i] = x
        /\ \A y \in Instrs : \A i \in DOMAIN ir.operands[y] :
             ir.operands[y][i] = x => <<y, i>> \in ir.use_list[x]
    <3>1. PICK g : g = ir OBVIOUS
    <3>2. Exact(g, Instrs, x) BY <1>10, <3>1
    <3> QED BY <3>1, <3>2, ExactMeans
  <2>2. ASSUME NEW y \in Instrs, NEW i \in DOMAIN ir.operands[y], <<y, i>> \in ir.use_list[x]
        PROVE  ir.operands[y][i] = x
    <3>1. PICK z \in Instrs : \E k \in DOMAIN ir.operands[z] : <<y, i>> = <<z, k>> /\ ir.operands[z][k] = x
      BY <2>1, <2>2
    <3> QED BY <3>1
  <2> QED BY <2>1, <2>2
<1>12. UsesOK'
  <2> SUFFICES ASSUME NEW v \in DOMAIN ir.use_list, v \notin Renamed, v # x PROVE Exact(ir', Instrs, v)
    BY <1>3, <1>5, <1>6, Zenon DEF UsesOK
  <2>1. Exact(ir, Instrs, v) BY <1>4 DEF UsesOK
  <2> QED BY <1>3, <1>4, <1>8, <1>9, <1>10, <2>1, ReplacedExact
<1>13. ReadsOK'
  <2> SUFFICES ASSUME NEW y \in Instrs, NEW j \in DOMAIN ir'.operands[y]
               PROVE  ir'.operands[y][j] \notin Renamed /\ ir'.operands[y][j] # x
    BY <1>3, <1>6 DEF ReadsOK
  <2>1. j \in DOMAIN ir.operands[y] /\ y \in DOMAIN ir.operands BY <1>5, <1>9
  <2>2. ir.operands[y][j] \notin Renamed BY <1>4, <2>1 DEF ReadsOK
  <2> QED BY <1>5, <1>8, <1>11, <2>1, <2>2
<1>14. OperandsOK'
  <2> SUFFICES ASSUME NEW y \in InstrsIn(f)
               PROVE  /\ DOMAIN ir'.operands[y] = DOMAIN f.operands[y]
                      /\ \A j \in DOMAIN f.operands[y] :
                           ir'.operands[y][j] = f.operands[y][j] \/ Settled(ir.operands[y][j])'
    BY <1>1, Zenon DEF OperandsOK
  <2>1. /\ DOMAIN ir.operands[y] = DOMAIN f.operands[y] /\ y \in DOMAIN ir.operands
        /\ \A j \in DOMAIN f.operands[y] :
             ir.operands[y][j] = f.operands[y][j] \/ Settled(ir.operands[y][j])
    BY <1>4 DEF OperandsOK, IrOK
  <2>2. ASSUME NEW j \in DOMAIN f.operands[y], ir'.operands[y][j] # f.operands[y][j]
        PROVE  Settled(ir.operands[y][j])'
    <3>1. PICK v : v = ir'.operands[y][j] OBVIOUS
    <3>2. Settled(v)'
      <4>1. CASE <<y, j>> \in ir.use_list[x] BY <1>5, <1>8, <2>1, <3>1, <4>1
      <4>2. CASE <<y, j>> \notin ir.use_list[x]
        <5>1. v = ir.operands[y][j] BY <1>5, <2>1, <3>1, <4>2
        <5>2. Settled(v) BY <2>1, <2>2, <3>1, <5>1
        <5> QED BY <1>6, <5>2
      <4> QED BY <4>1, <4>2
    <3> QED BY <3>1, <3>2, Zenon
  <2>3. DOMAIN ir'.operands[y] = DOMAIN f.operands[y] BY <1>5, <2>1
  <2> QED BY <2>2, <2>3, Zenon
<1>15. StackedOK' BY <1>1, <1>4, <1>6, StackedKept
<1> QED BY <1>6, <1>12, <1>13, <1>14, <1>15 DEF ListsOK

\* A load of nothing has no reader by then.
LEMMA LoadOfNothingLists ==
  ASSUME IInv, ListsOK, LoadOfNothing
  PROVE  ListsOK'
<1>1. /\ pc = "instr" /\ line < Len(ir.code[bb_]) /\ IsLoad(instr)
      /\ UNCHANGED <<f, ir, var_val_stack>>
      /\ \/ ir.use_list[instr] = {} /\ WaitDelete(instr) /\ line' = line + 1 /\ pc' = pc
         \/ pc' = "abort" /\ UNCHANGED <<calls, line>>
  BY DEF LoadOfNothing, AtInstr
<1>2. calls # << >> BY <1>1, AtInstrOfBlock
<1>3. CASE pc' = "abort" /\ UNCHANGED <<calls, line>>
  <2>1. /\ CodeOK' /\ WaitOK' /\ UsesOK' /\ ReadsOK' /\ OperandsOK'
        /\ \A v : Settled(v) => Settled(v)'
    BY <1>1, <1>2, <1>3, WalkedLists
  <2>2. StackedOK' BY <1>1, <2>1, StackedKept DEF ListsOK
  <2> QED BY <2>1, <2>2 DEF ListsOK
<1>4. CASE ir.use_list[instr] = {} /\ WaitDelete(instr) /\ line' = line + 1 /\ pc' = pc
  <2>1. PICK x : x = instr OBVIOUS
  <2>2. IsLoad(x) /\ ~IsPhi(x) /\ WaitDelete(x) /\ ir.use_list[x] = {}
    BY <1>1, <1>4, <2>1 DEF IsLoad, IsPhi
  <2>3. IrOK /\ CodeOK /\ WaitOK /\ UsesOK /\ ReadsOK /\ OperandsOK /\ StackedOK
    BY DEF IInv, ListsOK
  <2>4. /\ CodeOK' /\ WaitOK' /\ Instrs' = Instrs
        /\ \A y : y \in Renamed' <=> y \in Renamed \/ (y = x /\ IsLoad(x))
        /\ x \in Instrs /\ x \in InstrsIn(f) /\ x \notin Waiting
        /\ \A v : Settled(v) => Settled(v)'
    BY <1>1, <1>4, <2>1, <2>2, <2>3, MarkedLists
  <2>5. Exact(ir, Instrs, x)
    <3>1. x \in DOMAIN ir.use_list BY <2>3, <2>4 DEF IrOK
    <3>2. x \notin Renamed BY <2>4 DEF Renamed
    <3> QED BY <2>3, <3>1, <3>2 DEF UsesOK
  <2>6. \A y \in Instrs : \A j \in DOMAIN ir.operands[y] : ir.operands[y][j] # x
    <3>1. PICK g : g = ir OBVIOUS
    <3>2. Exact(g, Instrs, x) BY <2>5, <3>1
    <3> QED BY <2>2, <3>1, <3>2, ExactMeans
  <2>7. UsesOK'
    <3> SUFFICES ASSUME NEW v \in DOMAIN ir.use_list, v \notin Renamed PROVE Exact(ir, Instrs, v)
      BY <1>1, <2>4, Zenon DEF UsesOK
    <3> QED BY <2>3 DEF UsesOK
  <2>8. ReadsOK' BY <1>1, <2>3, <2>4, <2>6 DEF ReadsOK
  <2>9. OperandsOK' /\ StackedOK' BY <1>1, <2>3, <2>4, OperandsKept, StackedKept
  <2> QED BY <2>4, <2>7, <2>8, <2>9 DEF ListsOK
<1> QED BY <1>1, <1>3, <1>4

\* What is stored has been computed above the store or before it in the block, or is the
\* value of a variable: it is not renamed any more.
LEMMA StoredIsSettled ==
  ASSUME IInv, ListsOK, pc = "instr", line < Len(ir.code[bb_]), IsStore(instr)
  PROVE  Settled(ir.operands[instr][1])
<1>1. PICK x, u : x = instr /\ u = ir.operands[x][1] OBVIOUS
<1>2. /\ f \in Functions /\ IrOK /\ CallsOK /\ calls # << >> /\ line \in Nat
      /\ x \in InstrsIn(f) /\ x \in Range(f.code[bb_]) /\ x \in Range(ir.code[bb_])
      /\ bb_ \in Block /\ bb_ \in Blocks(f) /\ Len(calls) \in DOMAIN calls
      /\ ir.code[bb_] \in Seq(DOMAIN ir.operands) /\ IsInjective(ir.code[bb_])
      /\ line + 1 \in DOMAIN ir.code[bb_] /\ ir.code[bb_][line + 1] = x
  <2>1. ~IsPhi(instr) BY DEF IsStore, IsPhi
  <2> QED BY <1>1, <2>1, AtInstrOfBlock, AtBlock DEF IInv, instr
<1>3. 1 \in DOMAIN ir.operands[x] /\ 1 \in DOMAIN f.operands[x]
  <2>1. Len(ir.operands[x]) = 2 /\ ir.operands[x] \in Seq(DOMAIN ir.use_list) BY <1>1, <1>2 DEF IrOK
  <2>2. DOMAIN ir.operands[x] = DOMAIN f.operands[x] BY <1>2 DEF ListsOK, OperandsOK
  <2> QED BY <2>1, <2>2
<1>4. CASE Settled(u) BY <1>1, <1>4
<1>5. CASE u = f.operands[x][1]
  <2> SUFFICES ASSUME u \in InstrsIn(f), IsLoad(u) PROVE ~Ahead(u) /\ u \notin Renamed
    BY <1>1 DEF Settled
  <2>1. u \notin Renamed
    <3>1. x \in Instrs BY <1>2 DEF Instrs
    <3> QED BY <1>1, <1>3, <3>1 DEF ListsOK, ReadsOK
  <2>2. u \in Range(f.operands[x]) BY <1>3, <1>5 DEF Range
  <2>3. \A d \in Blocks(f) : Dominates(f, d, bb_) => ~Below(d) BY <1>2, NotBelow
  <2>4. \/ \E i, j \in DOMAIN f.code[bb_] : i < j /\ f.code[bb_][i] = u /\ f.code[bb_][j] = x
        \/ \E c \in Blocks(f) : c # bb_ /\ u \in Range(f.code[c]) /\ Dominates(f, c, bb_)
    BY <1>2, <2>2, ReadBehind
  <2>5. PICK c \in Blocks(f) : /\ u \in Range(f.code[c]) /\ Dominates(f, c, bb_)
                               /\ c = bb_ => \E i, j \in DOMAIN f.code[bb_] :
                                    i < j /\ f.code[bb_][i] = u /\ f.code[bb_][j] = x
    BY <1>2, <2>4, Code, DominatesReflexive DEF Range
  <2>6. ASSUME NEW n \in Blocks(f), u \in Range(f.code[n]) PROVE n = c
    <3>1. n \in Block /\ c \in Block BY <1>2, Code
    <3> QED BY <1>2, <2>5, <2>6, <3>1, Places
  <2>7. ASSUME NEW m \in DOMAIN ir.code[bb_], m > line, ir.code[bb_][m] = u PROVE FALSE
    <3>1. u \in Range(ir.code[bb_]) /\ ~IsPhi(u) BY <1>2, <2>7, Code DEF Range
    <3>2. u \in Range(f.code[bb_]) BY <1>2, <3>1, AtBlock
    <3>3. PICK i, j \in DOMAIN f.code[bb_] : i < j /\ f.code[bb_][i] = u /\ f.code[bb_][j] = x
      <4>1. c = bb_ BY <1>2, <2>6, <3>2
      <4> QED BY <2>5, <4>1, Zenon
    <3>4. Ordered(bb_) BY <1>2 DEF ListsOK, CodeOK, Open, bb_, this
    <3>5. m < line + 1 BY <1>2, <2>7, <3>3, <3>4 DEF Ordered
    <3>6. m \in Nat BY <1>2
    <3> QED BY <1>2, <2>7, <3>5, <3>6
  <2>8. ~Ahead(u)
    <3>1. \A n \in Blocks(f) : u \in Range(f.code[n]) => ~Below(n) BY <2>3, <2>5, <2>6
    <3> QED BY <2>7, <3>1 DEF Ahead
  <2> QED BY <2>1, <2>8
<1> QED BY <1>1, <1>2, <1>3, <1>4, <1>5 DEF ListsOK, OperandsOK

LEMMA RenameStoreLists ==
  ASSUME IInv, ListsOK, RenameStore
  PROVE  ListsOK'
<1>1. /\ pc = "instr" /\ pc' = "instr" /\ line < Len(ir.code[bb_]) /\ line' = line + 1
      /\ UNCHANGED <<f, ir>> /\ WaitDelete(instr) /\ IsStore(instr)
      /\ var_val_stack' = [v \in Known \cup {lval} |->
           IF v = lval THEN Append(StackOf(v), ir.operands[instr][1]) ELSE var_val_stack[v]]
  BY DEF RenameStore, AtInstr
<1>2. PICK x, u : x = instr /\ u = ir.operands[x][1] OBVIOUS
<1>3. IsStore(x) /\ ~IsLoad(x) /\ ~IsPhi(x) /\ WaitDelete(x)
  BY <1>1, <1>2 DEF IsStore, IsLoad, IsPhi
<1>4. CodeOK /\ WaitOK /\ UsesOK /\ ReadsOK /\ OperandsOK /\ StackedOK /\ StacksOK
  BY DEF IInv, ListsOK
<1>5. /\ CodeOK' /\ WaitOK'
      /\ \A y : y \in Renamed' <=> y \in Renamed \/ (y = x /\ IsLoad(x))
      /\ \A v : Settled(v) => Settled(v)'
  BY <1>1, <1>2, <1>3, <1>4, MarkedLists
<1>6. Renamed' = Renamed BY <1>3, <1>5
<1>7. UsesOK' /\ ReadsOK' /\ OperandsOK' BY <1>1, <1>4, <1>5, <1>6, ReadsKept
<1>8. Settled(u)' BY <1>1, <1>2, <1>5, StoredIsSettled
<1>9. ASSUME NEW v \in Known'
      PROVE  \A j \in DOMAIN var_val_stack'[v] : \E w : w = var_val_stack'[v][j] /\ Settled(w)'
  <2>1. v \in Known \cup {lval} BY <1>1 DEF Known
  <2>2. CASE v = lval
    <3>1. var_val_stack'[v] = Append(StackOf(v), u) BY <1>1, <1>2, <2>1, <2>2
    <3> QED BY <1>4, <1>5, <1>8, <3>1, Pushed
  <2>3. CASE v # lval
    <3>1. v \in Known /\ var_val_stack'[v] = var_val_stack[v] BY <1>1, <2>1, <2>3
    <3> QED BY <1>4, <1>5, <3>1, Pushed
  <2> QED BY <2>2, <2>3
<1>10. StackedOK' BY <1>9, StackedIs
<1> QED BY <1>5, <1>7, <1>10 DEF ListsOK

LEMMA InstrsTyped ==
  ASSUME CodeOK
  PROVE  Instrs \subseteq DOMAIN ir.operands
<1> DEFINE D == DOMAIN ir.operands
<1>1. \A b \in Block : ir.code[b] \in Seq(D) BY DEF CodeOK
<1> HIDE DEF D
<1>2. \A b \in Block : Range(ir.code[b]) \subseteq D BY <1>1 DEF Range
<1> QED BY <1>2 DEF Instrs, D

\* A phi gets the value of its variable, which is not renamed any more, and a block.
LEMMA FillPhisLists ==
  ASSUME IInv, ListsOK, FillPhis
  PROVE  ListsOK'
<1> DEFINE vs == [p \in ToFill |-> <<Newest(Lval(p, << >>)), bb_>>]
<1>1. /\ pc = "instr" /\ line = Len(ir.code[bb_])
      /\ UNCHANGED <<f, var_val_stack, calls, line>>
      /\ \/ pc' = "abort" /\ UNCHANGED ir
         \/ /\ ~ \E p \in ToFill : var_val_stack[Lval(p, << >>)] = << >>
            /\ ir' = AddOperands(ir, vs) /\ pc' = "children"
  BY DEF FillPhis
<1>2. /\ calls # << >> /\ f \in Functions /\ StacksOK /\ IrOK
      /\ CodeOK /\ WaitOK /\ UsesOK /\ ReadsOK /\ OperandsOK /\ StackedOK
      /\ IsData(ir)
  BY <1>1 DEF IInv, CallsOK, ListsOK, IrOK, IsData
<1>3. CASE pc' = "abort" /\ UNCHANGED ir
  <2>1. /\ CodeOK' /\ WaitOK' /\ UsesOK' /\ ReadsOK' /\ OperandsOK'
        /\ \A v : Settled(v) => Settled(v)'
    BY <1>1, <1>2, <1>3, WalkedLists
  <2>2. StackedOK' BY <1>1, <1>2, <2>1, StackedKept
  <2> QED BY <2>1, <2>2 DEF ListsOK
<1>4. CASE /\ ~ \E p \in ToFill : var_val_stack[Lval(p, << >>)] = << >>
           /\ ir' = AddOperands(ir, vs) /\ pc' = "children"
  <2>1. bb_ \in Block /\ bb_ \in DOMAIN ir.use_list /\ bb_ \in Blocks(f) BY <1>2, AtBlock DEF IrOK
  <2>2. ASSUME NEW p \in ToFill
        PROVE  /\ IsPhi(p) /\ p \in Instrs /\ p \notin InstrsIn(f)
               /\ Settled(Newest(Lval(p, << >>))) /\ Newest(Lval(p, << >>)) \in DOMAIN ir.use_list
    <3>1. PICK c \in Succs(bb_) : p \in PhisIn(c) /\ Lval(p, << >>) \in Known BY DEF ToFill
    <3>2. c \in Block BY <1>2, <2>1, <3>1, Code DEF EdgesInside
    <3>3. IsPhi(p) /\ p \in Instrs /\ p \notin InstrsIn(f)
      BY <1>2, <3>1, <3>2, Code DEF PhisIn, Instrs
    <3>4. var_val_stack[Lval(p, << >>)] # << >> BY <1>4
    <3> QED BY <1>2, <3>1, <3>3, <3>4, NewestIsSettled
  <2>3. DOMAIN vs = ToFill /\ \A p \in ToFill : vs[p] = <<Newest(Lval(p, << >>)), bb_>> OBVIOUS
  <2> HIDE DEF vs
  <2>4. /\ ir'.code = ir.code
        /\ DOMAIN ir'.operands = DOMAIN ir.operands /\ DOMAIN ir'.use_list = DOMAIN ir.use_list
        /\ \A x \in DOMAIN ir.operands :
             /\ x \in ToFill => ir'.operands[x] = ir.operands[x] \o vs[x]
             /\ x \notin ToFill => ir'.operands[x] = ir.operands[x]
    <3>1. WithOperands(ir', ir, vs) BY <1>2, <1>4, OperandsAdded
    <3> QED BY <2>3, <3>1, Zenon DEF WithOperands
  <2>5. /\ CodeOK' /\ Instrs' = Instrs
        /\ \A n : Below(n)' = Below(n)
        /\ \A x \in InstrsIn(f) : Ahead(x)' => Ahead(x)
    BY <1>1, <1>2, <1>4, <2>4, Onwards
  <2>6. Renamed' = Renamed
    <3>1. Waiting' = Waiting BY <1>1 DEF Waiting
    <3> QED BY <1>1, <2>5, <3>1 DEF Renamed
  <2>7. \A v : Settled(v) => Settled(v)' BY <1>1, <2>5, <2>6, SettledKept
  <2>8. WaitOK' BY <1>1, <1>2, <2>4, <2>5, WaitTyped DEF IInv, WaitOK
  <2>9. Instrs \subseteq DOMAIN ir.operands BY <1>2, InstrsTyped
  <2>10. \A p \in ToFill : ir.operands[p] \in Seq(DOMAIN ir.use_list) /\ vs[p] \in Seq(DOMAIN ir.use_list)
    <3> SUFFICES ASSUME NEW p \in ToFill
                 PROVE  ir.operands[p] \in Seq(DOMAIN ir.use_list) /\ vs[p] \in Seq(DOMAIN ir.use_list)
      OBVIOUS
    <3> DEFINE D == DOMAIN ir.use_list
               v == Newest(Lval(p, << >>))
    <3>1. v \in D /\ bb_ \in D /\ vs[p] = <<v, bb_>> BY <2>1, <2>2, <2>3
    <3>2. ir.operands[p] \in Seq(D) BY <1>2, <2>2, <2>9 DEF IrOK
    <3> HIDE DEF D, v
    <3>3. vs[p] \in Seq(D) BY <3>1
    <3> QED BY <3>2, <3>3 DEF D
  <2>11. UsesOK'
    <3> SUFFICES ASSUME NEW v \in DOMAIN ir.use_list \ Renamed PROVE Exact(ir', Instrs, v)
      BY <2>4, <2>5, <2>6, Zenon DEF UsesOK
    <3>1. Exact(ir, Instrs, v) BY <1>2 DEF UsesOK
    <3>2. DOMAIN vs \subseteq Instrs BY <2>2, <2>3
    <3>3. PICK T : T = DOMAIN ir.use_list OBVIOUS
    <3>4. \A p \in DOMAIN vs : ir.operands[p] \in Seq(T) /\ vs[p] \in Seq(T) BY <2>3, <2>10, <3>3
    <3> QED BY <1>2, <1>4, <2>9, <3>1, <3>2, <3>4, OperandsAddedExact
  <2>12. ReadsOK'
    <3> SUFFICES ASSUME NEW x \in Instrs, NEW j \in DOMAIN ir'.operands[x]
                 PROVE  ir'.operands[x][j] \notin Renamed
      BY <2>5, <2>6, Zenon DEF ReadsOK
    <3>1. \A i \in DOMAIN ir.operands[x] : ir.operands[x][i] \notin Renamed BY <1>2 DEF ReadsOK
    <3>2. CASE x \notin ToFill BY <2>4, <2>9, <3>1, <3>2
    <3>3. CASE x \in ToFill
      <4> DEFINE D == DOMAIN ir.use_list
                 s == ir.operands[x]
                 v == Newest(Lval(x, << >>))
      <4>1. s \in Seq(D) /\ ir'.operands[x] = s \o <<v, bb_>> /\ v \in D /\ bb_ \in D
        BY <2>1, <2>2, <2>3, <2>4, <2>9, <2>10, <3>3
      <4>2. v \notin Renamed BY <2>2, <3>3, NotRenamed
      <4>3. bb_ \notin Renamed BY <2>1, BlockAssumption DEF Renamed, IsLoad
      <4>4. \A i \in DOMAIN s : s[i] \notin Renamed BY <3>1
      <4> HIDE DEF D, s, v
      <4>5. j \in DOMAIN (s \o <<v, bb_>>) BY <4>1
      <4>6. (s \o <<v, bb_>>)[j] \in {s[i] : i \in DOMAIN s} \cup {v, bb_} BY <4>1, <4>5
      <4> QED BY <4>1, <4>2, <4>3, <4>4, <4>6
    <3> QED BY <3>2, <3>3
  <2>13. OperandsOK'
    <3> SUFFICES ASSUME NEW x \in InstrsIn(f)
                 PROVE  /\ DOMAIN ir'.operands[x] = DOMAIN f.operands[x]
                        /\ \A j \in DOMAIN f.operands[x] :
                             ir'.operands[x][j] = f.operands[x][j] \/ Settled(ir.operands[x][j])'
      BY <1>1, Zenon DEF OperandsOK
    <3>1. ir'.operands[x] = ir.operands[x] BY <1>2, <2>2, <2>4 DEF IrOK
    <3>2. /\ DOMAIN ir.operands[x] = DOMAIN f.operands[x]
          /\ \A j \in DOMAIN f.operands[x] :
               ir.operands[x][j] = f.operands[x][j] \/ Settled(ir.operands[x][j])
      BY <1>2 DEF OperandsOK
    <3>3. ASSUME NEW j \in DOMAIN f.operands[x], Settled(ir.operands[x][j])
          PROVE  Settled(ir.operands[x][j])'
      <4>1. PICK v : v = ir.operands[x][j] OBVIOUS
      <4>2. v = ir'.operands[x][j] /\ Settled(v)' BY <2>7, <3>1, <3>3, <4>1
      <4> QED BY <4>2, Zenon
    <3> QED BY <3>1, <3>2, <3>3, Zenon
  <2>14. StackedOK' BY <1>1, <1>2, <2>7, StackedKept
  <2> QED BY <2>5, <2>8, <2>11, <2>12, <2>13, <2>14 DEF ListsOK
<1> QED BY <1>1, <1>3, <1>4

\* A child, and what is below it, was below a child still to be visited.
LEMMA VisitChildLists ==
  ASSUME IInv, ListsOK, VisitChild
  PROVE  ListsOK'
<1> DEFINE n == Len(calls)
<1>1. pc = "children" /\ pc' = "enter" /\ UNCHANGED <<f, ir, var_val_stack>> BY DEF VisitChild
<1>2. PICK c \in this.left : calls' = Append([calls EXCEPT ![n].left = @ \ {c}], Call(c))
  BY DEF VisitChild
<1>3. /\ f \in Functions /\ CallsOK /\ calls # << >> /\ n \in Nat
      /\ DOMAIN calls = 1..n /\ n \in DOMAIN calls
  BY <1>1 DEF IInv, CallsOK
<1>4. c \in calls[n].left /\ c \in Blocks(f) BY <1>2, <1>3, WaitTyped DEF this
<1>5. /\ DOMAIN calls' = 1..(n + 1) /\ Len(calls') = n + 1
      /\ \A k \in 1..n : /\ calls'[k].bb = calls[k].bb /\ calls'[k].wait_delete = calls[k].wait_delete
                         /\ calls'[k].left \subseteq calls[k].left
      /\ calls'[n + 1].bb = c /\ calls'[n + 1].wait_delete = {} /\ calls'[n + 1].left = Children(c)
  <2>1. /\ Len(calls') = n + 1 /\ DOMAIN calls' = 1..(n + 1)
        /\ calls' \in Seq([bb : Blocks(f), wait_delete : SUBSET InstrsIn(f), left : SUBSET Blocks(f)])
        /\ \A k \in 1..n :
             /\ calls'[k].bb = calls[k].bb /\ calls'[k].wait_delete = calls[k].wait_delete
             /\ calls'[k].left = IF k = n THEN calls[k].left \ {c} ELSE calls[k].left
        /\ calls'[n + 1] = [bb |-> c, wait_delete |-> {}, left |-> Children(c)]
    BY <1>2, <1>3, <1>4, Visited, Zenon
  <2> HIDE DEF n
  <2>2. /\ \A k \in 1..n : calls'[k].left = IF k = n THEN calls[k].left \ {c} ELSE calls[k].left
        /\ calls'[n + 1] = [bb |-> c, wait_delete |-> {}, left |-> Children(c)]
    BY <2>1, Zenon
  <2>3. \A k \in 1..n : calls'[k].left \subseteq calls[k].left BY <2>2
  <2>4. calls'[n + 1].bb = c /\ calls'[n + 1].wait_delete = {} /\ calls'[n + 1].left = Children(c)
    BY <2>2
  <2> QED BY <2>1, <2>3, <2>4, Zenon
<1>6. bb_' = c BY <1>5 DEF bb_, this
<1> HIDE DEF n
<1>7. (\A k \in 1..(n + 1) : k \in 1..n \/ k = n + 1) /\ (\A k \in 1..n : k \in 1..(n + 1)) BY <1>3
<1>8. Below(c) BY <1>3, <1>4, Code, DominatesReflexive DEF Below
<1>9. ASSUME NEW m, Below(m)' PROVE Below(m)
  <2>0. PICK k \in 1..(n + 1) : \E d \in calls'[k].left : Dominates(f, d, m)
    BY <1>1, <1>5, <1>9 DEF Below
  <2>1. PICK d \in calls'[k].left : Dominates(f, d, m) BY <2>0
  <2>2. CASE k \in 1..n BY <1>3, <1>5, <2>1, <2>2 DEF Below
  <2>3. CASE k = n + 1
    <3>1. Dominates(f, c, d) BY <1>5, <2>1, <2>3 DEF Children, IsIdom, StrictlyDominates
    <3>2. Dominates(f, c, m) BY <2>1, <3>1, DominatesTransitive
    <3> QED BY <1>3, <1>4, <3>2 DEF Below
  <2> QED BY <1>7, <2>2, <2>3
<1>10. ASSUME NEW x, Ahead(x)' PROVE Ahead(x)
  <2>1. x \in Range(f.code[c]) \/ \E m \in Blocks(f) : Below(m)' /\ x \in Range(f.code[m])
    BY <1>1, <1>6, <1>10 DEF Ahead
  <2> QED BY <1>4, <1>8, <1>9, <2>1 DEF Ahead
<1>11. Waiting' = Waiting
  <2>1. \A x : x \in Waiting <=> \E k \in 1..n : x \in calls[k].wait_delete BY <1>3 DEF Waiting
  <2>2. \A x : x \in Waiting' <=> \E k \in 1..(n + 1) : x \in calls'[k].wait_delete
    BY <1>5 DEF Waiting
  <2> QED BY <1>5, <1>7, <2>1, <2>2
<1>12. Instrs' = Instrs /\ Renamed' = Renamed BY <1>1, <1>11 DEF Instrs, Renamed
<1>13. \A v : Settled(v) => Settled(v)' BY <1>1, <1>10, <1>12, SettledKept
<1>14. UsesOK' /\ ReadsOK' /\ OperandsOK' /\ StackedOK'
  BY <1>1, <1>12, <1>13, ReadsKept, StackedKept DEF ListsOK
<1>15. CodeOK'
  <2>1. \A b : Open(b)' => Open(b) BY <1>1, <1>3, <1>5, <1>7, <1>8, <1>9 DEF Open
  <2>2. \A b : Ordered(b)' <=> Ordered(b) BY <1>1, OrderKept
  <2> QED BY <1>1, <2>1, <2>2 DEF ListsOK, CodeOK
<1>16. WaitOK'
  <2> SUFFICES ASSUME NEW k \in 1..(n + 1), NEW x \in calls'[k].wait_delete
               PROVE  x \in Range(ir.code[calls'[k].bb]) /\ ~Ahead(x)'
    BY <1>1, <1>5 DEF WaitOK
  <2>1. k \in 1..n BY <1>5, <1>7
  <2>2. x \in Range(ir.code[calls[k].bb]) /\ ~Ahead(x) BY <1>3, <1>5, <2>1 DEF ListsOK, WaitOK
  <2> QED BY <1>5, <1>10, <2>1, <2>2
<1> QED BY <1>14, <1>15, <1>16 DEF ListsOK

\* What is left of a stack when a block returns.
LEMMA Left ==
  ASSUME IInv, Return, NEW v \in Known', NEW j \in DOMAIN var_val_stack'[v]
  PROVE  /\ v \in Known /\ j \in DOMAIN var_val_stack[v] /\ var_val_stack'[v][j] = var_val_stack[v][j]
         /\ j <= Len(var_val_stack'[v])
<1>1. /\ calls # << >> /\ CallsOK /\ StacksOK
      /\ var_val_stack' = [w \in Known |->
           SubSeq(var_val_stack[w], 1, Len(var_val_stack[w]) - Cardinality(PushedHere(w)))]
  BY Zenon DEF Return, IInv, CallsOK
<1>2. v \in Known BY <1>1 DEF Known
<1>3. Cardinality(PushedHere(v)) \in Nat
  <2> DEFINE s == ir.code[bb_]
             R == {s[i] : i \in 1..Len(s)}
             D == DOMAIN ir.operands
  <2>1. s \in Seq(D) BY <1>1, AtBlock
  <2> HIDE DEF D
  <2>2. Len(s) \in Nat /\ Range(s) = R BY <2>1 DEF Range
  <2>3. IsFiniteSet(1..Len(s)) BY <2>2, FS_Interval
  <2>4. [i \in 1..Len(s) |-> s[i]] \in Surjection(1..Len(s), R) BY DEF Surjection
  <2>5. IsFiniteSet(R) BY <2>3, <2>4, FS_Surjection
  <2>6. PushedHere(v) \subseteq R BY <2>2 DEF PushedHere
  <2> QED BY <2>5, <2>6, FS_Subset, FS_CardinalityType
<1> DEFINE s == var_val_stack[v]
           t == var_val_stack'[v]
           m == Cardinality(PushedHere(v))
           D == DOMAIN ir.use_list
<1>4. s \in Seq(D) /\ m \in Nat /\ t = SubSeq(s, 1, Len(s) - m) /\ j \in DOMAIN t
  BY <1>1, <1>2, <1>3 DEF StacksOK
<1> HIDE DEF s, t, m, D
<1>5. j \in DOMAIN s /\ t[j] = s[j] /\ j <= Len(t) BY <1>4
<1> QED BY <1>2, <1>5 DEF s, t

\* What a block deletes as it returns is renamed already, and nothing reads it.
LEMMA ReturnLists ==
  ASSUME IInv, ListsOK, Return
  PROVE  ListsOK'
<1> DEFINE n == Len(calls)
<1>1. /\ pc = "children" /\ pc' = (IF n = 1 THEN "allocas" ELSE "children")
      /\ UNCHANGED <<f, vars_left, var, work_list, line>>
      /\ ir' = DeleteInstrs(ir, bb_, this.wait_delete) /\ calls' = Front(calls)
  BY Zenon DEF Return
<1>2. /\ f \in Functions /\ CallsOK /\ IrOK /\ StacksOK /\ calls # << >>
      /\ CodeOK /\ WaitOK /\ UsesOK /\ ReadsOK /\ OperandsOK /\ StackedOK
  BY <1>1 DEF IInv, CallsOK, ListsOK
<1>3. /\ n \in Nat /\ DOMAIN calls = 1..n /\ n \in 1..n /\ n \in DOMAIN calls /\ bb_ = calls[n].bb
      /\ \A k \in 1..(n - 1) : k \in 1..n /\ k < n
      /\ \A k \in 1..n : k \in 1..(n - 1) \/ k = n
  BY <1>2 DEF CallsOK, bb_, this
<1>4. /\ DOMAIN calls' = 1..(n - 1) /\ \A k \in 1..(n - 1) : calls'[k] = calls[k]
  <2> DEFINE S == [bb : Blocks(f), wait_delete : SUBSET InstrsIn(f), left : SUBSET Blocks(f)]
  <2>1. calls' = SubSeq(calls, 1, n - 1) /\ calls \in Seq(S) BY <1>1, <1>2 DEF Front, CallsOK
  <2> HIDE DEF S
  <2>2. n \in Nat /\ n \in 1..n /\ Len(calls) = n BY <1>3
  <2> HIDE DEF n
  <2> QED BY ONLY <2>1, <2>2
<1> HIDE DEF n
<1>5. PICK W : W = calls[n].wait_delete OBVIOUS
<1>6. /\ bb_ \in Block /\ bb_ \in Blocks(f)
      /\ \A x \in Range(ir.code[bb_]) : IsPhi(x) \/ x \in Range(f.code[bb_])
      /\ \A x \in W : /\ x \in InstrsIn(f) /\ ~IsPhi(x) /\ x \in Range(ir.code[bb_])
                      /\ x \in Range(f.code[bb_])
  <2>1. bb_ \in Block /\ bb_ \in Blocks(f) BY <1>2, AtBlock
  <2>2. \A x \in W : x \in InstrsIn(f) /\ x \in Range(ir.code[bb_])
    BY <1>2, <1>3, <1>5, WaitTyped DEF WaitOK
  <2>3. \A x \in InstrsIn(f) : ~IsPhi(x) BY <1>2, Code
  <2> QED BY <1>2, <2>1, <2>2, <2>3 DEF CodeOK
<1>7. /\ DOMAIN ir.code = Block /\ IsData(ir)
      /\ ir'.operands = ir.operands /\ DOMAIN ir'.use_list = DOMAIN ir.use_list
      /\ \A c \in Block : c # bb_ => ir'.code[c] = ir.code[c]
      /\ ir'.code[bb_] = Without(ir.code[bb_], W)
  <2>1. DOMAIN ir.code = Block /\ IsData(ir) BY <1>2 DEF IrOK, IsData
  <2>2. PICK h : h = ir' OBVIOUS
  <2>3. h = DeleteInstrs(ir, bb_, W) BY <1>1, <1>5, <2>2 DEF this, n
  <2> QED BY <1>6, <2>1, <2>2, <2>3, Deletion
<1>8. /\ ir'.code[bb_] \in Seq(DOMAIN ir.operands)
      /\ Range(ir'.code[bb_]) = Range(ir.code[bb_]) \ W
  BY <1>2, <1>6, <1>7, WithoutKeeps DEF CodeOK
<1>9. Instrs' = Instrs \ W
  <2>1. \A x : x \in Instrs <=> \E c \in Block : x \in Range(ir.code[c]) BY DEF Instrs
  <2>2. \A x : x \in Instrs' <=> \E c \in Block : x \in Range(ir'.code[c]) BY DEF Instrs
  <2>3. ASSUME NEW c \in Block, c # bb_, NEW x \in Range(ir.code[c]) PROVE x \notin W
    <3>1. IsPhi(x) \/ x \in Range(f.code[c]) BY <1>2, <2>3 DEF CodeOK
    <3> QED BY <1>2, <1>6, <2>3, <3>1, Places
  <2>4. \A c \in Block : \A x : x \in Range(ir'.code[c]) <=> x \in Range(ir.code[c]) /\ x \notin W
    BY <1>7, <1>8, <2>3
  <2> QED BY <2>1, <2>2, <2>4
<1>10. Renamed' = Renamed
  <2>1. \A x : x \in Waiting <=> \E k \in 1..n : x \in calls[k].wait_delete BY <1>3 DEF Waiting
  <2>2. \A x : x \in Waiting' <=> \E k \in 1..(n - 1) : x \in calls[k].wait_delete
    BY <1>4 DEF Waiting
  <2>3. \A x : x \in Waiting <=> x \in Waiting' \/ x \in W BY <1>3, <1>5, <2>1, <2>2
  <2>4. \A x : x \in Renamed <=> x \in InstrsIn(f) /\ IsLoad(x) /\ (x \in Waiting \/ x \notin Instrs)
    BY DEF Renamed
  <2>5. \A x : x \in Renamed' <=> x \in InstrsIn(f) /\ IsLoad(x) /\ (x \in Waiting' \/ x \notin Instrs')
    BY <1>1 DEF Renamed
  <2> QED BY <1>9, <2>3, <2>4, <2>5
<1>11. pc' # "place" /\ pc' # "enter" /\ pc' # "instr" BY <1>1
<1>12. \A m : Below(m)' => Below(m) BY <1>1, <1>3, <1>4 DEF Below
<1>13. \A x : Ahead(x)' => Ahead(x) BY <1>1, <1>11, <1>12 DEF Ahead
<1>14. \A v : Settled(v) => Settled(v)' BY <1>1, <1>10, <1>13, SettledKept
<1>15. UsesOK'
  <2>1. PICK g : g = ir OBVIOUS
  <2>2. PICK h : h = ir' OBVIOUS
  <2>3. h = DeleteInstrs(g, bb_, W) BY <1>1, <1>5, <2>1, <2>2 DEF this, n
  <2>4. ASSUME NEW v \in DOMAIN ir.use_list, v \notin Renamed PROVE Exact(ir', Instrs', v)
    <3>1. Exact(g, Instrs, v) BY <1>2, <2>1, <2>4 DEF UsesOK
    <3>2. Exact(h, Instrs \ W, v) BY <1>7, <2>1, <2>3, <2>4, <3>1, DeletedExact
    <3> QED BY <1>9, <2>2, <3>2
  <2> QED BY <1>7, <1>10, <2>4 DEF UsesOK
<1>16. ReadsOK' BY <1>2, <1>7, <1>9, <1>10 DEF ReadsOK
<1>17. OperandsOK' BY <1>1, <1>2, <1>7, <1>14, OperandsKept
<1>18. StackedOK'
  <2>1. ASSUME NEW v \in Known', NEW j \in DOMAIN var_val_stack'[v]
        PROVE  \E u : u = var_val_stack'[v][j] /\ Settled(u)'
    <3>1. v \in Known /\ j \in DOMAIN var_val_stack[v] /\ var_val_stack'[v][j] = var_val_stack[v][j]
      BY <2>1, Left
    <3>2. PICK u : u = var_val_stack[v][j] OBVIOUS
    <3>3. Settled(u)' BY <1>2, <1>14, <3>1, <3>2 DEF StackedOK
    <3> QED BY <3>1, <3>2, <3>3
  <2> QED BY <2>1, StackedIs
<1>19. \A k \in 1..(n - 1) : calls[k].bb # bb_ /\ calls[k].bb \in Block
  <2>1. \A k \in 1..(n - 1) : StrictlyDominates(f, calls[k].bb, bb_) BY <1>2, <1>3 DEF CallsOK
  <2> QED BY <1>2, <1>3, <2>1, Code, WaitTyped DEF StrictlyDominates
<1>20. CodeOK'
  <2>1. ASSUME NEW d, d = bb_ PROVE ~Open(d)'
    <3>1. ~Below(d) BY <1>2, <1>6, <2>1, Code, DominatesReflexive, NotBelow
    <3> QED BY <1>4, <1>11, <1>12, <1>19, <2>1, <3>1 DEF Open
  <2>2. ASSUME NEW c \in Block
        PROVE  /\ ir'.code[c] \in Seq(DOMAIN ir'.operands)
               /\ \A x \in Range(ir'.code[c]) : IsPhi(x) \/ x \in Range(f.code[c])
               /\ Open(c)' => Ordered(c)'
    <3>1. CASE c = bb_ BY <1>6, <1>7, <1>8, <2>1, <3>1
    <3>2. CASE c # bb_
      <4>1. ir'.code[c] = ir.code[c] BY <1>7, <3>2
      <4>2. Open(c)' => Open(c) BY <1>3, <1>4, <1>11, <1>12 DEF Open
      <4>3. Ordered(c)' <=> Ordered(c) BY <1>1, <4>1, OrderKept
      <4> QED BY <1>2, <1>7, <4>1, <4>2, <4>3 DEF CodeOK
    <3> QED BY <3>1, <3>2
  <2> QED BY <1>1, <1>2, <1>7, <2>2 DEF CodeOK
<1>21. WaitOK'
  <2> SUFFICES ASSUME NEW k \in 1..(n - 1), NEW x \in calls[k].wait_delete
               PROVE  x \in Range(ir'.code[calls[k].bb]) /\ ~Ahead(x)'
    BY <1>4 DEF WaitOK
  <2>1. x \in Range(ir.code[calls[k].bb]) /\ ~Ahead(x) BY <1>2, <1>3 DEF WaitOK
  <2> QED BY <1>7, <1>13, <1>19, <2>1
<1> QED BY <1>15, <1>16, <1>17, <1>18, <1>20, <1>21 DEF ListsOK

\* An alloca has no operands, and the operands that read it are left.
LEMMA RemoveAllocasLists ==
  ASSUME IInv, ListsOK, RemoveAllocas
  PROVE  ListsOK'
<1>1. /\ pc = "allocas" /\ pc' = "done" /\ UNCHANGED <<f, var_val_stack, calls>>
      /\ ir' = [ir EXCEPT !.code = [b \in Block |-> Without(ir.code[b], ScalarAllocas)]]
  BY DEF RemoveAllocas
<1>2. /\ f \in Functions /\ IrOK /\ calls = << >>
      /\ CodeOK /\ WaitOK /\ UsesOK /\ ReadsOK /\ OperandsOK /\ StackedOK
  BY <1>1 DEF IInv, CallsOK, ListsOK
<1>3. /\ ir'.operands = ir.operands /\ ir'.use_list = ir.use_list
      /\ \A b \in Block : ir'.code[b] = Without(ir.code[b], ScalarAllocas)
  BY <1>1, <1>2 DEF IrOK
<1>4. \A b \in Block : /\ ir'.code[b] \in Seq(DOMAIN ir.operands)
                       /\ Range(ir'.code[b]) = Range(ir.code[b]) \ ScalarAllocas
  BY <1>2, <1>3, WithoutKeeps DEF CodeOK
<1>5. \A x \in ScalarAllocas : ~IsLoad(x) /\ DOMAIN ir.operands[x] = {}
  <2>1. \A x \in ScalarAllocas : x \in InstrsIn(f) /\ IsAlloca(x) BY DEF ScalarAllocas, Allocas
  <2>2. DOMAIN << >> = {} OBVIOUS
  <2> QED BY <1>2, <2>1, <2>2, Places DEF OperandsOK, IsAlloca, IsLoad
<1>6. Instrs' = Instrs \ ScalarAllocas BY <1>4 DEF Instrs
<1>7. Waiting = {} /\ Waiting' = {} BY <1>1, <1>2 DEF Waiting
<1>8. Renamed' = Renamed BY <1>1, <1>5, <1>6, <1>7 DEF Renamed
<1>9. \A b : ~Open(b)' BY <1>1, <1>2 DEF Open, Below
<1>10. \A x : ~Ahead(x)' BY <1>1, <1>2 DEF Ahead, Below
<1>11. \A v : Settled(v) => Settled(v)' BY <1>1, <1>8, <1>10, SettledKept
<1>12. CodeOK' BY <1>1, <1>2, <1>3, <1>4, <1>9 DEF CodeOK
<1>13. UsesOK'
  <2>1. PICK g : g = ir OBVIOUS
  <2>2. PICK h : h = ir' OBVIOUS
  <2>3. ASSUME NEW v \in DOMAIN ir.use_list, v \notin Renamed PROVE Exact(ir', Instrs', v)
    <3>1. Exact(g, Instrs, v) BY <1>2, <2>1, <2>3 DEF UsesOK
    <3>2. Exact(h, Instrs', v) BY <1>3, <1>5, <1>6, <2>1, <2>2, <3>1, ExactMeans
    <3> QED BY <2>2, <3>2
  <2> QED BY <1>3, <1>8, <2>3 DEF UsesOK
<1>14. ReadsOK' BY <1>2, <1>3, <1>6, <1>8 DEF ReadsOK
<1>15. OperandsOK' BY <1>1, <1>2, <1>3, <1>11, OperandsKept
<1>16. StackedOK' BY <1>1, <1>2, <1>11, StackedKept
<1>17. WaitOK' BY <1>1, <1>2 DEF WaitOK
<1> QED BY <1>12, <1>13, <1>14, <1>15, <1>16, <1>17 DEF ListsOK

\* A phi that is placed is new: nothing reads it, and it reads nothing.
LEMMA PlacePhisLists ==
  ASSUME IInv, ListsOK, PlacePhis
  PROVE  ListsOK'
<1>1. /\ pc = "place" /\ UNCHANGED <<f, pc, var, var_val_stack, calls>>
      /\ calls = << >> /\ \A b \in Block : Intact(b)
      /\ f \in Functions /\ IrOK
      /\ CodeOK /\ WaitOK /\ UsesOK /\ ReadsOK /\ OperandsOK /\ StackedOK
  BY Zenon DEF PlacePhis, IInv, PlaceOK, ListsOK
<1>2. PICK b \in work_list :
        LET joins == {c \in Frontier(f, b) : PhiOf(var, c) \notin Range(ir.code[c])}
            phis == {PhiOf(var, c) : c \in joins}
            g   == Declare(ir, phis)
        IN  /\ ir' = [g EXCEPT !.code = [c \in Block |->
                        IF c \in joins THEN <<PhiOf(var, c)>> \o @[c] ELSE @[c]]]
            /\ work_list' = (work_list \ {b}) \cup AlsoLookAt(joins)
  BY Zenon DEF PlacePhis
<1> DEFINE added == {c \in Frontier(f, b) : PhiOf(var, c) \notin Range(ir.code[c])}
           phis == {PhiOf(var, c) : c \in added}
           g == Declare(ir, phis)
<1>3. /\ IsData(ir) /\ IsData(g) /\ g.code = ir.code
      /\ DOMAIN g.operands = DOMAIN ir.operands \cup phis
      /\ DOMAIN g.use_list = DOMAIN ir.use_list \cup phis
      /\ \A x \in phis : g.operands[x] = << >>
      /\ \A x \in DOMAIN ir.operands \ phis : g.operands[x] = ir.operands[x]
  <2>1. IsData(ir) BY <1>1 DEF IrOK, IsData
  <2> HIDE DEF phis
  <2> QED BY <2>1, Declared
<1>4. /\ ir'.operands = g.operands /\ ir'.use_list = g.use_list
      /\ \A c \in Block : /\ c \in added => ir'.code[c] = <<PhiOf(var, c)>> \o ir.code[c]
                          /\ c \notin added => ir'.code[c] = ir.code[c]
  <2>1. ir' = [g EXCEPT !.code = [c \in Block |->
                        IF c \in added THEN <<PhiOf(var, c)>> \o g.code[c] ELSE g.code[c]]]
    BY <1>2
  <2> HIDE DEF g, added
  <2>2. ir' = [code |-> [c \in Block |-> IF c \in added THEN <<PhiOf(var, c)>> \o ir.code[c] ELSE ir.code[c]],
               operands |-> g.operands, use_list |-> g.use_list]
    BY <1>3, <2>1 DEF IsData
  <2> QED BY <2>2
<1>5. /\ added \subseteq Blocks(f) /\ added \subseteq Block /\ var \in Variables
      /\ \A c \in added : PhiOf(var, c) \notin Range(ir.code[c])
  BY <1>1, <1>2, Code DEF Frontier, IInv, PlaceOK
<1>6. \A x \in phis : IsPhi(x) /\ ~IsLoad(x) BY Phis
<1>7. \A x \in phis : x \notin DOMAIN ir.operands
  <2> SUFFICES ASSUME NEW c \in added, PhiOf(var, c) \in DOMAIN ir.operands PROVE FALSE
    OBVIOUS
  <2>1. PhiOf(var, c) \in PhisOf(c) BY <1>5 DEF PhisOf, HasPhi
  <2>2. Range(ir.code[c]) = Range(f.code[c]) \cup PhisOf(c) BY <1>1, <1>5 DEF Intact
  <2> QED BY <1>5, <2>1, <2>2
<1>8. \A x \in phis : x \notin DOMAIN ir.use_list
  <2>1. \A x \in ValuesIn(f) : ~IsPhi(x) BY <1>1, Places
  <2>2. \A c \in Block : ~IsPhi(c) BY BlockAssumption DEF IsPhi
  <2> QED BY <1>1, <1>6, <1>7, <2>1, <2>2 DEF CodeOK
<1> HIDE DEF g
<1>9. ASSUME NEW c \in added
      PROVE  /\ ir'.code[c] \in Seq(DOMAIN ir'.operands)
             /\ Range(ir'.code[c]) = Range(ir.code[c]) \cup {PhiOf(var, c)}
             /\ DOMAIN ir'.code[c] = 1..(Len(ir.code[c]) + 1)
             /\ DOMAIN ir.code[c] = 1..Len(ir.code[c]) /\ Len(ir.code[c]) \in Nat
             /\ ir'.code[c][1] = PhiOf(var, c)
             /\ \A m \in 2..(Len(ir.code[c]) + 1) : ir'.code[c][m] = ir.code[c][m - 1]
  <2> DEFINE s == ir.code[c]
             D == DOMAIN ir'.operands
             p == PhiOf(var, c)
  <2>1. p \in phis /\ c \in Block BY <1>5
  <2> HIDE DEF p, phis
  <2>2. s \in Seq(D) /\ p \in D
    <3>1. s \in Seq(DOMAIN ir.operands) BY <1>1, <2>1 DEF CodeOK
    <3>2. DOMAIN ir.operands \subseteq D /\ p \in D BY <1>3, <1>4, <2>1
    <3> QED BY <3>1, <3>2, SeqOfMore
  <2>3. ir'.code[c] = <<p>> \o s BY <1>4, <2>1 DEF p
  <2> HIDE DEF s, D
  <2>4. /\ <<p>> \o s \in Seq(D) /\ DOMAIN (<<p>> \o s) = 1..(Len(s) + 1)
        /\ DOMAIN s = 1..Len(s) /\ Len(s) \in Nat
        /\ (<<p>> \o s)[1] = p /\ \A m \in 2..(Len(s) + 1) : (<<p>> \o s)[m] = s[m - 1]
    BY ONLY <2>2
  <2>5. Range(<<p>> \o s) = Range(s) \cup {p}
    <3>1. <<p>> \in Seq(D) BY ONLY <2>2
    <3>2. Range(<<p>>) = {p}
      <4>1. DOMAIN <<p>> = {1} /\ <<p>>[1] = p OBVIOUS
      <4> QED BY <4>1 DEF Range
    <3>3. Range(<<p>> \o s) = Range(<<p>>) \cup Range(s)
      <4>1. PICK q : q = <<p>> OBVIOUS
      <4>2. s \in Seq(D) /\ q \in Seq(D) BY ONLY <2>2, <3>1, <4>1
      <4>3. Range(q \o s) = Range(q) \cup Range(s) BY ONLY <4>2, RangeOfConcat
      <4> QED BY ONLY <4>1, <4>3
    <3> QED BY ONLY <3>2, <3>3
  <2> QED BY <2>3, <2>4, <2>5 DEF s, D, p
<1>10. Instrs' = Instrs \cup phis
  <2>1. \A x : x \in Instrs <=> \E c \in Block : x \in Range(ir.code[c]) BY DEF Instrs
  <2>2. \A x : x \in Instrs' <=> \E c \in Block : x \in Range(ir'.code[c]) BY DEF Instrs
  <2>3. \A c \in Block : \A x : x \in Range(ir'.code[c]) <=>
          x \in Range(ir.code[c]) \/ (c \in added /\ x = PhiOf(var, c))
    BY <1>4, <1>9
  <2>4. \A x : x \in phis <=> \E c \in Block : c \in added /\ x = PhiOf(var, c) BY <1>5
  <2> HIDE DEF phis
  <2> QED BY <2>1, <2>2, <2>3, <2>4
<1>11. Renamed' = Renamed
  <2>1. Waiting = {} /\ Waiting' = {} BY <1>1 DEF Waiting
  <2> QED BY <1>1, <1>6, <1>10, <2>1 DEF Renamed
<1>12. \A v : Settled(v) => Settled(v)'
  <2>1. \A x : Ahead(x) BY <1>1 DEF Ahead
  <2> QED BY <1>1, <1>11, <2>1, SettledKept
<1> HIDE DEF phis, added
<1>13. Instrs \subseteq DOMAIN ir.operands /\ Instrs \cap phis = {}
  <2>1. Instrs \subseteq DOMAIN ir.operands BY <1>1 DEF CodeOK, Instrs, Range
  <2> QED BY <1>7, <2>1
<1>14. CodeOK'
  <2>1. DOMAIN ir'.use_list = ValuesIn(f') \cup Block \cup DOMAIN ir'.operands
    BY <1>1, <1>3, <1>4 DEF CodeOK
  <2>2. ASSUME NEW c \in Block
        PROVE  /\ ir'.code[c] \in Seq(DOMAIN ir'.operands)
               /\ \A x \in Range(ir'.code[c]) : IsPhi(x) \/ x \in Range(f.code[c])
               /\ Ordered(c)'
    <3>1. /\ ir.code[c] \in Seq(DOMAIN ir.operands) /\ Ordered(c)
          /\ \A x \in Range(ir.code[c]) : IsPhi(x) \/ x \in Range(f.code[c])
      BY <1>1 DEF CodeOK, Open
    <3>2. CASE c \notin added
      <4>1. ir'.code[c] = ir.code[c] /\ ir'.code[c] \in Seq(DOMAIN ir'.operands)
        BY <1>3, <1>4, <3>1, <3>2, SeqOfMore
      <4> QED BY <1>1, <3>1, <4>1 DEF Ordered
    <3>3. CASE c \in added
      <4>1. Ordered(c)'
        <5> SUFFICES ASSUME NEW i \in DOMAIN f.code[c], NEW j \in DOMAIN f.code[c],
                            NEW m \in DOMAIN ir'.code[c], NEW k \in DOMAIN ir'.code[c],
                            i < j, f.code[c][i] = ir'.code[c][m], f.code[c][j] = ir'.code[c][k]
                     PROVE  m < k
          BY <1>1 DEF Ordered
        <5>1. ~IsPhi(f.code[c][i]) /\ ~IsPhi(f.code[c][j]) BY <1>1, Code, Places DEF Range
        <5>2. m # 1 /\ k # 1 BY <1>9, <3>3, <5>1, Phis
        <5>3. /\ m - 1 \in DOMAIN ir.code[c] /\ ir'.code[c][m] = ir.code[c][m - 1]
              /\ k - 1 \in DOMAIN ir.code[c] /\ ir'.code[c][k] = ir.code[c][k - 1]
          <6> DEFINE l == Len(ir.code[c])
          <6>1. /\ DOMAIN ir'.code[c] = 1..(l + 1) /\ DOMAIN ir.code[c] = 1..l /\ l \in Nat
                /\ \A q \in 2..(l + 1) : ir'.code[c][q] = ir.code[c][q - 1]
            BY <1>9, <3>3
          <6> HIDE DEF l
          <6>2. m \in 2..(l + 1) /\ k \in 2..(l + 1) /\ m - 1 \in 1..l /\ k - 1 \in 1..l
            BY <5>2, <6>1
          <6> QED BY <6>1, <6>2
        <5>4. m - 1 < k - 1 BY <3>1, <5>3 DEF Ordered
        <5> QED BY <1>9, <3>3, <5>4
      <4> QED BY <1>9, <3>1, <3>3, <4>1, Phis
    <3> QED BY <3>2, <3>3
  <2> QED BY <1>1, <2>1, <2>2 DEF CodeOK
<1>15. UsesOK'
  <2>1. PICK old_ : old_ = ir OBVIOUS
  <2>2. ASSUME NEW v \in DOMAIN ir'.use_list, v \notin Renamed PROVE Exact(g, Instrs', v)
    <3>1. g = Declare(old_, phis) /\ IsData(old_) /\ Instrs \subseteq DOMAIN old_.operands
      BY <1>3, <1>13, <2>1 DEF g
    <3>2. CASE v \in phis
      <4>1. \A y \in Instrs : \A j \in DOMAIN old_.operands[y] : old_.operands[y][j] # v
        <5>1. \A y \in Instrs : ir.operands[y] \in Seq(DOMAIN ir.use_list) BY <1>1, <1>13 DEF IrOK
        <5>2. v \notin DOMAIN ir.use_list BY <1>8, <3>2
        <5> QED BY <2>1, <5>1, <5>2
      <4> QED BY <1>10, <1>13, <3>1, <3>2, <4>1, DeclaredExact
    <3>3. CASE v \notin phis
      <4>1. v \in DOMAIN old_.use_list \ phis BY <1>3, <1>4, <2>1, <2>2, <3>3
      <4>2. Exact(old_, Instrs, v) BY <1>1, <2>1, <2>2, <4>1 DEF UsesOK
      <4> QED BY <1>10, <1>13, <3>1, <4>1, <4>2, DeclaredExact
    <3> QED BY <3>2, <3>3
  <2>3. ASSUME NEW v \in DOMAIN ir'.use_list, v \notin Renamed PROVE Exact(ir', Instrs', v)
    BY <1>4, <2>2, <2>3 DEF Exact
  <2> QED BY <1>11, <2>3 DEF UsesOK
<1>16. ReadsOK'
  <2> SUFFICES ASSUME NEW x \in Instrs', NEW j \in DOMAIN ir'.operands[x]
               PROVE  ir'.operands[x][j] \notin Renamed
    BY <1>11 DEF ReadsOK
  <2>1. DOMAIN << >> = {} OBVIOUS
  <2>2. x \notin phis BY <1>3, <1>4, <2>1
  <2> QED BY <1>1, <1>3, <1>4, <1>10, <1>13, <2>2 DEF ReadsOK
<1>17. OperandsOK'
  <2>1. \A x \in InstrsIn(f) : ir'.operands[x] = ir.operands[x] BY <1>1, <1>3, <1>4, <1>7 DEF IrOK
  <2> SUFFICES ASSUME NEW x \in InstrsIn(f)
               PROVE  /\ DOMAIN ir'.operands[x] = DOMAIN f.operands[x]
                      /\ \A j \in DOMAIN f.operands[x] :
                           ir'.operands[x][j] = f.operands[x][j] \/ Settled(ir.operands[x][j])'
    BY <1>1, Zenon DEF OperandsOK
  <2>2. /\ DOMAIN ir.operands[x] = DOMAIN f.operands[x]
        /\ \A j \in DOMAIN f.operands[x] :
             ir.operands[x][j] = f.operands[x][j] \/ Settled(ir.operands[x][j])
    BY <1>1, Zenon DEF OperandsOK
  <2>3. ASSUME NEW j \in DOMAIN f.operands[x], NEW v, v = ir.operands[x][j], Settled(v)
        PROVE  Settled(ir.operands[x][j])'
    <3>1. Settled(v)' BY <1>12, <2>3
    <3>2. v = ir'.operands[x][j] BY <2>1, <2>3
    <3> QED BY <3>1, <3>2, Zenon
  <2> QED BY <2>1, <2>2, <2>3, Zenon
<1>18. StackedOK' /\ WaitOK'
  <2>1. StackedOK' BY <1>1, <1>12, StackedKept
  <2> QED BY <1>1, <2>1 DEF WaitOK
<1> QED BY <1>14, <1>15, <1>16, <1>17, <1>18 DEF ListsOK

LEMMA NextLists == IInv /\ ListsOK /\ [Next]_vars => ListsOK'
<1> SUFFICES ASSUME IInv, ListsOK, [Next]_vars PROVE ListsOK'
  OBVIOUS
<1>1. NextPass \/ UNCHANGED pass BY DEF Next, Rename, Memory0, Memory1, Together, vars
<1>2. CASE UNCHANGED pass BY <1>2, ListsUntouched DEF pass
<1>3. CASE NextPass
  <2>1. CASE NextVar BY <2>1, ListsUntouched DEF NextVar
  <2> QED
    BY <1>3, <2>1, PlacePhisLists, StartRenameLists, PushPhisLists, RenameLoadLists, LoadOfNothingLists,
       RenameStoreLists, SkipInstrLists, FillPhisLists, VisitChildLists, ReturnLists, RemoveAllocasLists,
       Zenon DEF NextPass
<1> QED BY <1>1, <1>2, <1>3

\* What is left at the end has not been renamed.
LEMMA ListsAreExact == IInv /\ ListsOK => UseListsExact
<1> SUFFICES ASSUME IInv, ListsOK, pc = "done",
                    NEW v \in DOMAIN ir.use_list, v \in Instrs \/ v[1] \in {"arg", "const", "bb"}
             PROVE  ir.use_list[v] = UNION {UsesIn(x, ir.operands[x], v) : x \in Instrs}
  BY Zenon DEF UseListsExact
<1>1. Waiting = {} BY DEF IInv, CallsOK, Waiting
<1>2. v \notin Renamed BY <1>1 DEF Renamed, IsLoad
<1>3. Exact(ir, Instrs, v) BY <1>2 DEF ListsOK, UsesOK
<1> QED BY <1>3, Zenon DEF Exact

----
\* Where a value is computed is said by the function and its phis.
LEMMA SameReach ==
  ASSUME f' = f, DOMAIN ir'.operands = DOMAIN ir.operands
  PROVE  /\ \A v, b : ReachesStart(v, b)' <=> ReachesStart(v, b)
         /\ \A v, b : ReachesEnd(v, b)' <=> ReachesEnd(v, b)
         /\ \A v, x, b : Reaches(v, x, b)' <=> Reaches(v, x, b)
<1>1. \A b : PhisOf(b)' = PhisOf(b) BY SamePhis, Zenon
<1>2. \A v, d : ComputedIn(v, d)' <=> ComputedIn(v, d) BY <1>1, Zenon DEF ComputedIn
<1>3. \A v, b : ReachesStart(v, b)' <=> ReachesStart(v, b) BY <1>2, Zenon DEF ReachesStart
<1>4. \A v, b : ReachesEnd(v, b)' <=> ReachesEnd(v, b) BY <1>2, Zenon DEF ReachesEnd
<1>5. \A v, x, b : ComesBefore(v, x, b)' <=> ComesBefore(v, x, b) BY <1>1, Zenon DEF ComesBefore
<1>6. \A v, x, b : Reaches(v, x, b)' <=> Reaches(v, x, b) BY <1>3, <1>5, Zenon DEF Reaches
<1> QED BY <1>3, <1>4, <1>6

\* A phi more is a value more.
LEMMA MoreReach ==
  ASSUME f' = f, DOMAIN ir.operands \subseteq DOMAIN ir'.operands
  PROVE  /\ \A v, b : ReachesStart(v, b) => ReachesStart(v, b)'
         /\ \A v, b : ReachesEnd(v, b) => ReachesEnd(v, b)'
         /\ \A v, x, b : Reaches(v, x, b) => Reaches(v, x, b)'
<1>1. \A b : PhisOf(b) \subseteq PhisOf(b)'
  <2>1. Variables' = Variables BY SameFunction, Zenon
  <2>2. \A v, b : HasPhi(v, b) => HasPhi(v, b)' BY DEF HasPhi
  <2> QED BY <2>1, <2>2 DEF PhisOf
<1>2. \A v, d : ComputedIn(v, d) => ComputedIn(v, d)' BY <1>1 DEF ComputedIn
<1>3. \A v, b : ReachesStart(v, b) => ReachesStart(v, b)' BY <1>2, Zenon DEF ReachesStart
<1>4. \A v, b : ReachesEnd(v, b) => ReachesEnd(v, b)' BY <1>2, Zenon DEF ReachesEnd
<1>5. \A v, x, b : ComesBefore(v, x, b) => ComesBefore(v, x, b)' BY <1>1 DEF ComesBefore
<1>6. \A v, x, b : Reaches(v, x, b) => Reaches(v, x, b)' BY <1>3, <1>5, Zenon DEF Reaches
<1> QED BY <1>3, <1>4, <1>6

\* What reaches a place reaches those it dominates.
LEMMA Further ==
  ASSUME f \in Functions, NEW v, NEW b \in Blocks(f)
  PROVE  /\ ReachesStart(v, b) => ReachesEnd(v, b)
         /\ \A x : Reaches(v, x, b) => ReachesEnd(v, b)
         /\ \A c : ReachesEnd(v, b) /\ Dominates(f, b, c) => ReachesEnd(v, c)
         /\ \A c \in Blocks(f) : ReachesEnd(v, b) /\ StrictlyDominates(f, b, c) => ReachesStart(v, c)
<1>1. ReachesStart(v, b) => ReachesEnd(v, b) BY DEF ReachesStart, ReachesEnd, StrictlyDominates
<1>2. ASSUME NEW x, ComesBefore(v, x, b) PROVE ReachesEnd(v, b)
  <2>1. v \in Range(f.code[b]) \/ v \in PhisOf(b) BY <1>2 DEF ComesBefore, Range
  <2>2. ComputedIn(v, b) /\ Dominates(f, b, b) BY <2>1, Code, DominatesReflexive DEF ComputedIn
  <2> QED BY <2>2 DEF ReachesEnd
<1>3. ASSUME NEW c, ReachesEnd(v, b), Dominates(f, b, c) PROVE ReachesEnd(v, c)
  BY <1>3, DominatesTransitive DEF ReachesEnd
<1>4. ASSUME NEW c \in Blocks(f), ReachesEnd(v, b), StrictlyDominates(f, b, c), IsDef(v)
      PROVE  ReachesStart(v, c)
  <2>1. PICK d \in Blocks(f) : ComputedIn(v, d) /\ Dominates(f, d, b) BY <1>4 DEF ReachesEnd
  <2>2. Dominates(f, d, c) BY <1>4, <2>1, DominatesTransitive DEF StrictlyDominates
  <2>3. d # c BY <1>4, <2>1, Code, DominatesAntisymmetric DEF StrictlyDominates
  <2> QED BY <2>1, <2>2, <2>3 DEF ReachesStart, StrictlyDominates
<1>5. \A c \in Blocks(f) : ReachesEnd(v, b) /\ StrictlyDominates(f, b, c) => ReachesStart(v, c)
  BY <1>4 DEF ReachesStart
<1> QED BY <1>1, <1>2, <1>3, <1>5 DEF Reaches

\* Where an instruction is computed.
LEMMA ComputedAt ==
  ASSUME f \in Functions, NEW b \in Block, NEW x \in Range(f.code[b]),
         NEW d \in Blocks(f), ComputedIn(x, d)
  PROVE  d = b
<1>1. x \in InstrsIn(f) /\ ~IsPhi(x) BY Code, Places
<1>2. x \notin PhisOf(d) BY <1>1, Phis DEF PhisOf
<1> QED BY <1>2, Code, Places DEF ComputedIn

\* What an instruction reads can be read wherever the instruction can.
LEMMA Through ==
  ASSUME f \in Functions, NEW b \in Blocks(f), NEW x \in Range(f.code[b]), IsDef(x),
         NEW v, Reaches(v, x, b)
  PROVE  /\ \A d : ReachesEnd(x, d) => ReachesEnd(v, d)
         /\ \A c \in Blocks(f) : \A y : Reaches(x, y, c) => Reaches(v, y, c)
<1>1. b \in Block /\ Blocks(f) \subseteq Block /\ ReachesEnd(v, b) BY Code, Further
<1>2. ASSUME NEW d, ReachesEnd(x, d) PROVE ReachesEnd(v, d)
  <2>1. PICK c \in Blocks(f) : ComputedIn(x, c) /\ Dominates(f, c, d) BY <1>2 DEF ReachesEnd
  <2>2. c = b BY <1>1, <2>1, ComputedAt
  <2> QED BY <1>1, <2>1, <2>2, Further
<1>3. ASSUME NEW c \in Blocks(f), NEW y, ReachesStart(x, c) PROVE ReachesStart(v, c)
  <2>1. PICK d \in Blocks(f) : ComputedIn(x, d) /\ StrictlyDominates(f, d, c)
    BY <1>3 DEF ReachesStart
  <2>2. d = b BY <1>1, <2>1, ComputedAt
  <2> QED BY <1>1, <2>1, <2>2, Further
<1>4. ASSUME NEW c \in Blocks(f), NEW y, ComesBefore(x, y, c) PROVE Reaches(v, y, c)
  <2>1. ~IsPhi(x) BY <1>1, Code, Places
  <2>2. x \notin PhisOf(c) BY <2>1, Phis DEF PhisOf
  <2>3. PICK i, j \in DOMAIN f.code[c] : i < j /\ f.code[c][i] = x /\ f.code[c][j] = y
    BY <1>4, <2>2 DEF ComesBefore
  <2>4. x \in Range(f.code[c]) BY <2>3 DEF Range
  <2>5. c = b BY <1>1, <2>4, Places
  <2>6. CASE ReachesStart(v, b) BY <2>5, <2>6 DEF Reaches
  <2>7. CASE v \in PhisOf(b) BY <2>5, <2>7 DEF Reaches, ComesBefore
  <2>8. ASSUME NEW m \in DOMAIN f.code[b], NEW n \in DOMAIN f.code[b], m < n,
               f.code[b][m] = v, f.code[b][n] = x
        PROVE  Reaches(v, y, c)
    <3>1. n = i BY <1>1, <2>3, <2>5, <2>8, Code DEF IsInjective
    <3>2. DOMAIN f.code[b] = 1..Len(f.code[b]) /\ Len(f.code[b]) \in Nat BY <1>1, Code
    <3>3. m < j BY <2>3, <2>5, <2>8, <3>1, <3>2
    <3>4. ComesBefore(v, y, b) BY <2>3, <2>5, <2>8, <3>3 DEF ComesBefore
    <3> QED BY <2>5, <3>4 DEF Reaches
  <2> QED BY <2>6, <2>7, <2>8 DEF Reaches, ComesBefore
<1> QED BY <1>2, <1>3, <1>4 DEF Reaches

LEMMA SameKept ==
  ASSUME f' = f, DOMAIN ir'.operands = DOMAIN ir.operands, NEW b, ir'.code[b] = ir.code[b]
  PROVE  Kept(b)' <=> Kept(b)
<1>1. PhisOf(b)' = PhisOf(b) BY SamePhis, Zenon
<1>2. Ordered(b)' <=> Ordered(b) BY OrderKept
<1>3. PhisFirst(b)' <=> PhisFirst(b) BY Zenon DEF PhisFirst
<1> QED BY <1>1, <1>2, <1>3, Zenon DEF Kept

\* A block that loses neither phis nor what others compute with keeps its order.
LEMMA WithoutKept ==
  ASSUME f \in Functions, f' = f, DOMAIN ir'.operands = DOMAIN ir.operands,
         NEW b \in Block, Kept(b), ir.code[b] \in Seq(DOMAIN ir.operands),
         NEW D, \A x \in D : ~IsPhi(x) /\ x[1] \notin {"op", "br", "ret"}, ir'.code[b] = Without(ir.code[b], D)
  PROVE  Kept(b)'
<1>1. PICK s, t, g : s = ir.code[b] /\ t = ir'.code[b] /\ g = f.code[b] OBVIOUS
<1>2. /\ t = Without(s, D) /\ s \in Seq(DOMAIN ir.operands) /\ g \in Seq(InstrsIn(f)) /\ IsInjective(g)
      /\ IsInjective(s)
  BY <1>1, Code DEF Kept
<1>3. /\ t \in Seq(DOMAIN ir.operands) /\ Range(t) = Range(s) \ D /\ IsInjective(t)
      /\ \A m, n \in DOMAIN t : m < n =>
           \E i, k \in DOMAIN s : i < k /\ t[m] = s[i] /\ t[n] = s[k]
  BY <1>2, WithoutKeeps
<1>4. /\ DOMAIN s \subseteq Nat /\ DOMAIN t \subseteq Nat /\ DOMAIN g \subseteq Nat BY <1>2, <1>3
<1>5. PhisOf(b)' = PhisOf(b) BY SamePhis, Zenon
<1>6. \A i, j \in DOMAIN g, m, n \in DOMAIN s : i < j /\ g[i] = s[m] /\ g[j] = s[n] => m < n
  BY <1>1 DEF Kept, Ordered
<1>7. ASSUME NEW i \in DOMAIN g, NEW j \in DOMAIN g, NEW m \in DOMAIN t, NEW n \in DOMAIN t,
             i < j, g[i] = t[m], g[j] = t[n]
      PROVE  m < n
  <2>1. m # n BY <1>2, <1>4, <1>7 DEF IsInjective
  <2>2. ASSUME n < m PROVE FALSE
    <3>1. PICK i1, k1 \in DOMAIN s : i1 < k1 /\ t[n] = s[i1] /\ t[m] = s[k1] BY <1>3, <2>2
    <3>2. k1 < i1 BY <1>6, <1>7, <3>1
    <3> QED BY <1>4, <3>1, <3>2
  <2> QED BY <1>4, <2>1, <2>2
<1>8. Ordered(b)' BY <1>1, <1>7 DEF Ordered
<1>9. \A m, n \in DOMAIN s : m < n /\ IsPhi(s[n]) => IsPhi(s[m]) BY <1>1 DEF Kept, PhisFirst
<1>10. \A m, n \in DOMAIN t : m < n /\ IsPhi(t[n]) => IsPhi(t[m]) BY <1>3, <1>9
<1>11. PhisFirst(b)' BY <1>1, <1>10 DEF PhisFirst
<1>12. /\ PhisOf(b) \subseteq Range(t)
       /\ Range(t) \subseteq Range(g) \cup PhisOf(b)
       /\ \A x \in Range(g) : x[1] \in {"op", "br", "ret"} => x \in Range(t)
  <2>1. \A x \in PhisOf(b) : IsPhi(x) BY Phis DEF PhisOf
  <2> QED BY <1>1, <1>3, <2>1 DEF Kept
<1>13. /\ IsInjective(ir'.code[b])
       /\ PhisOf(b)' \subseteq Range(ir'.code[b])
       /\ Range(ir'.code[b]) \subseteq Range(f'.code[b]) \cup PhisOf(b)'
       /\ \A x \in Range(f'.code[b]) : x[1] \in {"op", "br", "ret"} => x \in Range(ir'.code[b])
  BY <1>1, <1>3, <1>5, <1>12
<1> QED BY <1>8, <1>11, <1>13, Zenon DEF Kept

\* The blocks stay as they are while the walk is in one of them.
LEMMA CodeKept ==
  ASSUME KeptOK, CallsOK, calls # << >>, f' = f, DOMAIN ir'.operands = DOMAIN ir.operands, ir'.code = ir.code,
         calls' = calls \/ \E x : WaitDelete(x) /\ (IsLoad(x) \/ IsStore(x))
  PROVE  KeptOK'
<1>1. \A b \in Block : Kept(b)' BY SameKept DEF KeptOK
<1>2. \A k \in DOMAIN calls : \A x \in calls[k].wait_delete : IsLoad(x) \/ IsStore(x) BY DEF KeptOK
<1>3. CASE calls' = calls BY <1>1, <1>2, <1>3 DEF KeptOK
<1>4. ASSUME NEW x, WaitDelete(x), IsLoad(x) \/ IsStore(x) PROVE KeptOK'
  <2>1. /\ DOMAIN calls' = DOMAIN calls
        /\ \A k \in DOMAIN calls : \A y : y \in calls'[k].wait_delete <=>
              y \in calls[k].wait_delete \/ (k = Len(calls) /\ y = x)
    BY <1>4, MarkedWaits
  <2>2. \A k \in DOMAIN calls' : \A y \in calls'[k].wait_delete : IsLoad(y) \/ IsStore(y)
    BY <1>2, <1>4, <2>1
  <2> QED BY <1>1, <2>2 DEF KeptOK
<1> QED BY <1>3, <1>4

\* What stays readable, in steps that neither call nor return.
LEMMA ReadableOn ==
  ASSUME f \in Functions, bb_ \in Blocks(f), bb_' = bb_, f' = f,
         DOMAIN ir'.operands = DOMAIN ir.operands, ir'.code = ir.code,
         \/ pc = "enter" /\ pc' = "instr"
         \/ pc = "instr" /\ pc' = "instr" /\ line \in Nat /\ line' = line + 1
                         /\ DOMAIN ir.code[bb_] \subseteq Nat
         \/ pc = "instr" /\ pc' \in {"children", "abort"},
         NEW e, Readable(e)
  PROVE  Readable(e)'
<1>1. PICK b, s : b = bb_ /\ s = ir.code[b] OBVIOUS
<1>2. /\ \A x : Reaches(e, x, b)' <=> Reaches(e, x, b)
      /\ ReachesEnd(e, b)' <=> ReachesEnd(e, b)
  BY SameReach, Zenon
<1>3. ReachesEnd(e, b) BY <1>1, Further DEF Readable
<1>4. ~IsLabel(e) /\ pc' # "enter" BY DEF Readable
<1>5. ASSUME pc' = "instr", NEW n \in DOMAIN s, n > line', ~IsPhi(s[n])
      PROVE  Reaches(e, s[n], b)
  <2>1. CASE pc = "enter" BY <1>1, <2>1 DEF Readable, Reaches
  <2>2. CASE pc = "instr"
    <3>1. n > line BY <1>1, <1>5, <2>2
    <3> QED BY <1>1, <1>5, <2>2, <3>1 DEF Readable
  <2> QED BY <1>5, <2>1, <2>2
<1>6. pc' = "instr" => \A n \in DOMAIN s : n > line' /\ ~IsPhi(s[n]) => Reaches(e, s[n], b)'
  BY <1>2, <1>5
<1>7. pc' \in {"instr", "children"} => ReachesEnd(e, b)' BY <1>2, <1>3
<1> QED BY <1>1, <1>4, <1>6, <1>7 DEF Readable

\* A call does not find more than there is.
LEMMA BaseBelow ==
  ASSUME IInv, calls # << >>, NEW base, BaseOK(base), NEW v \in Variables, NEW k \in DOMAIN calls
  PROVE  base[k][v] \in Nat /\ Len(StackOf(v)) \in Nat /\ base[k][v] <= Len(StackOf(v))
<1> DEFINE n == Len(calls)
<1>1. /\ f \in Functions /\ CallsOK /\ StacksOK /\ DOMAIN calls = 1..n /\ n \in Nat /\ n \in 1..n
  BY DEF IInv, CallsOK
<1>2. /\ \A i \in DOMAIN calls : base[i][v] \in Nat
      /\ Len(StackOf(v)) = base[n][v] + Cardinality(Here(v))
      /\ \A j \in 1..(n - 1) : base[n][v] >= base[j][v] + Cardinality(Pushes(calls[j].bb, v))
  <2> HIDE DEF n
  <2>1. base \in [DOMAIN calls -> [Variables -> Nat]] BY DEF BaseOK
  <2>2. \A i \in DOMAIN calls : base[i][v] \in Nat BY <2>1
  <2>3. \A j \in 1..(n - 1) : base[n][v] >= base[j][v] + Cardinality(Pushes(calls[j].bb, v))
    BY <1>1 DEF BaseOK
  <2>4. Len(StackOf(v)) = base[Len(calls)][v] + Cardinality(Here(v)) BY DEF BaseOK
  <2> QED BY <2>2, <2>3, <2>4 DEF n
<1>3. Cardinality(Here(v)) \in Nat /\ Len(StackOf(v)) \in Nat BY <1>1, HereFinite, StackTyped
<1>4. Cardinality(Pushes(calls[k].bb, v)) \in Nat
  <2>1. calls[k].bb \in Blocks(f) BY <1>1, WaitTyped
  <2> QED BY <1>1, <2>1, Code, PushesFinite
<1> HIDE DEF n, StackOf, Here
<1>5. CASE k = n BY <1>1, <1>2, <1>3, <1>5
<1>6. CASE k # n
  <2>1. k \in 1..(n - 1) BY <1>1, <1>6
  <2>2. base[n][v] >= base[k][v] + Cardinality(Pushes(calls[k].bb, v)) BY <1>2, <2>1
  <2> QED BY <1>1, <1>2, <1>3, <1>4, <2>2
<1> QED BY <1>5, <1>6

\* The values of a stack that has got one more.
LEMMA Entries ==
  ASSUME StacksOK, NEW v, NEW x, var_val_stack'[v] = Append(StackOf(v), x), NEW j \in DOMAIN var_val_stack'[v]
  PROVE  \/ v \in Known /\ j \in DOMAIN var_val_stack[v] /\ var_val_stack'[v][j] = var_val_stack[v][j]
         \/ j = Len(StackOf(v)) + 1 /\ var_val_stack'[v][j] = x
<1> DEFINE s == StackOf(v)
           D == DOMAIN ir.use_list
<1>1. s \in Seq(D) BY StackTyped
<1>2. v \in Known \/ s = << >> BY DEF StackOf
<1>3. v \in Known => s = var_val_stack[v] BY DEF StackOf
<1>4. var_val_stack'[v] = Append(s, x) OBVIOUS
<1> HIDE DEF s, D
<1>5. Len(s) \in Nat /\ DOMAIN s = 1..Len(s) /\ DOMAIN Append(s, x) = 1..(Len(s) + 1)
      /\ Append(s, x)[Len(s) + 1] = x /\ \A i \in 1..Len(s) : Append(s, x)[i] = s[i]
  BY <1>1
<1>6. CASE j = Len(s) + 1 BY <1>4, <1>5, <1>6 DEF s
<1>7. CASE j \in 1..Len(s) BY <1>2, <1>3, <1>4, <1>5, <1>7
<1> QED BY <1>4, <1>5, <1>6, <1>7

\* In a block the stacks only grow.
LEMMA WalkedReadable ==
  ASSUME IInv, ReadableOK, BaseKept, calls # << >>, f' = f, DOMAIN ir'.operands = DOMAIN ir.operands,
         DOMAIN calls' = DOMAIN calls, \A k \in DOMAIN calls : calls'[k].bb = calls[k].bb,
         \A v \in Known' : \/ v \in Known /\ var_val_stack'[v] = var_val_stack[v]
                           \/ \E x : var_val_stack'[v] = Append(StackOf(v), x) /\ Readable(x)',
         Known' \subseteq Variables,
         \A e : Readable(e) => Readable(e)'
  PROVE  ReadableOK'
<1>1. StacksOK BY DEF IInv
<1>2. PICK base \in [DOMAIN calls -> [Variables -> Nat]] : BaseOK(base) /\ FoundOK(base)
  BY DEF ReadableOK
<1>3. ASSUME NEW v \in Known', NEW j \in DOMAIN var_val_stack'[v]
      PROVE  /\ \E e : e = var_val_stack'[v][j] /\ Readable(e)'
             /\ \A k \in DOMAIN calls : j <= base[k][v] =>
                  v \in Known /\ j \in DOMAIN var_val_stack[v] /\ var_val_stack'[v][j] = var_val_stack[v][j]
  <2>1. CASE v \in Known /\ var_val_stack'[v] = var_val_stack[v]
    <3>1. PICK e : e = var_val_stack[v][j] OBVIOUS
    <3>2. Readable(e) BY <1>3, <2>1, <3>1 DEF ReadableOK
    <3> QED BY <1>3, <2>1, <3>1, <3>2
  <2>2. ASSUME NEW x, var_val_stack'[v] = Append(StackOf(v), x), Readable(x)'
        PROVE  /\ \E e : e = var_val_stack'[v][j] /\ Readable(e)'
               /\ \A k \in DOMAIN calls : j <= base[k][v] =>
                    v \in Known /\ j \in DOMAIN var_val_stack[v] /\ var_val_stack'[v][j] = var_val_stack[v][j]
    <3>1. \/ v \in Known /\ j \in DOMAIN var_val_stack[v] /\ var_val_stack'[v][j] = var_val_stack[v][j]
          \/ j = Len(StackOf(v)) + 1 /\ var_val_stack'[v][j] = x
      BY <1>1, <1>3, <2>2, Entries
    <3>2. CASE v \in Known /\ j \in DOMAIN var_val_stack[v] /\ var_val_stack'[v][j] = var_val_stack[v][j]
      <4>1. PICK e : e = var_val_stack[v][j] OBVIOUS
      <4>2. Readable(e) BY <3>2, <4>1 DEF ReadableOK
      <4> QED BY <3>2, <4>1, <4>2
    <3>3. CASE j = Len(StackOf(v)) + 1 /\ var_val_stack'[v][j] = x
      <4>1. \A k \in DOMAIN calls : base[k][v] \in Nat /\ Len(StackOf(v)) \in Nat /\ base[k][v] <= Len(StackOf(v))
        BY <1>2, <1>3, BaseBelow
      <4>2. \A k \in DOMAIN calls : ~(j <= base[k][v])
        <5> HIDE DEF StackOf
        <5> QED BY <3>3, <4>1
      <4> QED BY <2>2, <3>3, <4>2
    <3> QED BY <3>1, <3>2, <3>3
  <2> QED BY <1>3, <2>1, <2>2
<1>4. ASSUME NEW k \in DOMAIN calls', NEW v \in Known', NEW j \in DOMAIN var_val_stack'[v], j <= base[k][v]
      PROVE  ReachesStart(var_val_stack[v][j], calls[k].bb)'
  <2>1. v \in Known /\ j \in DOMAIN var_val_stack[v] /\ var_val_stack'[v][j] = var_val_stack[v][j]
        /\ calls'[k].bb = calls[k].bb
    BY <1>3, <1>4
  <2>2. PICK e, b : e = var_val_stack[v][j] /\ b = calls[k].bb OBVIOUS
  <2>3. ReachesStart(e, b) BY <1>2, <1>4, <2>1, <2>2 DEF FoundOK
  <2>4. ReachesStart(e, b)' BY <2>3, SameReach, Zenon
  <2> QED BY <2>1, <2>2, <2>4, Zenon
<1>5. FoundOK(base)' BY <1>4, Zenon DEF FoundOK
<1>6. BaseOK(base)' /\ base \in [DOMAIN calls' -> [Variables' -> Nat]]
  <2>1. BaseOK(base)' BY <1>2 DEF BaseKept
  <2> QED BY <2>1 DEF BaseOK
<1>7. ASSUME NEW v \in Known', NEW j \in DOMAIN var_val_stack'[v] PROVE Readable(var_val_stack[v][j])'
  <2>1. PICK e : e = var_val_stack'[v][j] /\ Readable(e)' BY <1>3
  <2> QED BY <2>1, Zenon
<1> QED BY <1>5, <1>6, <1>7 DEF ReadableOK

LEMMA ReachKept ==
  ASSUME ReachOK, f \in Functions, f' = f, DOMAIN ir.operands \subseteq DOMAIN ir'.operands,
         \A x \in InstrsIn(f) : ir'.operands[x] = ir.operands[x]
  PROVE  ReachOK'
<1> SUFFICES ASSUME NEW b \in Block, NEW x \in Range(f.code[b])
             PROVE  /\ \A i \in DOMAIN ir'.operands[x] : Reaches(ir.operands[x][i], x, b)'
                    /\ IsStore(x) => ~IsLabel(ir'.operands[x][1])
  BY Zenon DEF ReachOK
<1>1. ir'.operands[x] = ir.operands[x] BY Places
<1>2. /\ \A i \in DOMAIN ir.operands[x] : Reaches(ir.operands[x][i], x, b)
      /\ IsStore(x) => ~IsLabel(ir.operands[x][1])
  BY Zenon DEF ReachOK
<1>3. ASSUME NEW i \in DOMAIN ir'.operands[x] PROVE Reaches(ir.operands[x][i], x, b)'
  <2>1. PICK e : e = ir.operands[x][i] OBVIOUS
  <2>2. Reaches(e, x, b) BY <1>1, <1>2, <1>3, <2>1
  <2>3. Reaches(e, x, b)' BY <2>2, MoreReach, Zenon
  <2> QED BY <1>1, <2>1, <2>3, Zenon
<1> QED BY <1>1, <1>2, <1>3

LEMMA PhiReadsKept ==
  ASSUME PhiReadsOK, f' = f, ir'.operands = ir.operands, \A c : Filled(c) => Filled(c)'
  PROVE  PhiReadsOK'
<1>1. /\ Variables' = Variables /\ \A v, b : HasPhi(v, b)' <=> HasPhi(v, b)
  BY SameFunction, SamePhis, Zenon
<1>2. ASSUME NEW ops, NEW b, PhiReads(ops, b) PROVE PhiReads(ops, b)'
  <2> SUFFICES ASSUME NEW i \in DOMAIN ops, IsLabel(ops[i]) PROVE FromPred(ops, i, b)'
    BY DEF PhiReads
  <2>1. FromPred(ops, i, b) BY <1>2 DEF PhiReads
  <2>2. \A v, c : ReachesEnd(v, c)' <=> ReachesEnd(v, c) BY SameReach, Zenon
  <2> QED BY <2>1, <2>2 DEF FromPred
<1> SUFFICES ASSUME NEW v \in Variables, NEW b \in Blocks(f), HasPhi(v, b)
             PROVE  PhiReads(ir.operands[PhiOf(v, b)], b)'
  BY <1>1, Zenon DEF PhiReadsOK
<1>3. PICK ops : ops = ir.operands[PhiOf(v, b)] OBVIOUS
<1>4. PhiReads(ops, b) BY <1>3 DEF PhiReadsOK
<1> QED BY <1>2, <1>3, <1>4, Zenon

\* What has been filled while the walk is in a block.
LEMMA FilledOn ==
  ASSUME pc # "place", pc' # "place", bb_' = bb_, f' = f, DOMAIN calls' = DOMAIN calls,
         \A k \in DOMAIN calls : calls'[k].left = calls[k].left,
         pc' \in {"enter", "instr"} => pc \in {"enter", "instr"}
  PROVE  \A c : Filled(c) => Filled(c)'
<1>1. \A c : Below(c)' <=> Below(c) BY DEF Below
<1> QED BY <1>1 DEF Filled

\* Steps that neither call nor return, nor change an operand.
LEMMA WalkedDom ==
  ASSUME IInv, DomOK, IInv', BaseKept, f' = f, ir' = ir, calls # << >>,
         calls' = calls \/ \E x \in InstrsIn(f) : WaitDelete(x) /\ (IsLoad(x) \/ IsStore(x)),
         \/ pc = "enter" /\ pc' = "instr"
         \/ pc = "instr" /\ pc' = "instr" /\ line' = line + 1
         \/ pc = "instr" /\ pc' = "abort",
         \A v \in Known' : \/ v \in Known /\ var_val_stack'[v] = var_val_stack[v]
                           \/ \E x : var_val_stack'[v] = Append(StackOf(v), x) /\ Readable(x)'
  PROVE  DomOK'
<1>1. /\ KeptOK /\ ReachOK /\ PhiReadsOK /\ ReadableOK /\ f \in Functions /\ CallsOK
      /\ bb_ \in Blocks(f) /\ ir.code[bb_] \in Seq(DOMAIN ir.operands)
  BY AtBlock DEF DomOK, IInv
<1>2. /\ DOMAIN calls' = DOMAIN calls /\ bb_' = bb_
      /\ \A k \in DOMAIN calls : calls'[k].bb = calls[k].bb /\ calls'[k].left = calls[k].left
  BY <1>1, Marked
<1>3. KeptOK' BY <1>1, CodeKept
<1>4. ReachOK' BY <1>1, ReachKept
<1>5. PhiReadsOK'
  <2>1. \A c : Filled(c) => Filled(c)' BY <1>2, FilledOn
  <2> QED BY <1>1, <2>1, PhiReadsKept
<1>6. \A e : Readable(e) => Readable(e)'
  <2>1. DOMAIN ir.code[bb_] \subseteq Nat BY <1>1
  <2>2. pc = "instr" => line \in Nat BY DEF IInv, StacksOK
  <2> QED BY <1>1, <1>2, <2>1, <2>2, ReadableOn
<1>7. Known' \subseteq Variables
  <2>1. Variables' = Variables BY SameFunction, Zenon
  <2> QED BY <2>1 DEF IInv, StacksOK
<1>8. ReadableOK' BY <1>1, <1>2, <1>6, <1>7, WalkedReadable
<1> QED BY <1>3, <1>4, <1>5, <1>8 DEF DomOK

LEMMA SkipInstrDom ==
  ASSUME IInv, DomOK, SkipInstr
  PROVE  DomOK'
<1>1. /\ pc = "instr" /\ pc' = "instr" /\ line' = line + 1
      /\ UNCHANGED <<f, ir, var_val_stack, calls>>
  BY DEF SkipInstr, AtInstr
<1>2. IInv' /\ BaseKept /\ calls # << >> BY <1>1, SkipInstrStep DEF IInv, CallsOK
<1>3. \A v \in Known' : v \in Known /\ var_val_stack'[v] = var_val_stack[v] BY <1>1 DEF Known
<1> QED BY <1>1, <1>2, <1>3, WalkedDom

LEMMA LoadOfNothingDom ==
  ASSUME IInv, DomOK, LoadOfNothing
  PROVE  DomOK'
<1>1. /\ pc = "instr" /\ UNCHANGED <<f, ir, var_val_stack>> /\ IsLoad(instr) /\ line < Len(ir.code[bb_])
      /\ \/ WaitDelete(instr) /\ line' = line + 1 /\ pc' = pc
         \/ pc' = "abort" /\ UNCHANGED <<calls, line>>
  BY DEF LoadOfNothing, AtInstr
<1>2. IInv' /\ BaseKept /\ calls # << >> /\ instr \in InstrsIn(f)
  BY <1>1, LoadOfNothingStep, AtInstrOfBlock DEF IInv, CallsOK, IsLoad, IsPhi
<1>3. \A v \in Known' : v \in Known /\ var_val_stack'[v] = var_val_stack[v] BY <1>1 DEF Known
<1>4. PICK x : x = instr OBVIOUS
<1>5. calls' = calls \/ (WaitDelete(x) /\ IsLoad(x) /\ x \in InstrsIn(f)) BY <1>1, <1>2, <1>4
<1>6. \/ pc = "instr" /\ pc' = "instr" /\ line' = line + 1
      \/ pc = "instr" /\ pc' = "abort"
  BY <1>1
<1> QED BY <1>1, <1>2, <1>3, <1>5, <1>6, WalkedDom

LEMMA PushPhisDom ==
  ASSUME IInv, DomOK, PushPhis
  PROVE  DomOK'
<1> DEFINE names == {Lval(p, << >>) : p \in PhisIn(bb_)}
<1>1. /\ pc = "enter" /\ pc' = "instr" /\ UNCHANGED <<f, ir, calls>>
      /\ var_val_stack' = [v \in Known \cup names |->
           IF v \in names THEN Append(StackOf(v), PhiOf(v, bb_)) ELSE var_val_stack[v]]
  BY Zenon DEF PushPhis
<1>2. IInv' /\ BaseKept /\ calls # << >> /\ f \in Functions /\ bb_ \in Blocks(f) /\ bb_' = bb_
  BY <1>1, PushPhisStep, AtBlock DEF IInv, CallsOK, bb_, this
<1>3. \A v \in names : v \in Variables /\ HasPhi(v, bb_) BY <1>2, AtBlock, Phis DEF PhisIn
<1> HIDE DEF names
<1>4. ASSUME NEW v \in Known'
      PROVE  \/ v \in Known /\ var_val_stack'[v] = var_val_stack[v]
             \/ \E x : var_val_stack'[v] = Append(StackOf(v), x) /\ Readable(x)'
  <2>1. v \in Known \cup names BY <1>1 DEF Known
  <2>2. CASE v \notin names BY <1>1, <2>1, <2>2
  <2>3. CASE v \in names
    <3>1. PICK x, b : x = PhiOf(v, bb_) /\ b = bb_ OBVIOUS
    <3>2. x \in PhisOf(b) /\ ~IsLabel(x) BY <1>3, <2>3, <3>1 DEF PhisOf, PhiOf, IsLabel
    <3>3. \A y : Reaches(x, y, b) BY <3>2 DEF Reaches, ComesBefore
    <3>4. (\A y : Reaches(x, y, b)') /\ ReachesEnd(x, b)'
      <4>1. ReachesEnd(x, b) BY <1>2, <3>1, <3>3, Further
      <4> QED BY <1>1, <3>3, <4>1, SameReach
    <3>5. Readable(x)' BY <1>1, <1>2, <3>1, <3>2, <3>4 DEF Readable
    <3> QED BY <1>1, <2>1, <2>3, <3>1, <3>5
  <2> QED BY <2>2, <2>3
<1> QED BY <1>1, <1>2, <1>4, WalkedDom

\* What reaches an instruction reaches those behind it.
LEMMA Later ==
  ASSUME f \in Functions, NEW b \in Block, NEW i \in DOMAIN f.code[b], NEW j \in DOMAIN f.code[b], i < j,
         NEW v, Reaches(v, f.code[b][i], b)
  PROVE  Reaches(v, f.code[b][j], b)
<1>1. PICK s : s = f.code[b] OBVIOUS
<1>2. s \in Seq(InstrsIn(f)) /\ IsInjective(s) /\ DOMAIN s \subseteq Nat BY <1>1, Code
<1>3. CASE ReachesStart(v, b) \/ v \in PhisOf(b) BY <1>3 DEF Reaches, ComesBefore
<1>4. ASSUME NEW m \in DOMAIN s, NEW n \in DOMAIN s, m < n, s[m] = v, s[n] = s[i]
      PROVE  Reaches(v, f.code[b][j], b)
  <2>1. n = i BY <1>1, <1>2, <1>4 DEF IsInjective
  <2>2. m < j BY <1>1, <1>2, <1>4, <2>1
  <2>3. ComesBefore(v, f.code[b][j], b) BY <1>1, <1>4, <2>2 DEF ComesBefore
  <2> QED BY <2>3 DEF Reaches
<1> QED BY <1>1, <1>3, <1>4 DEF Reaches, ComesBefore

LEMMA InOrder ==
  ASSUME f \in Functions, NEW b \in Block, Kept(b), ir.code[b] \in Seq(DOMAIN ir.operands),
         NEW m \in DOMAIN ir.code[b], NEW n \in DOMAIN ir.code[b], m < n,
         ir.code[b][m] \in Range(f.code[b]), ir.code[b][n] \in Range(f.code[b])
  PROVE  \E i, j \in DOMAIN f.code[b] : i < j /\ f.code[b][i] = ir.code[b][m] /\ f.code[b][j] = ir.code[b][n]
<1>1. PICK g, s : g = f.code[b] /\ s = ir.code[b] OBVIOUS
<1>2. PICK i \in DOMAIN g, j \in DOMAIN g : g[i] = s[m] /\ g[j] = s[n] BY <1>1 DEF Range
<1>3. /\ DOMAIN g \subseteq Nat /\ DOMAIN s \subseteq Nat BY <1>1, Code
<1>4. i # j BY <1>1, <1>2, <1>3 DEF Kept, IsInjective
<1>5. ASSUME j < i PROVE FALSE
  <2>1. n < m BY <1>1, <1>2, <1>5 DEF Kept, Ordered
  <2> QED BY <1>1, <1>3, <2>1
<1>6. i < j BY <1>3, <1>4, <1>5
<1> QED BY <1>1, <1>2, <1>6

LEMMA RenameStoreDom ==
  ASSUME IInv, DomOK, RenameStore
  PROVE  DomOK'
<1>1. /\ pc = "instr" /\ pc' = "instr" /\ line < Len(ir.code[bb_]) /\ line' = line + 1
      /\ UNCHANGED <<f, ir>> /\ WaitDelete(instr) /\ IsStore(instr)
      /\ var_val_stack' = [v \in Known \cup {lval} |->
           IF v = lval THEN Append(StackOf(v), ir.operands[instr][1]) ELSE var_val_stack[v]]
  BY DEF RenameStore, AtInstr
<1>2. /\ IInv' /\ BaseKept /\ calls # << >> /\ f \in Functions /\ CallsOK /\ IrOK /\ line \in Nat
      /\ KeptOK /\ ReachOK /\ bb_ \in Blocks(f) /\ bb_ \in Block
      /\ instr \in InstrsIn(f) /\ instr \in Range(f.code[bb_])
      /\ ir.code[bb_] \in Seq(DOMAIN ir.operands) /\ line + 1 \in 1..Len(ir.code[bb_])
  BY <1>1, RenameStoreStep, AtInstrOfBlock, AtBlock DEF IInv, CallsOK, DomOK, IsStore, IsPhi
<1>3. PICK b, s, x, value : b = bb_ /\ s = ir.code[b] /\ x = instr /\ value = ir.operands[x][1]
  OBVIOUS
<1>4. /\ bb_' = b /\ DOMAIN s = 1..Len(s) /\ Len(s) \in Nat /\ s[line + 1] = x /\ line + 1 \in DOMAIN s
  BY <1>1, <1>2, <1>3, Marked DEF instr
<1>5. Reaches(value, x, b) /\ ~IsLabel(value)
  <2>1. 1 \in DOMAIN ir.operands[x]
    <3>1. Len(ir.operands[x]) = 2 /\ ir.operands[x] \in Seq(DOMAIN ir.use_list)
      BY <1>1, <1>2, <1>3 DEF IrOK
    <3> QED BY <3>1
  <2> QED BY <1>1, <1>2, <1>3, <2>1 DEF ReachOK
<1>6. ASSUME NEW n \in DOMAIN s, n > line + 1, ~IsPhi(s[n]) PROVE Reaches(value, s[n], b)
  <2>1. s[n] \in Range(s) BY DEF Range
  <2>2. s[n] \in Range(f.code[b]) BY <1>2, <1>3, <1>6, <2>1, AtBlock
  <2>3. PICK i, j \in DOMAIN f.code[b] : i < j /\ f.code[b][i] = s[line + 1] /\ f.code[b][j] = s[n]
    <3>1. Kept(b) /\ line + 1 < n BY <1>2, <1>3, <1>4, <1>6 DEF KeptOK
    <3> QED BY <1>2, <1>3, <1>4, <2>2, <3>1, InOrder
  <2>4. Reaches(value, f.code[b][i], b) BY <1>4, <1>5, <2>3
  <2>5. Reaches(value, f.code[b][j], b) BY <1>2, <1>3, <2>3, <2>4, Later
  <2> QED BY <2>3, <2>5
<1>7. Readable(value)'
  <2>1. ReachesEnd(value, b) BY <1>2, <1>3, <1>5, Further
  <2>2. /\ ReachesEnd(value, b)'
        /\ \A n \in DOMAIN s : n > line + 1 /\ ~IsPhi(s[n]) => Reaches(value, s[n], b)'
    BY <1>1, <1>6, <2>1, SameReach
  <2> QED BY <1>1, <1>3, <1>4, <1>5, <2>2 DEF Readable
<1>8. ASSUME NEW v \in Known'
      PROVE  \/ v \in Known /\ var_val_stack'[v] = var_val_stack[v]
             \/ \E y : var_val_stack'[v] = Append(StackOf(v), y) /\ Readable(y)'
  <2>1. v \in Known \cup {lval} BY <1>1 DEF Known
  <2>2. CASE v = lval
    <3>1. var_val_stack'[v] = Append(StackOf(v), value) BY <1>1, <1>3, <2>1, <2>2
    <3> QED BY <1>7, <3>1
  <2>3. CASE v # lval BY <1>1, <2>1, <2>3
  <2> QED BY <2>2, <2>3
<1>9. WaitDelete(x) /\ x \in InstrsIn(f) /\ IsStore(x) BY <1>1, <1>2, <1>3
<1> QED BY <1>1, <1>2, <1>8, <1>9, WalkedDom

\* The newest value of a variable is on its stack.
LEMMA NewestStacked ==
  ASSUME StacksOK, NEW v \in Known, var_val_stack[v] # << >>
  PROVE  \E j \in DOMAIN var_val_stack[v] : Newest(v) = var_val_stack[v][j]
<1> DEFINE D == DOMAIN ir.use_list
           s == var_val_stack[v]
<1>1. s \in Seq(D) /\ s # << >> BY DEF StacksOK
<1> HIDE DEF D, s
<1>2. Len(s) \in DOMAIN s BY <1>1
<1>3. Newest(v) = s[Len(s)] BY DEF Newest, Last, s
<1> QED BY <1>2, <1>3 DEF s

\* A load is replaced by the value where it is read and nothing else is.
LEMMA Substituted ==
  ASSUME IInv, ListsOK, RenameLoad, NEW x, x = instr, NEW value, value = Newest(lval)
  PROVE  /\ ir'.code = ir.code /\ DOMAIN ir'.operands = DOMAIN ir.operands
         /\ \A y \in DOMAIN ir.operands :
              /\ DOMAIN ir'.operands[y] = DOMAIN ir.operands[y]
              /\ \A i \in DOMAIN ir.operands[y] :
                   \/ ir'.operands[y][i] = ir.operands[y][i]
                   \/ ir.operands[y][i] = x /\ ir'.operands[y][i] = value
<1>1. /\ pc = "instr" /\ pc' = "instr" /\ line < Len(ir.code[bb_]) /\ line' = line + 1
      /\ f' = f /\ ir' = ReplaceAllUseWith(ir, x, value) /\ WaitDelete(x) /\ IsLoad(x) /\ ~IsPhi(x)
  BY DEF RenameLoad, AtInstr, IsLoad, IsPhi
<1>2. IsData(ir) /\ IrOK /\ CodeOK /\ WaitOK /\ UsesOK BY DEF IInv, IrOK, ListsOK, IsData
<1>3. /\ ir'.code = ir.code
      /\ DOMAIN ir'.operands = DOMAIN ir.operands /\ DOMAIN ir'.use_list = DOMAIN ir.use_list
      /\ \A y \in DOMAIN ir.operands : DOMAIN ir'.operands[y] = DOMAIN ir.operands[y]
      /\ \A y \in DOMAIN ir.operands : \A i \in DOMAIN ir.operands[y] :
           /\ <<y, i>> \in ir.use_list[x] => ir'.operands[y][i] = value
           /\ <<y, i>> \notin ir.use_list[x] => ir'.operands[y][i] = ir.operands[y][i]
  BY <1>1, <1>2, Replaced
<1>4. x \in Instrs /\ x \in InstrsIn(f) /\ x \notin Waiting BY <1>1, <1>2, <1>3, MarkedLists
<1>5. x \in DOMAIN ir.use_list /\ x \notin Renamed BY <1>2, <1>4 DEF Renamed, IrOK
<1>6. ASSUME NEW y, NEW i, <<y, i>> \in ir.use_list[x] PROVE ir.operands[y][i] = x
  <2>1. PICK g : g = ir OBVIOUS
  <2>2. Exact(g, Instrs, x) BY <1>2, <1>5, <2>1 DEF UsesOK
  <2>3. \A u \in g.use_list[x] : \E z \in Instrs : \E k \in DOMAIN g.operands[z] :
          u = <<z, k>> /\ g.operands[z][k] = x
    BY <2>2, ExactMeans
  <2>4. PICK z \in Instrs : \E k \in DOMAIN g.operands[z] : <<y, i>> = <<z, k>> /\ g.operands[z][k] = x
    BY <1>6, <2>1, <2>3
  <2> QED BY <2>1, <2>4
<1> QED BY <1>3, <1>6

LEMMA RenameLoadDom ==
  ASSUME IInv, ListsOK, DomOK, RenameLoad
  PROVE  DomOK'
<1>1. /\ pc = "instr" /\ pc' = "instr" /\ line < Len(ir.code[bb_]) /\ line' = line + 1
      /\ UNCHANGED <<f, var_val_stack>>
      /\ IsLoad(instr) /\ lval \in Known /\ var_val_stack[lval] # << >> /\ WaitDelete(instr)
  BY DEF RenameLoad, AtInstr
<1>2. /\ IInv' /\ BaseKept /\ calls # << >> /\ f \in Functions /\ CallsOK /\ IrOK /\ StacksOK /\ line \in Nat
      /\ KeptOK /\ ReachOK /\ PhiReadsOK /\ ReadableOK /\ bb_ \in Blocks(f) /\ bb_ \in Block
      /\ instr \in InstrsIn(f) /\ instr \in Range(f.code[bb_])
      /\ ir.code[bb_] \in Seq(DOMAIN ir.operands) /\ line + 1 \in 1..Len(ir.code[bb_])
  BY <1>1, RenameLoadStep, AtInstrOfBlock, AtBlock DEF IInv, CallsOK, DomOK, IsLoad, IsPhi
<1>3. PICK b, x, value : b = bb_ /\ x = instr /\ value = Newest(lval) OBVIOUS
<1>4. /\ IsDef(x) /\ ~IsLabel(x) /\ ~IsPhi(x) /\ IsLoad(x) /\ WaitDelete(x) /\ x \in InstrsIn(f)
      /\ b \in Blocks(f) /\ b \in Block /\ x \in Range(f.code[b])
  BY <1>1, <1>2, <1>3 DEF IsLoad, IsDef, IsLabel, IsPhi
<1>5. Reaches(value, x, b) /\ ~IsLabel(value)
  <2>1. PICK j \in DOMAIN var_val_stack[lval] : value = var_val_stack[lval][j]
    BY <1>1, <1>2, <1>3, NewestStacked
  <2>2. Readable(value) BY <1>1, <1>2, <2>1 DEF ReadableOK
  <2>3. line + 1 > line /\ line + 1 \in DOMAIN ir.code[bb_] BY <1>2
  <2> QED BY <1>1, <1>3, <1>4, <2>2, <2>3 DEF Readable, instr
<1>6. /\ ir'.code = ir.code /\ DOMAIN ir'.operands = DOMAIN ir.operands
      /\ \A y \in DOMAIN ir.operands :
           /\ DOMAIN ir'.operands[y] = DOMAIN ir.operands[y]
           /\ \A i \in DOMAIN ir.operands[y] :
                \/ ir'.operands[y][i] = ir.operands[y][i]
                \/ ir.operands[y][i] = x /\ ir'.operands[y][i] = value
  BY <1>3, Substituted
<1>7. /\ \A v, c : ReachesEnd(v, c)' <=> ReachesEnd(v, c)
      /\ \A v, y, c : Reaches(v, y, c)' <=> Reaches(v, y, c)
  BY <1>1, <1>6, SameReach
<1>8. /\ \A d : ReachesEnd(x, d) => ReachesEnd(value, d)
      /\ \A c \in Blocks(f) : \A y : Reaches(x, y, c) => Reaches(value, y, c)
  BY <1>2, <1>4, <1>5, Through
<1>9. /\ DOMAIN calls' = DOMAIN calls /\ bb_' = bb_
      /\ \A k \in DOMAIN calls : calls'[k].bb = calls[k].bb /\ calls'[k].left = calls[k].left
  BY <1>2, <1>4, Marked
<1>10. KeptOK' BY <1>1, <1>2, <1>4, <1>6, CodeKept
<1>11. ReachOK'
  <2> SUFFICES ASSUME NEW c \in Block, NEW y \in Range(f.code[c])
               PROVE  /\ \A i \in DOMAIN ir'.operands[y] : Reaches(ir.operands[y][i], y, c)'
                      /\ IsStore(y) => ~IsLabel(ir'.operands[y][1])
    BY <1>1, Zenon DEF ReachOK
  <2>1. c \in Blocks(f) /\ y \in InstrsIn(f) /\ y \in DOMAIN ir.operands
    BY <1>2, Stored, Places, Code DEF IrOK, Range
  <2>2. /\ \A i \in DOMAIN ir.operands[y] : Reaches(ir.operands[y][i], y, c)
        /\ IsStore(y) => ~IsLabel(ir.operands[y][1])
    BY <1>2, Zenon DEF ReachOK
  <2>3. ASSUME NEW i \in DOMAIN ir'.operands[y] PROVE Reaches(ir.operands[y][i], y, c)'
    <3>1. PICK e : e = ir'.operands[y][i] OBVIOUS
    <3>2. Reaches(e, y, c) BY <1>6, <1>8, <2>1, <2>2, <2>3, <3>1
    <3>3. Reaches(e, y, c)' BY <1>7, <3>2
    <3> QED BY <3>1, <3>3, Zenon
  <2>4. ASSUME IsStore(y) PROVE ~IsLabel(ir'.operands[y][1])
    <3>1. Len(ir.operands[y]) = 2 /\ ir.operands[y] \in Seq(DOMAIN ir.use_list)
      BY <1>2, <2>1, <2>4 DEF IrOK
    <3>2. 1 \in DOMAIN ir.operands[y] BY <3>1
    <3> QED BY <1>5, <1>6, <2>1, <2>2, <2>4, <3>2
  <2> QED BY <2>3, <2>4
<1>12. PhiReadsOK'
  <2>1. \A c : Filled(c) => Filled(c)' BY <1>1, <1>9, FilledOn
  <2>2. /\ Variables' = Variables /\ \A v, c : HasPhi(v, c)' <=> HasPhi(v, c)
    BY <1>1, <1>6, SameFunction, SamePhis, Zenon
  <2> SUFFICES ASSUME NEW v \in Variables, NEW c \in Blocks(f), HasPhi(v, c)
               PROVE  PhiReads(ir.operands[PhiOf(v, c)], c)'
    BY <1>1, <2>2, Zenon DEF PhiReadsOK
  <2>3. PICK ops, ops1 : ops = ir.operands[PhiOf(v, c)] /\ ops1 = ir'.operands[PhiOf(v, c)] OBVIOUS
  <2>4. PhiReads(ops, c) BY <1>2, <2>3 DEF PhiReadsOK
  <2>5. /\ DOMAIN ops1 = DOMAIN ops
        /\ \A i \in DOMAIN ops : ops1[i] = ops[i] \/ (ops[i] = x /\ ops1[i] = value)
    BY <1>6, <2>3 DEF HasPhi
  <2>6. ASSUME NEW i \in DOMAIN ops1, IsLabel(ops1[i]) PROVE FromPred(ops1, i, c)'
    <3>1. i \in DOMAIN ops /\ ops1[i] = ops[i] BY <1>5, <2>5, <2>6
    <3>2. FromPred(ops, i, c) BY <2>4, <2>6, <3>1 DEF PhiReads
    <3>3. /\ ops[i] \in PredsOf(f, c) /\ Filled(ops[i])
          /\ i - 1 \in DOMAIN ops /\ ReachesEnd(ops[i - 1], ops[i])
          /\ \A j \in DOMAIN ops : ops[j] = ops[i] => j = i
      BY <3>2 DEF FromPred
    <3>4. ReachesEnd(ops1[i - 1], ops[i]) BY <1>8, <2>5, <3>3
    <3>5. \A j \in DOMAIN ops1 : ops1[j] = ops1[i] => j = i BY <1>5, <2>5, <2>6, <3>1, <3>3
    <3>6. ReachesEnd(ops1[i - 1], ops1[i])' /\ Filled(ops1[i])' BY <1>7, <2>1, <3>1, <3>3, <3>4
    <3> QED BY <1>1, <2>5, <3>1, <3>3, <3>5, <3>6 DEF FromPred
  <2>7. PhiReads(ops1, c)' BY <2>6 DEF PhiReads
  <2> QED BY <2>3, <2>7, Zenon
<1>13. ReadableOK'
  <2>1. \A e : Readable(e) => Readable(e)'
    <3>1. DOMAIN ir.code[bb_] \subseteq Nat BY <1>2
    <3> QED BY <1>1, <1>2, <1>6, <1>9, <3>1, ReadableOn
  <2>2. Known' = Known /\ Known \subseteq Variables BY <1>1, <1>2 DEF Known, StacksOK
  <2> QED BY <1>1, <1>2, <1>6, <1>9, <2>1, <2>2, WalkedReadable
<1> QED BY <1>10, <1>11, <1>12, <1>13 DEF DomOK

LEMMA FillPhisDom ==
  ASSUME IInv, ListsOK, DomOK, FillPhis
  PROVE  DomOK'
<1> DEFINE vs == [p \in ToFill |-> <<Newest(Lval(p, << >>)), bb_>>]
<1>1. /\ pc = "instr" /\ UNCHANGED <<f, var_val_stack, calls, line>>
      /\ \/ pc' = "abort" /\ UNCHANGED ir
         \/ /\ ~ \E p \in ToFill : var_val_stack[Lval(p, << >>)] = << >>
            /\ ir' = AddOperands(ir, vs) /\ pc' = "children"
  BY DEF FillPhis
<1>2. /\ IInv' /\ BaseKept /\ calls # << >> /\ f \in Functions /\ CallsOK /\ IrOK /\ StacksOK
      /\ KeptOK /\ ReachOK /\ PhiReadsOK /\ ReadableOK /\ bb_ \in Blocks(f) /\ bb_ \in Block /\ bb_' = bb_
  BY <1>1, FillPhisStep, AtBlock DEF IInv, CallsOK, DomOK, bb_, this
<1>3. Known' = Known /\ Known \subseteq Variables /\ \A v \in Known : var_val_stack'[v] = var_val_stack[v]
  BY <1>1, <1>2 DEF Known, StacksOK
<1>4. CASE pc' = "abort" /\ UNCHANGED ir BY <1>1, <1>2, <1>3, <1>4, WalkedDom
<1>5. CASE /\ ~ \E p \in ToFill : var_val_stack[Lval(p, << >>)] = << >>
           /\ ir' = AddOperands(ir, vs) /\ pc' = "children"
  <2>1. \A p \in ToFill : IsPhi(p) /\ Lval(p, << >>) \in Known BY DEF ToFill, PhisIn
  <2>2. DOMAIN vs = ToFill OBVIOUS
  <2>3. \A p \in ToFill : vs[p] = <<Newest(Lval(p, << >>)), bb_>> OBVIOUS
  <2> HIDE DEF vs
  <2> DEFINE uses(x, v) == {<<x, Len(ir.operands[x]) + use[2]>> : use \in UsesIn(x, vs[x], v)}
  <2>4. /\ ir'.code = ir.code
        /\ ir'.operands = [x \in DOMAIN ir.operands |-> IF x \in ToFill THEN ir.operands[x] \o vs[x]
                                                        ELSE ir.operands[x]]
    BY <1>2, <1>5, <2>2 DEF AddOperands, IrOK
  <2>5. /\ DOMAIN ir'.operands = DOMAIN ir.operands
        /\ \A x \in InstrsIn(f) : ir'.operands[x] = ir.operands[x]
    BY <1>2, <2>1, <2>4, Code DEF IrOK
  <2>6. KeptOK' BY <1>1, <1>2, <2>4, <2>5, CodeKept
  <2>7. ReachOK' BY <1>1, <1>2, <2>5, ReachKept
  <2>8. \A c : Filled(c) => Filled(c)' BY <1>1, <1>2, <1>5, FilledOn
  <2>9. PICK b : b = bb_ OBVIOUS
  <2>10. Filled(b)' /\ ~Filled(b) /\ IsLabel(b)
    <3>1. ~Below(b) BY <1>2, <2>9, Code, DominatesReflexive, NotBelow
    <3>2. ~Below(b)' BY <1>1, <3>1 DEF Below
    <3> QED BY <1>1, <1>2, <1>5, <2>9, <3>2, BlockAssumption DEF Filled, IsLabel
  <2>11. \A v, c : ReachesEnd(v, c)' <=> ReachesEnd(v, c) BY <1>1, <2>5, SameReach
  <2>12. PhiReadsOK'
    <3>1. /\ Variables' = Variables /\ \A v, c : HasPhi(v, c)' <=> HasPhi(v, c)
      BY <1>1, <2>5, SameFunction, SamePhis, Zenon
    <3> SUFFICES ASSUME NEW v \in Variables, NEW c \in Blocks(f), HasPhi(v, c)
                 PROVE  PhiReads(ir.operands[PhiOf(v, c)], c)'
      BY <1>1, <3>1, Zenon DEF PhiReadsOK
    <3>2. PICK p, ops, ops1 : p = PhiOf(v, c) /\ ops = ir.operands[p] /\ ops1 = ir'.operands[p]
      OBVIOUS
    <3>3. PhiReads(ops, c) /\ p \in DOMAIN ir.operands /\ ops \in Seq(DOMAIN ir.use_list)
      BY <1>2, <3>2 DEF PhiReadsOK, HasPhi, IrOK
    <3>4. CASE p \notin ToFill
      <4>1. ops1 = ops BY <2>4, <3>2, <3>3, <3>4
      <4>2. ASSUME NEW i \in DOMAIN ops1, IsLabel(ops1[i]) PROVE FromPred(ops1, i, c)'
        <5>1. FromPred(ops1, i, c) BY <3>3, <4>1, <4>2 DEF PhiReads
        <5> QED BY <1>1, <2>8, <2>11, <5>1 DEF FromPred
      <4>3. PhiReads(ops1, c)' BY <4>2 DEF PhiReads
      <4> QED BY <3>2, <4>3, Zenon
    <3>5. CASE p \in ToFill
      <4>1. PICK e : e = Newest(v) OBVIOUS
      <4>2. /\ Lval(p, << >>) = v /\ v \in Known /\ ops1 = ops \o <<e, b>>
        <5>1. Lval(p, << >>) = v BY <3>2, Phis
        <5>2. vs[p] = <<e, b>> BY <2>3, <2>9, <3>5, <4>1, <5>1
        <5>3. ir'.operands[p] = ir.operands[p] \o vs[p] BY <2>4, <3>3, <3>5
        <5> QED BY <2>1, <3>2, <3>5, <5>1, <5>2, <5>3
      <4>3. b \in PredsOf(f, c)
        <5>1. PICK d \in Succs(bb_) : p \in PhisIn(d) BY <3>5 DEF ToFill
        <5>2. d \in SuccOf(f, bb_) /\ d \in Blocks(f) /\ d \in Block
          BY <1>2, <5>1, Code DEF EdgesInside
        <5>3. p \in Range(f.code[d]) \cup PhisOf(d) /\ IsPhi(p)
          BY <1>2, <5>1, <5>2 DEF KeptOK, Kept, PhisIn
        <5>4. p \in PhisOf(d) BY <1>2, <5>2, <5>3, Code, Places
        <5>5. d = c BY <3>2, <5>4, Phis DEF PhisOf
        <5> QED BY <1>2, <2>9, <5>2, <5>5 DEF PredsOf
      <4>4. ~IsLabel(e) /\ ReachesEnd(e, b)
        <5>1. var_val_stack[v] # << >> BY <1>5, <3>5, <4>2
        <5>2. PICK j \in DOMAIN var_val_stack[v] : e = var_val_stack[v][j]
          BY <1>2, <4>1, <4>2, <5>1, NewestStacked
        <5>3. Readable(e) BY <1>2, <4>2, <5>2 DEF ReadableOK
        <5> QED BY <1>1, <2>9, <5>3 DEF Readable
      <4> DEFINE L == Len(ops)
      <4>5. /\ L \in Nat /\ DOMAIN ops = 1..L /\ DOMAIN ops1 = 1..(L + 2)
            /\ \A i \in DOMAIN ops : i \in DOMAIN ops1 /\ ops1[i] = ops[i]
            /\ ops1[L + 1] = e /\ ops1[L + 2] = b
        BY <3>3, <4>2, TwoMore
      <4> HIDE DEF L
      <4>6. \A i \in DOMAIN ops1 : i \in DOMAIN ops \/ i = L + 1 \/ i = L + 2 BY <4>5
      <4>7. \A i \in DOMAIN ops : IsLabel(ops[i]) => FromPred(ops, i, c) /\ ops[i] # b
        BY <2>10, <3>3 DEF PhiReads, FromPred
      <4>8. ASSUME NEW i \in DOMAIN ops1, IsLabel(ops1[i]) PROVE FromPred(ops1, i, c)'
        <5>1. CASE i \in DOMAIN ops
          <6>1. IsLabel(ops[i]) /\ ops1[i] = ops[i] /\ ops[i] # b BY <4>5, <4>7, <4>8, <5>1
          <6>2. /\ ops[i] \in PredsOf(f, c) /\ Filled(ops[i])
                /\ i - 1 \in DOMAIN ops /\ ReachesEnd(ops[i - 1], ops[i])
                /\ \A j \in DOMAIN ops : ops[j] = ops[i] => j = i
            BY <4>7, <5>1, <6>1 DEF FromPred
          <6>3. i - 1 \in DOMAIN ops1 /\ ops1[i - 1] = ops[i - 1] BY <4>5, <6>2
          <6>4. \A j \in DOMAIN ops1 : ops1[j] = ops1[i] => j = i BY <4>4, <4>5, <4>6, <6>1, <6>2
          <6> QED BY <1>1, <2>8, <2>11, <6>1, <6>2, <6>3, <6>4 DEF FromPred
        <5>2. CASE i = L + 1 BY <4>4, <4>5, <4>8, <5>2
        <5>3. CASE i = L + 2
          <6>1. i - 1 = L + 1 /\ i - 1 \in DOMAIN ops1 BY <4>5, <5>3
          <6>2. ops1[i] = b /\ ops1[i - 1] = e BY <4>5, <5>3, <6>1
          <6>3. ASSUME NEW j \in DOMAIN ops1, ops1[j] = b PROVE j = i
            <7>1. j \notin DOMAIN ops BY <2>10, <4>5, <4>7, <6>3
            <7>2. j # L + 1 BY <2>10, <4>4, <4>5, <6>3
            <7> QED BY <4>6, <5>3, <7>1, <7>2
          <6>4. ReachesEnd(e, b)' BY <2>11, <4>4
          <6> QED BY <1>1, <2>10, <4>3, <6>1, <6>2, <6>3, <6>4 DEF FromPred
        <5> QED BY <4>6, <5>1, <5>2, <5>3
      <4>9. PhiReads(ops1, c)' BY <4>8 DEF PhiReads
      <4> QED BY <3>2, <4>9, Zenon
    <3> QED BY <3>4, <3>5
  <2>13. ReadableOK'
    <3>1. \A e : Readable(e) => Readable(e)' BY <1>1, <1>2, <1>5, <2>4, <2>5, ReadableOn
    <3> QED BY <1>1, <1>2, <1>3, <2>5, <3>1, WalkedReadable
  <2> QED BY <2>6, <2>7, <2>12, <2>13 DEF DomOK
<1> QED BY <1>1, <1>4, <1>5

\* What is above a block reaches the start of a child of it.
LEMMA VisitChildDom ==
  ASSUME IInv, DomOK, VisitChild
  PROVE  DomOK'
<1> DEFINE n == Len(calls)
<1>1. /\ pc = "children" /\ pc' = "enter" /\ UNCHANGED <<f, ir, var_val_stack>> BY DEF VisitChild
<1>2. PICK c \in this.left : calls' = Append([calls EXCEPT ![n].left = @ \ {c}], Call(c))
  BY DEF VisitChild
<1>3. /\ calls # << >> /\ f \in Functions /\ CallsOK /\ StacksOK /\ IInv'
      /\ KeptOK /\ ReachOK /\ PhiReadsOK /\ ReadableOK /\ bb_ \in Blocks(f)
  BY <1>1, VisitChildStep, AtBlock DEF IInv, CallsOK, DomOK
<1>4. n \in Nat /\ DOMAIN calls = 1..n /\ n \in DOMAIN calls /\ n + 1 \notin 1..n
  BY <1>3 DEF CallsOK
<1>5. c \in calls[n].left /\ bb_ = calls[n].bb /\ c \in Blocks(f) /\ IsIdom(f, bb_, c)
  <2>1. c \in calls[n].left /\ bb_ = calls[n].bb BY DEF this, bb_
  <2> QED BY <1>3, <1>4, <2>1 DEF CallsOK, Children
<1>6. /\ Len(calls') = n + 1 /\ DOMAIN calls' = 1..(n + 1)
      /\ \A k \in 1..n :
           /\ calls'[k].bb = calls[k].bb /\ calls'[k].wait_delete = calls[k].wait_delete
           /\ calls'[k].left = IF k = n THEN calls[k].left \ {c} ELSE calls[k].left
      /\ calls'[n + 1] = [bb |-> c, wait_delete |-> {}, left |-> Children(c)]
  BY <1>2, <1>3, <1>4, <1>5, Visited, Zenon
<1>7. /\ calls'[n + 1].bb = c /\ calls'[n + 1].wait_delete = {} /\ calls'[n + 1].left = Children(c) /\ bb_' = c
  BY <1>6 DEF bb_, this
<1> HIDE DEF n
<1>8. \A k \in 1..(n + 1) : k \in 1..n \/ k = n + 1 BY <1>4
<1>9. KeptOK'
  <2>1. \A b \in Block : Kept(b)' BY <1>1, <1>3, SameKept DEF KeptOK
  <2>2. \A k \in 1..n : \A x \in calls[k].wait_delete : IsLoad(x) \/ IsStore(x)
    BY <1>3, <1>4 DEF KeptOK
  <2>3. \A k \in DOMAIN calls' : \A x \in calls'[k].wait_delete : IsLoad(x) \/ IsStore(x)
    BY <1>6, <1>7, <1>8, <2>2
  <2> QED BY <2>1, <2>3 DEF KeptOK
<1>10. ReachOK' BY <1>1, <1>3, ReachKept
<1>11. PhiReadsOK'
  <2>1. ASSUME NEW d, Below(d)' PROVE Below(d)
    <3>1. PICK k \in 1..(n + 1) : \E e \in calls'[k].left : Dominates(f, e, d)
      BY <1>1, <1>6, <2>1 DEF Below
    <3>2. CASE k \in 1..n BY <1>4, <1>6, <3>1, <3>2 DEF Below
    <3>3. CASE k = n + 1
      <4>1. PICK e \in Children(c) : Dominates(f, e, d) BY <1>7, <3>1, <3>3
      <4>2. Dominates(f, c, d) BY <4>1, DominatesTransitive DEF Children, IsIdom, StrictlyDominates
      <4> QED BY <1>4, <1>5, <4>2 DEF Below
    <3> QED BY <1>8, <3>2, <3>3
  <2>2. Below(c) BY <1>3, <1>4, <1>5, Code, DominatesReflexive DEF Below
  <2>3. \A d : Filled(d) => Filled(d)' BY <1>1, <1>7, <2>1, <2>2 DEF Filled
  <2> QED BY <1>1, <1>3, <2>3, PhiReadsKept
<1>12. \A e : Readable(e) => ~IsLabel(e) /\ ReachesStart(e, c)
  <2>1. StrictlyDominates(f, bb_, c) BY <1>5 DEF IsIdom
  <2>2. \A e : Readable(e) => ~IsLabel(e) /\ ReachesEnd(e, bb_) BY <1>1 DEF Readable
  <2> QED BY <1>3, <1>5, <2>1, <2>2, Further
<1>13. PICK base : BaseOK(base) /\ FoundOK(base) BY <1>3 DEF ReadableOK
<1>14. PICK next : /\ BaseOK(next)'
                   /\ \A v \in Variables : \A k \in DOMAIN calls : next[k][v] = base[k][v]
  BY <1>13, VisitChildFrom
<1>15. \A v, b : ReachesStart(v, b)' <=> ReachesStart(v, b) BY <1>1, SameReach
<1>16. Known' = Known /\ Known \subseteq Variables BY <1>1, <1>3 DEF Known, StacksOK
<1>17. ASSUME NEW v \in Known', NEW j \in DOMAIN var_val_stack'[v]
       PROVE  /\ Readable(var_val_stack[v][j])'
              /\ \A k \in DOMAIN calls' : j <= next[k][v] => ReachesStart(var_val_stack[v][j], calls[k].bb)'
  <2>1. PICK e : e = var_val_stack[v][j] OBVIOUS
  <2>2. v \in Known /\ j \in DOMAIN var_val_stack[v] /\ var_val_stack'[v][j] = e
    BY <1>1, <1>16, <1>17, <2>1
  <2>3. Readable(e) BY <1>3, <2>1, <2>2 DEF ReadableOK
  <2>4. ~IsLabel(e) /\ ReachesStart(e, c)' BY <1>12, <1>15, <2>3
  <2>5. Readable(e)' BY <1>1, <1>7, <2>4 DEF Readable
  <2>6. ASSUME NEW k \in DOMAIN calls', j <= next[k][v] PROVE ReachesStart(e, calls[k].bb)'
    <3>1. PICK b : b = calls'[k].bb OBVIOUS
    <3>2. CASE k \in 1..n
      <4>1. next[k][v] = base[k][v] /\ b = calls[k].bb BY <1>4, <1>6, <1>14, <1>16, <2>2, <3>1, <3>2
      <4>2. ReachesStart(e, b) BY <1>4, <1>13, <2>1, <2>2, <2>6, <3>2, <4>1 DEF FoundOK
      <4>3. ReachesStart(e, b)' BY <1>15, <4>2
      <4> QED BY <3>1, <4>3, Zenon
    <3>3. CASE k = n + 1
      <4>1. b = c BY <1>7, <3>1, <3>3
      <4> QED BY <2>4, <3>1, <4>1, Zenon
    <3> QED BY <1>6, <1>8, <2>6, <3>2, <3>3
  <2> QED BY <2>2, <2>5, <2>6, Zenon
<1>18. FoundOK(next)' BY <1>17, Zenon DEF FoundOK
<1>19. next \in [DOMAIN calls' -> [Variables' -> Nat]] BY <1>14 DEF BaseOK
<1>20. ReadableOK' BY <1>14, <1>17, <1>18, <1>19 DEF ReadableOK
<1> QED BY <1>9, <1>10, <1>11, <1>20 DEF DomOK

\* Outside the walk.
LEMMA ReadableIdle ==
  ASSUME IInv', calls' = << >>,
         \A v \in Known' : \A j \in DOMAIN var_val_stack'[v] : ~IsLabel(var_val_stack'[v][j])
  PROVE  ReadableOK'
<1>1. pc' \in {"place", "allocas", "done"} /\ DOMAIN calls' = {} BY DEF IInv, CallsOK
<1>2. \A e : ~IsLabel(e) => Readable(e)' BY <1>1 DEF Readable
<1>3. PICK base \in [DOMAIN calls' -> [Variables' -> Nat]] : BaseOK(base)' BY DEF IInv, StacksOK
<1>4. FoundOK(base)' BY <1>1 DEF FoundOK
<1>5. ASSUME NEW v \in Known', NEW j \in DOMAIN var_val_stack'[v] PROVE Readable(var_val_stack[v][j])'
  <2>1. PICK e : e = var_val_stack'[v][j] OBVIOUS
  <2>2. Readable(e)' BY <1>2, <1>5, <2>1
  <2> QED BY <2>1, <2>2, Zenon
<1> QED BY <1>3, <1>4, <1>5 DEF ReadableOK

LEMMA NoLabels ==
  ASSUME ReadableOK, NEW v \in Known, NEW j \in DOMAIN var_val_stack[v]
  PROVE  ~IsLabel(var_val_stack[v][j])
BY DEF ReadableOK, Readable

LEMMA NextVarDom ==
  ASSUME IInv, DomOK, NextVar
  PROVE  DomOK'
<1>1. /\ pc = "place" /\ UNCHANGED <<f, ir, pc, var_val_stack, calls, line>>
      /\ calls = << >> /\ var_val_stack = << >>
  BY Zenon DEF NextVar, IInv, PlaceOK
<1>2. KeptOK /\ ReachOK /\ PhiReadsOK /\ f \in Functions /\ IInv' BY NextVarStep DEF DomOK, IInv
<1>3. KeptOK'
  <2>1. \A b \in Block : Kept(b)' BY <1>1, <1>2, SameKept DEF KeptOK
  <2> QED BY <1>1, <2>1 DEF KeptOK
<1>4. ReachOK' BY <1>1, <1>2, ReachKept
<1>5. PhiReadsOK'
  <2>1. \A c : ~Filled(c) BY <1>1 DEF Filled
  <2> QED BY <1>1, <1>2, <2>1, PhiReadsKept
<1>6. ReadableOK'
  <2>1. Known' = {} BY <1>1 DEF Known
  <2> QED BY <1>1, <1>2, <2>1, ReadableIdle
<1> QED BY <1>3, <1>4, <1>5, <1>6 DEF DomOK

LEMMA StartRenameDom ==
  ASSUME IInv, DomOK, StartRename
  PROVE  DomOK'
<1>1. /\ pc = "place" /\ pc' = "enter" /\ UNCHANGED <<f, ir, var_val_stack>>
      /\ calls' = <<Call(root)>> /\ var_val_stack = << >>
  BY Zenon DEF StartRename, IInv, PlaceOK
<1>2. KeptOK /\ ReachOK /\ PhiReadsOK /\ f \in Functions /\ IInv' BY StartRenameStep DEF DomOK, IInv
<1>3. KeptOK'
  <2>1. \A b \in Block : Kept(b)' BY <1>1, <1>2, SameKept DEF KeptOK
  <2>2. DOMAIN calls' = {1} /\ calls'[1].wait_delete = {} BY <1>1 DEF Call
  <2> QED BY <2>1, <2>2 DEF KeptOK
<1>4. ReachOK' BY <1>1, <1>2, ReachKept
<1>5. PhiReadsOK'
  <2>1. \A c : ~Filled(c) BY <1>1 DEF Filled
  <2> QED BY <1>1, <1>2, <2>1, PhiReadsKept
<1>6. ReadableOK'
  <2>1. Known' = {} BY <1>1 DEF Known
  <2>2. PICK base \in [DOMAIN calls' -> [Variables' -> Nat]] : BaseOK(base)'
    BY <1>2 DEF IInv, StacksOK
  <2>3. FoundOK(base)' BY <2>1 DEF FoundOK
  <2> QED BY <2>1, <2>2, <2>3 DEF ReadableOK
<1> QED BY <1>3, <1>4, <1>5, <1>6 DEF DomOK

LEMMA RemoveAllocasDom ==
  ASSUME IInv, ListsOK, DomOK, RemoveAllocas
  PROVE  DomOK'
<1>1. /\ pc = "allocas" /\ pc' = "done" /\ UNCHANGED <<f, var_val_stack, calls>> /\ calls = << >>
      /\ ir' = [ir EXCEPT !.code = [b \in Block |-> Without(ir.code[b], ScalarAllocas)]]
  BY DEF RemoveAllocas, IInv, CallsOK
<1>2. KeptOK /\ ReachOK /\ PhiReadsOK /\ ReadableOK /\ f \in Functions /\ IrOK /\ CodeOK /\ IInv'
  BY RemoveAllocasStep DEF DomOK, IInv, ListsOK
<1>3. /\ ir'.operands = ir.operands
      /\ \A b \in Block : ir'.code[b] = Without(ir.code[b], ScalarAllocas)
  BY <1>1, <1>2 DEF IrOK
<1>4. KeptOK'
  <2>1. \A x \in ScalarAllocas : ~IsPhi(x) /\ x[1] \notin {"op", "br", "ret"}
    BY DEF ScalarAllocas, Allocas, IsAlloca, IsPhi
  <2>2. ASSUME NEW b \in Block PROVE Kept(b)'
    <3>1. Kept(b) /\ ir.code[b] \in Seq(DOMAIN ir.operands) BY <1>2 DEF KeptOK, CodeOK
    <3> QED BY <1>1, <1>2, <1>3, <2>1, <3>1, WithoutKept
  <2> QED BY <1>1, <2>2 DEF KeptOK
<1>5. ReachOK' BY <1>1, <1>2, <1>3, ReachKept
<1>6. PhiReadsOK'
  <2>1. \A c : Filled(c)' BY <1>1 DEF Filled, Below
  <2> QED BY <1>1, <1>2, <1>3, <2>1, PhiReadsKept
<1>7. ReadableOK'
  <2>1. \A v \in Known' : \A j \in DOMAIN var_val_stack'[v] : ~IsLabel(var_val_stack'[v][j])
    BY <1>1, <1>2, NoLabels DEF Known
  <2> QED BY <1>1, <1>2, <2>1, ReadableIdle
<1> QED BY <1>4, <1>5, <1>6, <1>7 DEF DomOK

\* What a call found on the stacks, its caller may read.
LEMMA ReturnDom ==
  ASSUME IInv, ListsOK, DomOK, Return
  PROVE  DomOK'
<1> DEFINE n == Len(calls)
<1>1. /\ pc = "children" /\ pc' = (IF n = 1 THEN "allocas" ELSE "children") /\ f' = f
      /\ ir' = DeleteInstrs(ir, bb_, this.wait_delete) /\ calls' = Front(calls)
  BY Zenon DEF Return
<1>2. /\ f \in Functions /\ CallsOK /\ IrOK /\ StacksOK /\ calls # << >> /\ CodeOK /\ IInv'
      /\ KeptOK /\ ReachOK /\ PhiReadsOK /\ ReadableOK /\ bb_ \in Block /\ bb_ \in Blocks(f)
  BY <1>1, AtBlock, ReturnStep DEF IInv, CallsOK, ListsOK, DomOK
<1>3. /\ n \in Nat /\ DOMAIN calls = 1..n /\ n \in 1..n /\ n \in DOMAIN calls /\ bb_ = calls[n].bb
      /\ \A k \in 1..(n - 1) : k \in 1..n /\ k < n
  BY <1>2 DEF CallsOK, bb_, this
<1>4. /\ Len(calls') = n - 1 /\ DOMAIN calls' = 1..(n - 1) /\ \A k \in 1..(n - 1) : calls'[k] = calls[k]
  <2> DEFINE S == [bb : Blocks(f), wait_delete : SUBSET InstrsIn(f), left : SUBSET Blocks(f)]
  <2>1. calls' = SubSeq(calls, 1, n - 1) /\ calls \in Seq(S) BY <1>1, <1>2 DEF Front, CallsOK
  <2> HIDE DEF S
  <2>2. n \in Nat /\ n \in 1..n /\ Len(calls) = n BY <1>3
  <2> HIDE DEF n
  <2> QED BY ONLY <2>1, <2>2
<1>5. PICK W : W = calls[n].wait_delete OBVIOUS
<1>6. this.wait_delete = W BY <1>5 DEF this
<1> HIDE DEF n
<1>7. /\ ir'.operands = ir.operands
      /\ \A c \in Block : c # bb_ => ir'.code[c] = ir.code[c]
      /\ ir'.code[bb_] = Without(ir.code[bb_], W)
  <2>1. DOMAIN ir.code = Block /\ IsData(ir) BY <1>2 DEF IrOK, IsData
  <2>2. PICK h : h = ir' OBVIOUS
  <2>3. h = DeleteInstrs(ir, bb_, W) BY <1>1, <1>6, <2>2
  <2> QED BY <1>2, <2>1, <2>2, <2>3, Deletion
<1>8. KeptOK'
  <2>1. \A x \in W : ~IsPhi(x) /\ x[1] \notin {"op", "br", "ret"}
    BY <1>2, <1>3, <1>5 DEF KeptOK, IsLoad, IsStore, IsPhi
  <2>2. ASSUME NEW b \in Block PROVE Kept(b)'
    <3>1. Kept(b) /\ ir.code[b] \in Seq(DOMAIN ir.operands) BY <1>2 DEF KeptOK, CodeOK
    <3>2. CASE b = bb_ BY <1>1, <1>2, <1>7, <2>1, <3>1, <3>2, WithoutKept
    <3>3. CASE b # bb_ BY <1>1, <1>7, <3>1, <3>3, SameKept
    <3> QED BY <3>2, <3>3
  <2>3. \A k \in DOMAIN calls' : \A x \in calls'[k].wait_delete : IsLoad(x) \/ IsStore(x)
    BY <1>2, <1>3, <1>4 DEF KeptOK
  <2> QED BY <2>2, <2>3 DEF KeptOK
<1>9. ReachOK' BY <1>1, <1>2, <1>7, ReachKept
<1>10. PhiReadsOK'
  <2>1. \A c : Below(c)' => Below(c) BY <1>1, <1>3, <1>4 DEF Below
  <2>2. \A c : Filled(c) => Filled(c)' BY <1>1, <2>1 DEF Filled
  <2> QED BY <1>1, <1>2, <1>7, <2>2, PhiReadsKept
<1>11. CASE calls' = << >>
  <2>1. \A v \in Known' : \A j \in DOMAIN var_val_stack'[v] : ~IsLabel(var_val_stack'[v][j])
    BY <1>2, Left, NoLabels
  <2>2. ReadableOK' BY <1>2, <1>11, <2>1, ReadableIdle
  <2> QED BY <1>8, <1>9, <1>10, <2>2 DEF DomOK
<1>12. CASE calls' # << >>
  <2>1. PICK base : BaseOK(base) /\ FoundOK(base) BY <1>2 DEF ReadableOK
  <2>2. /\ \A v \in Variables : Len(StackOf(v)') = base[n][v]
        /\ \E next : BaseOK(next)' /\ \A k \in DOMAIN calls' : next[k] = base[k]
    BY <1>12, <2>1, ReturnFrom DEF n
  <2>3. PICK next : BaseOK(next)' /\ \A k \in DOMAIN calls' : next[k] = base[k] BY <2>2
  <2>4. n # 1 /\ n - 1 \in 1..(n - 1) /\ n - 1 \in 1..n /\ n > 1
    <3>1. Len(calls') # 0 BY <1>2, <1>12 DEF IInv, CallsOK
    <3> QED BY <1>3, <1>4, <3>1
  <2>5. PICK b : b = calls[n - 1].bb OBVIOUS
  <2>6. bb_' = b /\ b \in Blocks(f) /\ pc' = "children"
    BY <1>1, <1>2, <1>3, <1>4, <2>4, <2>5, WaitTyped DEF bb_, this
  <2>7. \A e : ReachesStart(e, bb_) => ReachesEnd(e, b)
    <3>1. IsIdom(f, b, bb_) BY <1>2, <1>3, <2>4, <2>5 DEF CallsOK
    <3> QED BY <3>1, <1>2, <2>6 DEF IsIdom, ReachesStart, ReachesEnd
  <2>8. \A e, c : /\ ReachesStart(e, c)' <=> ReachesStart(e, c)
                  /\ ReachesEnd(e, c)' <=> ReachesEnd(e, c)
    BY <1>1, <1>7, SameReach
  <2>9. Variables' = Variables /\ Known' \subseteq Variables
    <3>1. Variables' = Variables BY <1>1, SameFunction
    <3> QED BY <1>2, <3>1 DEF IInv, StacksOK
  <2>10. ASSUME NEW v \in Known', NEW j \in DOMAIN var_val_stack'[v]
         PROVE  /\ Readable(var_val_stack[v][j])'
                /\ \A k \in DOMAIN calls' : j <= next[k][v] => ReachesStart(var_val_stack[v][j], calls[k].bb)'
    <3>1. PICK e : e = var_val_stack'[v][j] OBVIOUS
    <3>2. /\ v \in Known /\ j \in DOMAIN var_val_stack[v] /\ e = var_val_stack[v][j]
          /\ j <= Len(var_val_stack'[v])
      BY <2>10, <3>1, Left
    <3>3. j <= base[n][v]
      <4>1. StackOf(v)' = var_val_stack'[v] BY <2>10 DEF StackOf
      <4> QED BY <2>2, <2>9, <3>2, <4>1
    <3>4. ReachesStart(e, bb_) /\ ~IsLabel(e) BY <1>2, <1>3, <2>1, <3>2, <3>3, NoLabels DEF FoundOK
    <3>5. ReachesEnd(e, b)' BY <2>7, <2>8, <3>4
    <3>6. Readable(e)' BY <2>6, <3>4, <3>5 DEF Readable
    <3>7. ASSUME NEW k \in DOMAIN calls', j <= next[k][v] PROVE ReachesStart(e, calls[k].bb)'
      <4>1. PICK c : c = calls[k].bb OBVIOUS
      <4>2. calls'[k].bb = c /\ k \in DOMAIN calls /\ j <= base[k][v]
        BY <1>3, <1>4, <2>3, <3>7, <4>1
      <4>3. ReachesStart(e, c) BY <2>1, <3>2, <4>1, <4>2 DEF FoundOK
      <4>4. ReachesStart(e, c)' BY <2>8, <4>3
      <4> QED BY <4>2, <4>4, Zenon
    <3> QED BY <3>1, <3>6, <3>7, Zenon
  <2>11. FoundOK(next)' BY <2>10, Zenon DEF FoundOK
  <2>12. next \in [DOMAIN calls' -> [Variables' -> Nat]] BY <2>3 DEF BaseOK
  <2>13. ReadableOK' BY <2>3, <2>10, <2>11, <2>12 DEF ReadableOK
  <2> QED BY <1>8, <1>9, <1>10, <2>13 DEF DomOK
<1> QED BY <1>11, <1>12

LEMMA PlacePhisDom ==
  ASSUME IInv, ListsOK, DomOK, PlacePhis
  PROVE  DomOK'
<1>1. /\ pc = "place" /\ pc' = "place" /\ UNCHANGED <<f, var, var_val_stack, calls>>
      /\ calls = << >> /\ var_val_stack = << >> /\ IInv' /\ ListsOK'
      /\ f \in Functions /\ IrOK /\ KeptOK /\ ReachOK /\ PhiReadsOK
  BY PlacePhisStep, PlacePhisLists DEF PlacePhis, IInv, PlaceOK, DomOK
<1>2. PICK b \in work_list :
        LET joins == {c \in Frontier(f, b) : PhiOf(var, c) \notin Range(ir.code[c])}
            phis == {PhiOf(var, c) : c \in joins}
            g   == Declare(ir, phis)
        IN  ir' = [g EXCEPT !.code = [c \in Block |->
                     IF c \in joins THEN <<PhiOf(var, c)>> \o @[c] ELSE @[c]]]
  BY Zenon DEF PlacePhis
<1> DEFINE added == {c \in Frontier(f, b) : PhiOf(var, c) \notin Range(ir.code[c])}
           phis == {PhiOf(var, c) : c \in added}
<1>3. /\ ir'.code = [c \in Block |-> IF c \in added THEN <<PhiOf(var, c)>> \o ir.code[c] ELSE ir.code[c]]
      /\ ir'.operands = [y \in DOMAIN ir.operands \cup phis |-> IF y \in phis THEN << >> ELSE ir.operands[y]]
  BY <1>1, <1>2 DEF Declare, IrOK
<1>4. \A x \in phis : IsPhi(x) BY Phis
<1> HIDE DEF phis, added
<1>5. /\ DOMAIN ir.operands \subseteq DOMAIN ir'.operands
      /\ \A x \in InstrsIn(f) : ir'.operands[x] = ir.operands[x]
      /\ \A x \in DOMAIN ir'.operands : ir'.operands[x] = << >>
           \/ (x \in DOMAIN ir.operands /\ ir'.operands[x] = ir.operands[x])
  BY <1>1, <1>3, <1>4, Code DEF IrOK
<1>6. ASSUME NEW c \in Block PROVE Kept(c)'
  <2>1. /\ Intact(c)' /\ Ordered(c)' /\ Kept(c) /\ ir.code[c] \in Seq(DOMAIN ir.operands)
    BY <1>1 DEF IInv, PlaceOK, ListsOK, CodeOK, Open, KeptOK
  <2>2. PICK s, t, p, D : s = ir.code[c] /\ t = ir'.code[c] /\ p = PhiOf(var, c) /\ D = DOMAIN ir.operands
    OBVIOUS
  <2>3. /\ s \in Seq(D) /\ IsPhi(p) /\ t = IF c \in added THEN <<p>> \o s ELSE s
        /\ \A m, n \in DOMAIN s : m < n /\ IsPhi(s[n]) => IsPhi(s[m])
    BY <1>3, <2>1, <2>2, Phis DEF Kept, PhisFirst
  <2>4. ASSUME NEW m \in DOMAIN t, NEW n \in DOMAIN t, m < n, IsPhi(t[n]) PROVE IsPhi(t[m])
    <3>1. CASE c \notin added BY <2>3, <2>4, <3>1
    <3>2. CASE c \in added
      <4>1. t = <<p>> \o s BY <2>3, <3>2
      <4>2. /\ DOMAIN t = 1..(Len(s) + 1) /\ DOMAIN s = 1..Len(s) /\ Len(s) \in Nat
            /\ t[1] = p /\ \A q \in 2..(Len(s) + 1) : t[q] = s[q - 1]
        BY ONLY <2>3, <4>1
      <4>3. CASE m = 1 BY <2>3, <4>2, <4>3
      <4>4. CASE m # 1
        <5>1. m \in 2..(Len(s) + 1) /\ n \in 2..(Len(s) + 1)
              /\ m - 1 \in DOMAIN s /\ n - 1 \in DOMAIN s /\ m - 1 < n - 1
          BY <2>4, <4>2, <4>4
        <5>2. t[m] = s[m - 1] /\ t[n] = s[n - 1] BY <4>2, <5>1
        <5> QED BY <2>3, <2>4, <5>1, <5>2
      <4> QED BY <4>3, <4>4
    <3> QED BY <3>1, <3>2
  <2>5. PhisFirst(c)' BY <2>2, <2>4 DEF PhisFirst
  <2> QED BY <2>1, <2>5 DEF Kept, Intact
<1>7. KeptOK' BY <1>1, <1>6 DEF KeptOK
<1>8. ReachOK' BY <1>1, <1>5, ReachKept
<1>9. PhiReadsOK'
  <2>1. Variables' = Variables /\ \A c : ~Filled(c) BY <1>1, SameFunction DEF Filled
  <2> SUFFICES ASSUME NEW v \in Variables, NEW c \in Blocks(f), HasPhi(v, c)'
               PROVE  PhiReads(ir.operands[PhiOf(v, c)], c)'
    BY <1>1, <2>1, Zenon DEF PhiReadsOK
  <2>2. PICK ops : ops = ir'.operands[PhiOf(v, c)] OBVIOUS
  <2>3. ops = << >> \/ (HasPhi(v, c) /\ ops = ir.operands[PhiOf(v, c)]) BY <1>5, <2>2 DEF HasPhi
  <2>4. \A i \in DOMAIN ops : ~IsLabel(ops[i])
    <3>1. CASE ops = << >> BY <3>1
    <3>2. CASE HasPhi(v, c) /\ ops = ir.operands[PhiOf(v, c)]
      BY <1>1, <2>1, <3>2 DEF PhiReadsOK, PhiReads, FromPred
    <3> QED BY <2>3, <3>1, <3>2
  <2>5. PhiReads(ops, c)' BY <2>4 DEF PhiReads
  <2> QED BY <2>2, <2>5, Zenon
<1>10. ReadableOK'
  <2>1. Known' = {} BY <1>1 DEF Known
  <2> QED BY <1>1, <2>1, ReadableIdle
<1> QED BY <1>7, <1>8, <1>9, <1>10 DEF DomOK

\* What IsFunction says of what is read and stored.
LEMMA Operands ==
  ASSUME f \in Functions
  PROVE  /\ \A v \in ValuesIn(f) : IsDef(v) => v \in InstrsIn(f)
         /\ \A x \in InstrsIn(f) : IsStore(x) => ~IsLabel(f.operands[x][1])
<1>1. \A v \in ValuesIn(f) : IsDef(v) => v \in InstrsIn(f) BY Kinds DEF IsDef
<1>2. \A x \in InstrsIn(f) : IsStore(x) => ~IsLabel(f.operands[x][1]) BY Kinds DEF IsLabel
<1> QED BY <1>1, <1>2

LEMMA InitDom == InitPass => DomOK
<1> SUFFICES ASSUME InitPass PROVE DomOK
  OBVIOUS
<1>1. /\ f \in Functions /\ pc = "place" /\ calls = << >> /\ var_val_stack = << >>
      /\ ir.code = f.code /\ ir.operands = f.operands
  BY DEF InitPass
<1>2. IInv /\ ListsOK BY InitIInv, InitLists
<1>3. \A v, b : ~HasPhi(v, b) BY <1>1, Code, Phis DEF HasPhi
<1>4. \A b : PhisOf(b) = {} BY <1>3 DEF PhisOf
<1>5. KeptOK
  <2>1. ASSUME NEW b \in Block PROVE Kept(b)
    <3>1. IsInjective(ir.code[b]) /\ Ordered(b) BY <1>1, <1>2, Code DEF ListsOK, CodeOK, Open
    <3>2. PhisFirst(b) BY <1>1, Code, Places DEF PhisFirst, Range
    <3> QED BY <1>1, <1>4, <3>1, <3>2 DEF Kept
  <2> QED BY <1>1, <2>1 DEF KeptOK
<1>6. ReachOK
  <2> SUFFICES ASSUME NEW b \in Block, NEW x \in Range(f.code[b])
               PROVE  /\ \A i \in DOMAIN f.operands[x] : Reaches(f.operands[x][i], x, b)
                      /\ IsStore(x) => ~IsLabel(f.operands[x][1])
    BY <1>1 DEF ReachOK
  <2>1. x \in InstrsIn(f) /\ f.operands[x] \in Seq(ValuesIn(f)) BY <1>1, Code, Places
  <2>2. ASSUME NEW i \in DOMAIN f.operands[x], NEW v, v = f.operands[x][i] PROVE Reaches(v, x, b)
    <3>1. v \in Range(f.operands[x]) /\ v \in ValuesIn(f) BY <2>1, <2>2 DEF Range
    <3>2. CASE ~IsDef(v) BY <3>2 DEF Reaches, ReachesStart
    <3>3. CASE IsDef(v)
      <4>1. v \in InstrsIn(f) BY <1>1, <3>1, <3>3, Operands
      <4>2. \/ \E j, k \in DOMAIN f.code[b] : j < k /\ f.code[b][j] = v /\ f.code[b][k] = x
            \/ \E c \in Blocks(f) : c # b /\ v \in Range(f.code[c]) /\ Dominates(f, c, b)
        BY <1>1, <3>1, <4>1, ReadBehind
      <4> QED BY <4>2 DEF Reaches, ReachesStart, ComesBefore, ComputedIn, StrictlyDominates
    <3> QED BY <3>2, <3>3
  <2> QED BY <1>1, <2>1, <2>2, Operands
<1>7. PhiReadsOK BY <1>3 DEF PhiReadsOK
<1>8. ReadableOK
  <2>1. Known = {} BY <1>1 DEF Known
  <2>2. PICK base \in [DOMAIN calls -> [Variables -> Nat]] : BaseOK(base) BY <1>2 DEF IInv, StacksOK
  <2>3. FoundOK(base) BY <2>1 DEF FoundOK
  <2> QED BY <2>1, <2>2, <2>3 DEF ReadableOK
<1> QED BY <1>5, <1>6, <1>7, <1>8 DEF DomOK

LEMMA DomUntouched ==
  ASSUME IInv, DomOK, UNCHANGED pass
  PROVE  DomOK'
<1>1. UNCHANGED <<f, ir, pc, var_val_stack, calls, line>> BY DEF pass
<1>2. KeptOK /\ ReachOK /\ PhiReadsOK /\ ReadableOK /\ f \in Functions BY DEF DomOK, IInv
<1>3. KeptOK'
  <2>1. \A b \in Block : Kept(b)' BY <1>1, <1>2, SameKept DEF KeptOK
  <2> QED BY <1>1, <1>2, <2>1 DEF KeptOK
<1>4. ReachOK' BY <1>1, <1>2, ReachKept
<1>5. bb_' = bb_ /\ Known' = Known /\ Variables' = Variables
  BY <1>1, SameFunction DEF bb_, this, Known
<1>6. PhiReadsOK'
  <2>1. \A c : Below(c)' <=> Below(c) BY <1>1 DEF Below
  <2>2. \A c : Filled(c) => Filled(c)' BY <1>1, <1>5, <2>1 DEF Filled
  <2> QED BY <1>1, <1>2, <2>2, PhiReadsKept
<1>7. /\ \A v, b : ReachesStart(v, b)' <=> ReachesStart(v, b)
      /\ \A v, b : ReachesEnd(v, b)' <=> ReachesEnd(v, b)
      /\ \A v, x, b : Reaches(v, x, b)' <=> Reaches(v, x, b)
  BY <1>1, SameReach
<1>8. \A e : Readable(e)' <=> Readable(e) BY <1>1, <1>5, <1>7, Zenon DEF Readable
<1>9. \A base : FoundOK(base)' <=> FoundOK(base) BY <1>1, <1>5, <1>7, Zenon DEF FoundOK
<1>10. \A base : BaseOK(base) => BaseOK(base)' BY Untouched DEF BaseKept
<1>11. ReadableOK' BY <1>1, <1>2, <1>5, <1>8, <1>9, <1>10, Zenon DEF ReadableOK
<1> QED BY <1>3, <1>4, <1>6, <1>11 DEF DomOK

LEMMA NextDom == IInv /\ ListsOK /\ DomOK /\ [Next]_vars => DomOK'
<1> SUFFICES ASSUME IInv, ListsOK, DomOK, [Next]_vars PROVE DomOK'
  OBVIOUS
<1>1. NextPass \/ UNCHANGED pass BY DEF Next, Rename, Memory0, Memory1, Together, vars
<1>2. CASE UNCHANGED pass BY <1>2, DomUntouched
<1>3. CASE NextPass
  BY <1>3, NextVarDom, PlacePhisDom, StartRenameDom, PushPhisDom, RenameLoadDom, LoadOfNothingDom,
     RenameStoreDom, SkipInstrDom, FillPhisDom, VisitChildDom, ReturnDom, RemoveAllocasDom, Zenon
     DEF NextPass
<1> QED BY <1>1, <1>2, <1>3

\* A value is computed in one block, and is there as long as it may be read.
LEMMA OnePlace ==
  ASSUME f \in Functions, KeptOK
  PROVE  /\ \A d, e \in Block : \A v : ComputedIn(v, d) /\ ComputedIn(v, e) => d = e
         /\ \A d \in Block : \A v \in Range(ir.code[d]) : ComputedIn(v, d)
         /\ \A d \in Block : \A v : v \notin Renamed /\ ComputedIn(v, d) /\ IsDef(v) => v \in Range(ir.code[d])
<1>1. \A d \in Block : \A v \in Range(f.code[d]) : v \in InstrsIn(f) /\ ~IsPhi(v) BY Code, Places
<1>2. \A d : \A v \in PhisOf(d) : IsPhi(v) /\ \E w : v = PhiOf(w, d) BY Phis DEF PhisOf
<1>3. \A d, e \in Block : \A v : ComputedIn(v, d) /\ ComputedIn(v, e) => d = e
  BY <1>1, <1>2, Places, Phis DEF ComputedIn
<1>4. \A d \in Block : \A v \in Range(ir.code[d]) : ComputedIn(v, d) BY DEF KeptOK, Kept, ComputedIn
<1>5. ASSUME NEW d \in Block, NEW v, v \notin Renamed, ComputedIn(v, d), IsDef(v)
      PROVE  v \in Range(ir.code[d])
  <2>1. CASE v \in PhisOf(d) BY <2>1 DEF KeptOK, Kept
  <2>2. CASE v \in Range(f.code[d]) /\ v[1] = "op" BY <2>2 DEF KeptOK, Kept
  <2>3. CASE v \in Range(f.code[d]) /\ IsLoad(v)
    <3>1. v \in Instrs BY <1>1, <1>5, <2>3 DEF Renamed
    <3>2. PICK e \in Block : v \in Range(ir.code[e]) BY <3>1 DEF Instrs
    <3> QED BY <1>3, <1>4, <1>5, <3>2
  <2> QED BY <1>1, <1>5, <2>1, <2>2, <2>3 DEF ComputedIn, IsDef, IsLoad, IsPhi
<1> QED BY <1>3, <1>4, <1>5

\* What is read has been computed somewhere.
LEMMA Somewhere ==
  ASSUME IInv, ListsOK, NEW x \in DOMAIN ir.operands, NEW v \in Range(ir.operands[x]), IsDef(v)
  PROVE  \E d \in Blocks(f) : ComputedIn(v, d)
<1>1. f \in Functions /\ IrOK /\ CodeOK BY DEF IInv, ListsOK
<1>2. v \in DOMAIN ir.use_list
  <2>1. PICK D, ops : D = DOMAIN ir.use_list /\ ops = ir.operands[x] OBVIOUS
  <2>2. ops \in Seq(D) /\ v \in Range(ops) BY <1>1, <2>1 DEF IrOK
  <2>3. v \in D BY <2>2 DEF Range
  <2> QED BY <2>1, <2>3
<1>3. v \notin Block BY BlockAssumption DEF IsDef
<1>4. v \in ValuesIn(f) \/ v \in DOMAIN ir.operands BY <1>1, <1>2, <1>3 DEF CodeOK
<1>5. CASE v \in InstrsIn(f) BY <1>1, <1>5, Places DEF ComputedIn
<1>6. CASE v \notin InstrsIn(f)
  <2>1. v \in DOMAIN ir.operands BY <1>1, <1>4, <1>6, Operands
  <2>2. PICK w \in Variables, b \in Blocks(f) : v = PhiOf(w, b) BY <1>1, <1>6, <2>1 DEF IrOK
  <2>3. v \in PhisOf(b) BY <2>1, <2>2 DEF PhisOf, HasPhi
  <2> QED BY <2>3 DEF ComputedIn
<1> QED BY <1>5, <1>6

\* When the walk is over, what holds of the function as it was and of its phis holds
\* of the code that is left.
LEMMA DominatedAtEnd == IInv /\ ListsOK /\ DomOK => DefsDominate
<1> DEFINE at(y)  == CHOOSE c \in Block : y \in Range(ir.code[c])
           pos(y) == CHOOSE j \in DOMAIN ir.code[at(y)] : ir.code[at(y)][j] = y
           before(y, z) == IF at(y) = at(z) THEN pos(y) < pos(z) ELSE Dominates(f, at(y), at(z))
           defs(ops) == {v \in Range(ops) : v[1] \in {"op", "load", "phi"}}
<1> SUFFICES ASSUME IInv, ListsOK, DomOK, pc = "done", NEW x \in Instrs
             PROVE  LET ops == ir.operands[x]
                    IN  /\ defs(ops) \subseteq Instrs
                        /\ ~IsPhi(x) => \A v \in defs(ops) : before(v, x)
                        /\ IsPhi(x) => \A i \in {j \in DOMAIN ops : ops[j][1] = "bb"} :
                             /\ ops[i] \in PredsOf(f, at(x))
                             /\ ops[i - 1] \in defs(ops) => Dominates(f, at(ops[i - 1]), ops[i])
                             /\ \A j \in DOMAIN ops : ops[j] = ops[i] => j = i
  BY Zenon DEF DefsDominate
<1>1. /\ f \in Functions /\ IrOK /\ CodeOK /\ ReadsOK /\ KeptOK /\ ReachOK /\ PhiReadsOK
      /\ Blocks(f) \subseteq Block
  BY Code DEF IInv, ListsOK, DomOK
<1>2. PICK ops : ops = ir.operands[x] OBVIOUS
<1>3. \A v : v \in defs(ops) <=> v \in Range(ops) /\ IsDef(v) BY DEF IsDef
<1>4. ASSUME NEW y, NEW b \in Block, y \in Range(ir.code[b])
      PROVE  at(y) = b /\ pos(y) \in DOMAIN ir.code[b] /\ ir.code[b][pos(y)] = y
  <2>1. at(y) \in Block /\ y \in Range(ir.code[at(y)]) BY <1>4, Zenon
  <2> HIDE DEF at
  <2>2. at(y) = b BY <1>1, <1>4, <2>1, OnePlace
  <2>3. \E j \in DOMAIN ir.code[at(y)] : ir.code[at(y)][j] = y BY <2>1 DEF Range
  <2>4. pos(y) \in DOMAIN ir.code[at(y)] /\ ir.code[at(y)][pos(y)] = y BY <2>3, Zenon
  <2> QED BY <2>2, <2>4
<1> HIDE DEF at, pos, defs
<1>5. PICK b \in Block : x \in Range(ir.code[b]) BY DEF Instrs
<1>6. /\ at(x) = b /\ pos(x) \in DOMAIN ir.code[b] /\ ir.code[b][pos(x)] = x
      /\ x \in DOMAIN ir.operands /\ ComputedIn(x, b)
  <2>1. x \in DOMAIN ir.operands BY <1>1, <1>5 DEF CodeOK, Range
  <2> QED BY <1>1, <1>4, <1>5, <2>1, OnePlace
\* What x reads is where it was computed.
<1>7. ASSUME NEW v \in defs(ops), NEW d \in Block, ComputedIn(v, d)
      PROVE  /\ v \in Instrs /\ at(v) = d
             /\ pos(v) \in DOMAIN ir.code[d] /\ ir.code[d][pos(v)] = v
  <2>1. v \in Range(ops) /\ IsDef(v) BY <1>3
  <2>2. v \notin Renamed BY <1>1, <1>2, <2>1 DEF ReadsOK, Range
  <2>3. v \in Range(ir.code[d]) BY <1>1, <1>7, <2>1, <2>2, OnePlace
  <2>4. v \in Instrs BY <2>3 DEF Instrs
  <2> QED BY <1>4, <2>3, <2>4
<1>8. defs(ops) \subseteq Instrs
  <2> SUFFICES ASSUME NEW v \in defs(ops) PROVE v \in Instrs
    OBVIOUS
  <2>1. PICK d \in Blocks(f) : ComputedIn(v, d) BY <1>2, <1>3, <1>6, Somewhere
  <2> QED BY <1>1, <1>7, <2>1
<1>9. ASSUME ~IsPhi(x), NEW v \in defs(ops) PROVE before(v, x)
  <2>1. x \in Range(f.code[b])
    <3>1. \A y \in PhisOf(b) : IsPhi(y) BY Phis DEF PhisOf
    <3> QED BY <1>6, <1>9, <3>1 DEF ComputedIn
  <2>2. IsDef(v) /\ Reaches(v, x, b) BY <1>1, <1>2, <1>3, <2>1 DEF ReachOK, Range
  <2>3. CASE ReachesStart(v, b)
    <3>1. PICK d \in Blocks(f) : ComputedIn(v, d) /\ StrictlyDominates(f, d, b)
      BY <2>2, <2>3 DEF ReachesStart
    <3>2. at(v) = d BY <1>1, <1>7, <3>1
    <3> QED BY <1>6, <3>1, <3>2 DEF StrictlyDominates
  <2>4. ASSUME ComputedIn(v, b), pos(v) < pos(x) PROVE before(v, x)
    BY <1>6, <1>7, <2>4
  <2>5. /\ Kept(b) /\ DOMAIN ir.code[b] \subseteq Nat
    <3>1. ir.code[b] \in Seq(DOMAIN ir.operands) BY <1>1 DEF CodeOK
    <3> QED BY <1>1, <3>1 DEF KeptOK
  <2>6. CASE v \in PhisOf(b)
    <3>1. IsPhi(v) /\ ComputedIn(v, b) BY <2>6, Phis DEF PhisOf, ComputedIn
    <3>2. pos(v) \in DOMAIN ir.code[b] /\ ir.code[b][pos(v)] = v BY <1>7, <3>1
    <3>3. pos(v) # pos(x) BY <1>6, <1>9, <3>1, <3>2
    <3>4. ~(pos(x) < pos(v)) BY <1>6, <1>9, <2>5, <3>1, <3>2 DEF Kept, PhisFirst
    <3>5. pos(v) < pos(x) BY <1>6, <2>5, <3>2, <3>3, <3>4
    <3> QED BY <2>4, <3>1, <3>5
  <2>7. ASSUME NEW i \in DOMAIN f.code[b], NEW j \in DOMAIN f.code[b], i < j,
               f.code[b][i] = v, f.code[b][j] = x
        PROVE  before(v, x)
    <3>1. ComputedIn(v, b) BY <2>7 DEF ComputedIn, Range
    <3>2. pos(v) \in DOMAIN ir.code[b] /\ ir.code[b][pos(v)] = v BY <1>7, <3>1
    <3>3. pos(v) < pos(x) BY <1>6, <2>5, <2>7, <3>2 DEF Kept, Ordered
    <3> QED BY <2>4, <3>1, <3>3
  <2> HIDE DEF before
  <2> QED BY <2>2, <2>3, <2>6, <2>7 DEF Reaches, ComesBefore
<1>10. ASSUME IsPhi(x), NEW i \in DOMAIN ops, IsLabel(ops[i])
       PROVE  /\ ops[i] \in PredsOf(f, at(x))
              /\ ops[i - 1] \in defs(ops) => Dominates(f, at(ops[i - 1]), ops[i])
              /\ \A j \in DOMAIN ops : ops[j] = ops[i] => j = i
  <2>1. x \notin InstrsIn(f) BY <1>1, <1>10, Code
  <2>2. x \in PhisOf(b) BY <1>1, <1>5, <1>6, <2>1, Places DEF ComputedIn
  <2>3. PICK v \in Variables, c \in Blocks(f) : x = PhiOf(v, c) BY <1>1, <1>6, <2>1 DEF IrOK
  <2>4. c = b /\ HasPhi(v, b) BY <1>6, <2>2, <2>3, Phis DEF PhisOf, HasPhi
  <2>5. PhiReads(ops, b) BY <1>1, <1>2, <2>3, <2>4 DEF PhiReadsOK
  <2>6. FromPred(ops, i, b) BY <1>10, <2>5 DEF PhiReads
  <2>7. /\ ops[i] \in PredsOf(f, b) /\ ReachesEnd(ops[i - 1], ops[i])
        /\ \A j \in DOMAIN ops : ops[j] = ops[i] => j = i
    BY <2>6 DEF FromPred
  <2>8. ASSUME NEW e, e = ops[i - 1], e \in defs(ops) PROVE Dominates(f, at(e), ops[i])
    <3>1. PICK d \in Blocks(f) : ComputedIn(e, d) /\ Dominates(f, d, ops[i])
      BY <1>3, <2>7, <2>8 DEF ReachesEnd
    <3>2. at(e) = d BY <1>1, <1>7, <2>8, <3>1
    <3> QED BY <3>1, <3>2
  <2> QED BY <1>6, <2>7, <2>8
<1> HIDE DEF before
<1>11. IsPhi(x) => \A i \in {j \in DOMAIN ops : ops[j][1] = "bb"} :
         /\ ops[i] \in PredsOf(f, at(x))
         /\ ops[i - 1] \in defs(ops) => Dominates(f, at(ops[i - 1]), ops[i])
         /\ \A j \in DOMAIN ops : ops[j] = ops[i] => j = i
  BY <1>10 DEF IsLabel
<1> QED BY <1>2, <1>8, <1>9, <1>11, Zenon
----
\* The values of variables. Which instruction has given a variable the value it has at a
\* place of the function is settled once the phis are placed: the last store or phi of the
\* block, or else that of the closest dominator that has one.
\* What a phi or a store gives its variable.
Given(d) == IF IsPhi(d) THEN d ELSE ir.operands[d][1]

LastOf(d, S, b) == d \in S /\ \A e \in S : e = d \/ ComesBefore(e, d, b)

\* The closest strict dominator of b that defines v.
Closest(c, v, b) ==
  /\ StrictlyDominates(f, c, b) /\ Defines(c, v)
  /\ \A e \in Blocks(f) : StrictlyDominates(f, e, b) /\ Defines(e, v) => Dominates(f, e, c)

\* In b, where S are the definitions of v there so far, v has its value from d; from none.
Reaching(d, v, b, S) ==
  IF S # {} THEN LastOf(d, S, b)
  ELSE \E c \in Blocks(f) : Closest(c, v, b) /\ LastOf(d, Pushes(c, v), c)
Unset(v, b, S) == S = {} /\ \A c \in Blocks(f) : StrictlyDominates(f, c, b) => ~Defines(c, v)

\* The SSA value e is that of v; the walk has passed its definition.
Holds(e, v, b, S) ==
  \E d \in DOMAIN ir.operands :
    Reaching(d, v, b, S) /\ e = Given(d) /\ (IsPhi(d) \/ (IsStore(d) /\ ~Ahead(d)))

Address(l)  == f.operands[l][1]
Prior(l, b) == {d \in Pushes(b, Address(l)) : ComesBefore(d, l, b)}
\* The load l reads nothing; what is e now.
Bare(l)     == \A b \in Blocks(f) : l \in Range(f.code[b]) => Unset(Address(l), b, Prior(l, b))
Reads(l, e) == \A b \in Blocks(f) : l \in Range(f.code[b]) => Holds(e, Address(l), b, Prior(l, b))

LeftOK == pc \in {"enter", "instr"} => this.left = Children(bb_)

\* Each load the walk has passed has been replaced by the value of its variable.
Becomes(l, e) ==
  \/ e = l /\ (IsLoad(l) => Ahead(l) \/ Bare(l))
  \/ IsLoad(l) /\ ~Ahead(l) /\ Reads(l, e)
SubstOK ==
  \A x \in InstrsIn(f) : \A j \in DOMAIN f.operands[x] : Becomes(f.operands[x][j], ir.operands[x][j])

\* A phi has what its variable is at the end of each predecessor.
Carries(p, v, c) ==
  \/ Unset(v, c, Pushes(c, v))
  \/ \E i \in DOMAIN ir.operands[p] :
       /\ i - 1 \in DOMAIN ir.operands[p] /\ ir.operands[p][i] = c
       /\ Holds(ir.operands[p][i - 1], v, c, Pushes(c, v))
CarriesOK ==
  \A v \in Variables : \A s \in Blocks(f) : \A c \in PredsOf(f, s) :
    HasPhi(v, s) /\ Filled(c) => Carries(PhiOf(v, s), v, c)

\* Entry n of the stack of v is the value of v in b; the stack has none if n is 0.
EntryOK(n, v, b, S) ==
  IF n = 0 THEN Unset(v, b, S) ELSE n \in DOMAIN StackOf(v) /\ Holds(StackOf(v)[n], v, b, S)
HeldOK(base) == \A v \in Variables : \A k \in DOMAIN calls : EntryOK(base[k][v], v, calls[k].bb, {})
TopOK == pc \in {"instr", "children"} => \A v \in Variables : EntryOK(Len(StackOf(v)), v, bb_, Here(v))
StackValuesOK ==
  /\ \E base \in [DOMAIN calls -> [Variables -> Nat]] : BaseOK(base) /\ HeldOK(base)
  /\ TopOK

ValuesOK == pc # "abort" =>
  /\ LeftOK
  /\ SubstOK
  /\ CarriesOK
  /\ StackValuesOK

----
\* The executions. What the one has, the other has where the pass has moved it to.
V0(v) == Before!Value(v)
V1(v) == After!Value(v)

\* y was computed before place j of b was come to.
Precedes(y, b, j) ==
  \/ \E c \in Blocks(f) : StrictlyDominates(f, c, b) /\ ComputedIn(y, c)
  \/ y \in PhisOf(b)
  \/ \E i \in DOMAIN f.code[b] : i < j /\ f.code[b][i] = y

\* What has been defined in b at place j.
Until(v, b, j) == {d \in Pushes(b, v) : IsPhi(d) \/ \E i \in DOMAIN f.code[b] : i < j /\ f.code[b][i] = d}

\* The second execution has the value n for e; as that of the variable v.
Shows(e, n) == V1(e) = n /\ (e[1] # "const" => e \in DOMAIN env1)
Gives(n, v, b, S) ==
  n # Undef => /\ ~Unset(v, b, S)
               /\ \A d \in DOMAIN ir.operands : Reaching(d, v, b, S) => Shows(Given(d), n)

PlaceOfBoth ==
  \A i \in DOMAIN f.code[bb], m \in DOMAIN ir.code[bb] :
    f.code[bb][i] = ir.code[bb][m] /\ f.code[bb][i][1] \in {"op", "br", "ret"} => (i >= line0 <=> m >= line1)

LoadsAgree ==
  \A c \in Blocks(f) : \A l \in Range(f.code[c]) :
    IsLoad(l) /\ Precedes(l, bb, line0) => Gives(env0[l], Address(l), c, Prior(l, c))
CellsAgree == \A v \in Allocas(f) : Gives(mem0[v], v, bb, Until(v, bb, line0))

EnvTyped ==
  /\ bb \in Blocks(f) /\ line0 \in Nat \ {0} /\ line1 \in Nat \ {0}
  /\ env0 = [v \in {w \in ValuesIn(f) : Named(w)} |-> env0[v]]
  /\ env1 = [v \in {w \in ValuesIn(f) : Named(w)} \cup {PhiOf(a, b) : a \in Allocas(f), b \in Block} |-> env1[v]]
  /\ mem0 = [v \in Allocas(f) |-> mem0[v]]

EnvsAgree ==
  /\ \A y \in ValuesIn(f) : y[1] \in {"arg", "op"} /\ env0[y] # Undef => env1[y] = env0[y]
  /\ \A l \in ValuesIn(f) : IsLoad(l) => env1[l] = Undef

NotBegun ==
  /\ line0 = 1 /\ line1 = 1
  /\ \A l \in ValuesIn(f) : IsLoad(l) => env0[l] = Undef
  /\ \A v \in Allocas(f) : mem0[v] = Undef

RunOK ==
  /\ EnvTyped
  /\ EnvsAgree
  /\ pc # "done" => NotBegun
  /\ pc = "done" => PlaceOfBoth /\ LoadsAgree /\ CellsAgree

----
LEMMA BlocksFinite ==
  ASSUME f \in Functions
  PROVE  IsFiniteSet(Blocks(f))
<1>1. f.bbs \in Seq(Block)
  <2>1. IsFunction(f) BY FunctionsAssumption
  <2> QED BY <2>1, Zenon DEF IsFunction
<1> DEFINE s == f.bbs
           R == {s[m] : m \in 1..Len(s)}
<1>2. Len(s) \in Nat /\ DOMAIN s = 1..Len(s) BY <1>1
<1>3. Blocks(f) = R BY <1>2 DEF Blocks
<1>4. IsFiniteSet(1..Len(s)) BY <1>2, FS_Interval
<1>5. s \in Surjection(1..Len(s), R) BY <1>1, <1>2 DEF Surjection
<1> QED BY <1>3, <1>4, <1>5, FS_Surjection

LEMMA RootDominates ==
  ASSUME f \in Functions, NEW b \in Blocks(f)
  PROVE  Dominates(f, root, b)
<1>1. Around(f, root, {}) BY DEF Around, root
<1> QED BY <1>1 DEF Dominates

\* Below each block that is not the last of its branch there is a child: what a block
\* strictly dominates is in the subtree of one of its children.
LEMMA ChildExists ==
  ASSUME f \in Functions, NEW b \in Blocks(f), NEW n \in Blocks(f), StrictlyDominates(f, b, n)
  PROVE  \E c \in Children(b) : Dominates(f, c, n)
<1>1. EdgesInside(f) /\ AllReached(f) /\ root \in Blocks(f) BY Code
<1>2. PICK c \in Blocks(f) : IsIdom(f, b, c) /\ Dominates(f, c, n) BY <1>1, BlocksFinite, ChildOf
<1>3. c # root
  <2>1. Dominates(f, root, b) BY <1>1, RootDominates
  <2> QED BY <1>1, <1>2, <2>1, DominatesAntisymmetric DEF IsIdom, StrictlyDominates
<1> QED BY <1>2, <1>3 DEF Children

----
\* Which definition reaches a place is said by the function and its phis.
LEMMA SameValues ==
  ASSUME f' = f, DOMAIN ir'.operands = DOMAIN ir.operands
  PROVE  /\ \A d, v, b, S : Reaching(d, v, b, S)' <=> Reaching(d, v, b, S)
         /\ \A v, b, S : Unset(v, b, S)' <=> Unset(v, b, S)
         /\ \A l, b : Prior(l, b)' = Prior(l, b)
         /\ \A l : Bare(l)' <=> Bare(l)
<1>1. /\ \A v, b : Defines(b, v)' <=> Defines(b, v)
      /\ \A v, b : Pushes(b, v)' = Pushes(b, v)
      /\ \A b : PhisOf(b)' = PhisOf(b)
  BY SamePhis, Zenon
<1>2. \A v, x, b : ComesBefore(v, x, b)' <=> ComesBefore(v, x, b) BY <1>1, Zenon DEF ComesBefore
<1>3. \A d, S, b : LastOf(d, S, b)' <=> LastOf(d, S, b) BY <1>2, Zenon DEF LastOf
<1>4. \A c, v, b : Closest(c, v, b)' <=> Closest(c, v, b) BY <1>1, Zenon DEF Closest
<1>5. ASSUME NEW d, NEW v, NEW b, NEW S PROVE Reaching(d, v, b, S)' <=> Reaching(d, v, b, S)
  <2>1. \A c : LastOf(d, Pushes(c, v), c)' <=> LastOf(d, Pushes(c, v), c) BY <1>1, <1>3, Zenon
  <2> QED BY <1>3, <1>4, <2>1, Zenon DEF Reaching
<1>6. \A v, b, S : Unset(v, b, S)' <=> Unset(v, b, S) BY <1>1, Zenon DEF Unset
<1>7. \A l, b : Prior(l, b)' = Prior(l, b) BY <1>1, <1>2, Zenon DEF Prior, Address
<1>8. ASSUME NEW l PROVE Bare(l)' <=> Bare(l)
  <2>1. \A b : Unset(Address(l), b, Prior(l, b))' <=> Unset(Address(l), b, Prior(l, b))
    BY <1>6, <1>7, Zenon DEF Address
  <2> QED BY <2>1, Zenon DEF Bare
<1> QED BY <1>5, <1>6, <1>7, <1>8

\* What the walk has passed is ahead no more, and its stores give what they gave.
StoresKept ==
  \A d \in InstrsIn(f) : IsStore(d) /\ ~Ahead(d) => ~Ahead(d)' /\ ir'.operands[d][1] = ir.operands[d][1]

LEMMA HoldsKept ==
  ASSUME IrOK, f' = f, DOMAIN ir'.operands = DOMAIN ir.operands, StoresKept
  PROVE  /\ \A e, v, b, S : Holds(e, v, b, S) => Holds(e, v, b, S)'
         /\ \A l, e : Reads(l, e) => Reads(l, e)'
<1>1. ASSUME NEW e, NEW v, NEW b, NEW S, Holds(e, v, b, S) PROVE Holds(e, v, b, S)'
  <2>1. PICK d \in DOMAIN ir.operands :
          Reaching(d, v, b, S) /\ e = Given(d) /\ (IsPhi(d) \/ (IsStore(d) /\ ~Ahead(d)))
    BY <1>1 DEF Holds
  <2>2. Reaching(d, v, b, S)' BY <2>1, SameValues
  <2>3. e = Given(d)' /\ (IsPhi(d) \/ (IsStore(d) /\ ~Ahead(d)'))
    <3>1. CASE IsPhi(d) BY <2>1, <3>1 DEF Given
    <3>2. CASE ~IsPhi(d)
      <4>1. d \in InstrsIn(f) BY <3>2, Phis DEF IrOK
      <4> QED BY <2>1, <3>2, <4>1 DEF Given, StoresKept
    <3> QED BY <3>1, <3>2
  <2> QED BY <2>2, <2>3 DEF Holds
<1>2. ASSUME NEW l, NEW e, Reads(l, e) PROVE Reads(l, e)'
  <2>1. \A b : Holds(e, Address(l), b, Prior(l, b)) => Holds(e, Address(l), b, Prior(l, b))'
    BY <1>1, SameValues, Zenon DEF Address
  <2> QED BY <1>2, <2>1 DEF Reads
<1> QED BY <1>1, <1>2

\* What is below the block of the last call is below a child of it.
LEMMA BelowChild ==
  ASSUME IInv, LeftOK, pc \in {"enter", "instr"}, NEW n \in Blocks(f), StrictlyDominates(f, bb_, n)
  PROVE  Below(n)
<1>1. f \in Functions /\ calls # << >> /\ bb_ \in Blocks(f) /\ Len(calls) \in DOMAIN calls
  BY AtBlock DEF IInv, CallsOK
<1>2. PICK c \in Children(bb_) : Dominates(f, c, n) BY <1>1, ChildExists
<1>3. c \in calls[Len(calls)].left BY <1>2 DEF LeftOK, this
<1> QED BY <1>1, <1>2, <1>3 DEF Below

\* What reads an instruction that is ahead of the walk is ahead of it.
LEMMA AheadReader ==
  ASSUME IInv, CodeOK, LeftOK, NEW x \in InstrsIn(f), NEW v \in InstrsIn(f), v \in Range(f.operands[x]), Ahead(v)
  PROVE  Ahead(x)
<1> SUFFICES ASSUME pc # "place" PROVE Ahead(x)
  BY DEF Ahead
<1>1. f \in Functions /\ CallsOK BY DEF IInv
<1>2. PICK b \in Blocks(f) : x \in Range(f.code[b]) BY <1>1, Places
<1>3. b \in Block BY <1>1, Code
<1>4. PICK c \in Blocks(f) : /\ v \in Range(f.code[c]) /\ Dominates(f, c, b)
                             /\ c = b => \E i, j \in DOMAIN f.code[b] :
                                  i < j /\ f.code[b][i] = v /\ f.code[b][j] = x
  <2>1. \/ \E i, j \in DOMAIN f.code[b] : i < j /\ f.code[b][i] = v /\ f.code[b][j] = x
        \/ \E c \in Blocks(f) : c # b /\ v \in Range(f.code[c]) /\ Dominates(f, c, b)
    BY <1>1, <1>2, <1>3, ReadBehind
  <2> QED BY <1>1, <2>1, Code, DominatesReflexive DEF Range
<1>5. ASSUME NEW n \in Blocks(f), v \in Range(f.code[n]) PROVE n = c
  BY <1>1, <1>4, <1>5, Code, Places
<1>6. CASE \E n \in Blocks(f) : Below(n) /\ v \in Range(f.code[n])
  <2>1. Below(c) BY <1>5, <1>6
  <2>2. Below(b) BY <1>4, <2>1, DominatesTransitive DEF Below
  <2> QED BY <1>2, <2>2 DEF Ahead
<1>7. ASSUME pc \in {"enter", "instr"}, c = bb_, c # b PROVE Ahead(x)
  <2>1. Below(b) BY <1>4, <1>7, BelowChild DEF StrictlyDominates
  <2> QED BY <1>2, <2>1 DEF Ahead
<1>8. CASE pc = "enter" /\ v \in Range(f.code[bb_])
  <2>1. bb_ = c
    <3>1. bb_ \in Blocks(f) BY <1>1, <1>8, AtBlock DEF CallsOK
    <3> QED BY <1>5, <1>8, <3>1
  <2> QED BY <1>2, <1>7, <1>8, <2>1 DEF Ahead
<1>9. CASE pc = "instr" /\ \E j \in DOMAIN ir.code[bb_] : j > line /\ ir.code[bb_][j] = v
  <2>1. /\ bb_ \in Blocks(f) /\ bb_ \in Block /\ Len(calls) \in DOMAIN calls /\ calls # << >>
        /\ ir.code[bb_] \in Seq(DOMAIN ir.operands)
    BY <1>1, <1>9, AtBlock DEF CallsOK
  <2>2. PICK j \in DOMAIN ir.code[bb_] : j > line /\ ir.code[bb_][j] = v BY <1>9
  <2>3. v \in Range(f.code[bb_])
    <3>1. v \in Range(ir.code[bb_]) /\ ~IsPhi(v) BY <1>1, <2>2, Code DEF Range
    <3> QED BY <2>1, <3>1, AtBlock
  <2>4. bb_ = c BY <1>5, <2>1, <2>3
  <2>5. CASE c = b
    <3>1. PICK i, k \in DOMAIN f.code[b] : i < k /\ f.code[b][i] = v /\ f.code[b][k] = x
      BY <1>4, <2>5
    <3>2. Ordered(bb_) /\ Intact(bb_)
      <4>1. Open(bb_) BY <2>1 DEF Open, bb_, this
      <4>2. Intact(bb_) BY <1>1, <2>1 DEF CallsOK, bb_, this
      <4> QED BY <2>1, <4>1, <4>2 DEF CodeOK
    <3>3. x \in Range(ir.code[bb_]) BY <1>2, <2>4, <2>5, <3>2 DEF Intact
    <3>4. PICK m \in DOMAIN ir.code[bb_] : ir.code[bb_][m] = x BY <3>3 DEF Range
    <3>5. j < m BY <2>2, <2>4, <2>5, <3>1, <3>2, <3>4 DEF Ordered
    <3>6. m > line
      <4>1. j \in Nat /\ m \in Nat /\ line \in Nat BY <2>1, <2>2, <3>4, <1>9 DEF IInv, StacksOK
      <4> QED BY ONLY <2>2, <3>5, <4>1
    <3> QED BY <1>9, <3>4, <3>6 DEF Ahead
  <2> QED BY <1>7, <1>9, <2>4, <2>5
<1> QED BY <1>6, <1>8, <1>9 DEF Ahead

\* What is ahead of the walk is in its block still.
LEMMA AheadIsLeft ==
  ASSUME IInv, NEW x \in InstrsIn(f), Ahead(x)
  PROVE  x \in Instrs
<1>1. f \in Functions /\ CallsOK /\ PlaceOK BY DEF IInv
<1>2. \A n \in Blocks(f) : n \in Block BY <1>1, Code
<1>3. \A n \in Block : Intact(n) /\ x \in Range(f.code[n]) => x \in Instrs BY DEF Intact, Instrs
<1>4. CASE pc = "place"
  <2>1. PICK n \in Blocks(f) : x \in Range(f.code[n]) BY <1>1, Places
  <2> QED BY <1>1, <1>2, <1>3, <1>4, <2>1 DEF PlaceOK
<1>5. CASE \E n \in Blocks(f) : Below(n) /\ x \in Range(f.code[n])
  BY <1>1, <1>2, <1>3, <1>5 DEF Below, CallsOK
<1>6. CASE pc \in {"enter", "instr"}
  <2>1. bb_ \in Block /\ Len(calls) \in DOMAIN calls BY <1>1, <1>6, AtBlock DEF CallsOK
  <2>2. Intact(bb_) BY <1>1, <2>1 DEF CallsOK, bb_, this
  <2>3. CASE x \in Range(f.code[bb_]) BY <1>3, <2>1, <2>2, <2>3
  <2>4. CASE \E j \in DOMAIN ir.code[bb_] : ir.code[bb_][j] = x BY <2>1, <2>4 DEF Instrs, Range
  <2> QED BY <1>5, <1>6, <2>3, <2>4 DEF Ahead
<1> QED BY <1>4, <1>5, <1>6 DEF Ahead

\* The value of a variable is no load that is still to be replaced.
LEMMA HeldNotAhead ==
  ASSUME IInv, CodeOK, OperandsOK, LeftOK, NEW e, NEW v, NEW b, NEW S, Holds(e, v, b, S)
  PROVE  ~(e \in InstrsIn(f) /\ IsLoad(e) /\ Ahead(e))
<1> SUFFICES ASSUME e \in InstrsIn(f), IsLoad(e), Ahead(e) PROVE FALSE
  OBVIOUS
<1>1. PICK d \in DOMAIN ir.operands : e = Given(d) /\ (IsPhi(d) \/ (IsStore(d) /\ ~Ahead(d)))
  BY DEF Holds
<1>2. ~IsPhi(d)
  <2>1. ~IsPhi(e) BY DEF IsLoad, IsPhi
  <2> QED BY <1>1, <2>1 DEF Given
<1>3. IsStore(d) /\ ~Ahead(d) /\ e = ir.operands[d][1] /\ d \in InstrsIn(f)
  BY <1>1, <1>2, Phis DEF Given, IInv, IrOK
<1>4. DOMAIN f.operands[d] = {1, 2} BY <1>3, Kinds DEF IInv
<1>5. e = f.operands[d][1] \/ Settled(e) BY <1>3, <1>4 DEF OperandsOK
<1>6. e \in Range(f.operands[d]) BY <1>4, <1>5 DEF Settled, Range
<1> QED BY <1>3, <1>6, AheadReader

----
\* The walk has dealt with an instruction: it is the only one that is ahead no more.
LEMMA AheadOn ==
  ASSUME IInv, CodeOK, pc = "instr", pc' = "instr", line < Len(ir.code[bb_]), line' = line + 1,
         f' = f, ir'.code = ir.code, DOMAIN ir'.operands = DOMAIN ir.operands,
         DOMAIN ir'.use_list = DOMAIN ir.use_list,
         calls' = calls \/ \E x \in InstrsIn(f) : WaitDelete(x)
  PROVE  /\ bb_' = bb_
         /\ \A n : Below(n)' = Below(n)
         /\ \A x \in InstrsIn(f) : Ahead(x)' => Ahead(x)
         /\ \A x \in InstrsIn(f) : Ahead(x) => Ahead(x)' \/ x = instr
         /\ \A x : x = instr /\ x \in InstrsIn(f) => ~Ahead(x)' /\ Ahead(x) /\ x \in Range(f.code[bb_])
<1>1. /\ f \in Functions /\ calls # << >> /\ line \in Nat /\ bb_ \in Blocks(f) /\ bb_ \in Block
      /\ ir.code[bb_] \in Seq(DOMAIN ir.operands) /\ IsInjective(ir.code[bb_])
      /\ line + 1 \in DOMAIN ir.code[bb_]
  BY AtInstrOfBlock, AtBlock DEF IInv
<1>2. /\ bb_' = bb_
      /\ \A n : Below(n)' = Below(n)
      /\ \A x \in InstrsIn(f) : Ahead(x)' => Ahead(x)
  BY <1>1, Onwards
<1>3. ASSUME NEW x \in InstrsIn(f), Ahead(x) PROVE Ahead(x)' \/ x = instr
  <2>1. CASE \E n \in Blocks(f) : Below(n) /\ x \in Range(f.code[n]) BY <1>2, <2>1 DEF Ahead
  <2>2. CASE \E j \in DOMAIN ir.code[bb_] : j > line /\ ir.code[bb_][j] = x
    <3>1. PICK j \in DOMAIN ir.code[bb_] : j > line /\ ir.code[bb_][j] = x BY <2>2
    <3>2. CASE j = line + 1 BY <3>1, <3>2 DEF instr
    <3>3. CASE j # line + 1
      <4>1. j > line' /\ j \in DOMAIN ir'.code[bb_'] /\ ir'.code[bb_'][j] = x
        BY <1>1, <1>2, <3>1, <3>3
      <4> QED BY <4>1 DEF Ahead
    <3> QED BY <3>2, <3>3
  <2> QED BY <1>3, <2>1, <2>2 DEF Ahead
<1>4. ASSUME NEW x, x = instr, x \in InstrsIn(f) PROVE ~Ahead(x)' /\ Ahead(x) /\ x \in Range(f.code[bb_])
  <2>1. ~IsPhi(x) /\ x = ir.code[bb_][line + 1] BY <1>1, <1>4, Code DEF instr
  <2>2. x \in Range(f.code[bb_]) BY <1>4, <2>1, AtInstrOfBlock
  <2>3. Ahead(x) BY <1>1, <2>1 DEF Ahead
  <2>4. ASSUME NEW n \in Blocks(f), x \in Range(f.code[n]) PROVE ~Below(n)
    <3>1. n = bb_ BY <1>1, <2>2, <2>4, Code, Places
    <3> QED BY <1>1, <3>1, NotBelow, Code, DominatesReflexive
  <2>5. ASSUME NEW j \in DOMAIN ir.code[bb_], j > line + 1 PROVE ir.code[bb_][j] # x
    BY <1>1, <2>1, <2>5 DEF IsInjective
  <2> QED BY <1>2, <2>2, <2>3, <2>4, <2>5 DEF Ahead
<1> QED BY <1>2, <1>3, <1>4

LEMMA SubstFrom ==
  ASSUME f' = f,
         \A x \in InstrsIn(f) : \A j \in DOMAIN f.operands[x] :
           \E l, e : l = f.operands[x][j] /\ e = ir'.operands[x][j] /\ Becomes(l, e)'
  PROVE  SubstOK'
<1> SUFFICES ASSUME NEW x \in InstrsIn(f), NEW j \in DOMAIN f.operands[x]
             PROVE  Becomes(f.operands[x][j], ir.operands[x][j])'
  BY Zenon DEF SubstOK
<1>1. PICK l, e : l = f.operands[x][j] /\ e = ir'.operands[x][j] /\ Becomes(l, e)' OBVIOUS
<1> QED BY <1>1, Zenon

\* A load that is ahead no more has been replaced, or reads nothing.
LEMMA SubstKept ==
  ASSUME IInv, SubstOK, f' = f, DOMAIN ir'.operands = DOMAIN ir.operands, StoresKept,
         \A x \in InstrsIn(f) : ir'.operands[x] = ir.operands[x],
         \A x \in InstrsIn(f) : Ahead(x)' => Ahead(x),
         \A x \in InstrsIn(f) : IsLoad(x) /\ Ahead(x) => Ahead(x)' \/ Bare(x)
  PROVE  SubstOK'
<1>1. \A x : Bare(x)' <=> Bare(x) BY SameValues
<1>2. \A x, e : Reads(x, e) => Reads(x, e)' BY HoldsKept DEF IInv
<1>3. \A v \in ValuesIn(f) : IsLoad(v) => v \in InstrsIn(f) BY Kinds DEF IInv, IsLoad
<1>4. ASSUME NEW l \in ValuesIn(f), NEW e, Becomes(l, e) PROVE Becomes(l, e)'
  BY <1>1, <1>2, <1>3, <1>4 DEF Becomes
<1>5. ASSUME NEW x \in InstrsIn(f), NEW j \in DOMAIN f.operands[x]
      PROVE  \E l, e : l = f.operands[x][j] /\ e = ir'.operands[x][j] /\ Becomes(l, e)'
  <2>1. PICK l, e : l = f.operands[x][j] /\ e = ir.operands[x][j] OBVIOUS
  <2>2. l \in ValuesIn(f) /\ Becomes(l, e) BY <2>1, Code DEF SubstOK, IInv
  <2> QED BY <1>4, <2>1, <2>2
<1> QED BY <1>5, SubstFrom

LEMMA CarriesKept ==
  ASSUME IInv, CarriesOK, f' = f, DOMAIN ir'.operands = DOMAIN ir.operands, StoresKept,
         \A x \in DOMAIN ir.operands : IsPhi(x) => ir'.operands[x] = ir.operands[x],
         \A c \in Blocks(f) : Filled(c)' => Filled(c)
  PROVE  CarriesOK'
<1> SUFFICES ASSUME NEW v \in Variables, NEW s \in Blocks(f), NEW c \in PredsOf(f, s), HasPhi(v, s), Filled(c)'
             PROVE  Carries(PhiOf(v, s), v, c)'
  BY SameFunction, SamePhis DEF CarriesOK
<1>1. PICK p : p = PhiOf(v, s) OBVIOUS
<1>2. p \in DOMAIN ir.operands /\ ir'.operands[p] = ir.operands[p] BY <1>1, Phis DEF HasPhi
<1>3. Carries(p, v, c) BY <1>1 DEF CarriesOK, PredsOf
<1>4. Pushes(c, v)' = Pushes(c, v) /\ (Unset(v, c, Pushes(c, v)) => Unset(v, c, Pushes(c, v))')
  BY SamePhis, SameValues
<1>5. \A e : Holds(e, v, c, Pushes(c, v)) => Holds(e, v, c, Pushes(c, v))'
  BY <1>4, HoldsKept DEF IInv
<1>6. Carries(p, v, c)' BY <1>2, <1>3, <1>4, <1>5 DEF Carries
<1> QED BY <1>1, <1>6

StacksGrow == \A v : \A n \in DOMAIN StackOf(v) : n \in DOMAIN StackOf(v)' /\ StackOf(v)'[n] = StackOf(v)[n]

\* The values on the stacks stay those of their variables.
LEMMA EntryKept ==
  ASSUME IrOK, f' = f, DOMAIN ir'.operands = DOMAIN ir.operands, StoresKept, StacksGrow,
         NEW n, NEW v, NEW b, NEW S, EntryOK(n, v, b, S)
  PROVE  EntryOK(n, v, b, S)'
<1>1. n = 0 => Unset(v, b, S)' BY SameValues DEF EntryOK
<1>2. n # 0 => n \in DOMAIN StackOf(v)' /\ Holds(StackOf(v)[n], v, b, S)' /\ StackOf(v)'[n] = StackOf(v)[n]
  <2>1. \A e : Holds(e, v, b, S) => Holds(e, v, b, S)' BY HoldsKept
  <2> QED BY <2>1 DEF EntryOK, StacksGrow
<1> QED BY <1>1, <1>2 DEF EntryOK

LEMMA HeldKept ==
  ASSUME IrOK, f' = f, DOMAIN ir'.operands = DOMAIN ir.operands, StoresKept, StacksGrow, BaseKept,
         DOMAIN calls' = DOMAIN calls, \A k \in DOMAIN calls : calls'[k].bb = calls[k].bb,
         StackValuesOK
  PROVE  \E base \in [DOMAIN calls' -> [Variables' -> Nat]] : BaseOK(base)' /\ HeldOK(base)'
<1>1. PICK base \in [DOMAIN calls -> [Variables -> Nat]] : BaseOK(base) /\ HeldOK(base)
  BY DEF StackValuesOK
<1>2. \A v \in Variables : \A k \in DOMAIN calls : EntryOK(base[k][v], v, calls[k].bb, {})'
  BY <1>1, EntryKept DEF HeldOK
<1>3. HeldOK(base)' BY <1>2, SameFunction DEF HeldOK
<1>4. BaseOK(base)' BY <1>1 DEF BaseKept
<1> QED BY <1>1, <1>3, <1>4, SameFunction

----
\* What nothing is stored to has no definitions.
LEMMA NotVariable ==
  ASSUME f \in Functions, IrOK, NEW v, v \notin Variables, NEW b \in Block
  PROVE  Pushes(b, v) = {} /\ ~Defines(b, v)
<1>1. v \notin StoredIn(f, b) BY DEF Variables
<1>2. ~HasPhi(v, b)
  <2> SUFFICES ASSUME PhiOf(v, b) \in DOMAIN ir.operands PROVE FALSE
    BY DEF HasPhi
  <2>1. PhiOf(v, b) \notin InstrsIn(f) BY Code, Phis
  <2>2. PICK w \in Variables, c \in Blocks(f) : PhiOf(v, b) = PhiOf(w, c) BY <2>1 DEF IrOK
  <2> QED BY <2>2, Phis
<1>3. Pushes(b, v) = {} BY <1>1, <1>2, Stored DEF Pushes
<1> QED BY <1>1, <1>2, <1>3 DEF Defines

\* A definition is a store of the block, or its phi.
LEMMA PushedKinds ==
  ASSUME f \in Functions, IrOK, NEW b \in Block, NEW v, NEW d \in Pushes(b, v)
  PROVE  /\ d \in DOMAIN ir.operands
         /\ IsPhi(d) => d = PhiOf(v, b) /\ d \in PhisOf(b)
         /\ ~IsPhi(d) => IsStore(d) /\ d \in Range(f.code[b]) /\ d \in InstrsIn(f) /\ d \notin PhisOf(b)
<1>1. v \in Variables BY NotVariable
<1>2. CASE d \in Range(f.code[b]) /\ IsStore(d)
  <2>1. d \in InstrsIn(f) /\ ~IsPhi(d) BY <1>2, Places DEF IsStore, IsPhi
  <2>2. d \notin PhisOf(b) BY <2>1, Phis DEF PhisOf
  <2> QED BY <1>2, <2>1, <2>2 DEF IrOK
<1>3. CASE d = PhiOf(v, b) /\ HasPhi(v, b) BY <1>1, <1>3, Phis DEF HasPhi, PhisOf
<1> QED BY <1>2, <1>3 DEF Pushes

\* The definitions before an instruction are those its block has pushed.
LEMMA PriorIsHere ==
  ASSUME IInv, CodeOK, KeptOK, pc = "instr", line < Len(ir.code[bb_]), NEW x, x = instr, ~IsPhi(x), NEW v
  PROVE  {d \in Pushes(bb_, v) : ComesBefore(d, x, bb_)} = PushedBy(line, v)
<1>1. /\ f \in Functions /\ IrOK /\ CallsOK /\ calls # << >> /\ line \in Nat /\ bb_ \in Block
      /\ ir.code[bb_] \in Seq(DOMAIN ir.operands) /\ Len(calls) \in DOMAIN calls
      /\ line + 1 \in DOMAIN ir.code[bb_] /\ ir.code[bb_][line + 1] = x
      /\ x \in Range(f.code[bb_])
  BY AtInstrOfBlock, AtBlock DEF IInv, instr
<1>2. Ordered(bb_) /\ Intact(bb_) /\ Kept(bb_)
  <2>1. Open(bb_) BY <1>1 DEF Open, bb_, this
  <2>2. Intact(bb_) BY <1>1 DEF CallsOK, bb_, this
  <2> QED BY <1>1, <2>1, <2>2 DEF CodeOK, KeptOK
<1>3. ASSUME NEW d \in Pushes(bb_, v)
      PROVE  ComesBefore(d, x, bb_) <=> IsPhi(d) \/ \E j \in 1..line : ir.code[bb_][j] = d
  <2>1. CASE IsPhi(d) BY <1>1, <2>1, PushedKinds DEF ComesBefore
  <2>2. CASE ~IsPhi(d)
    <3>1. d \in Range(f.code[bb_]) /\ d \notin PhisOf(bb_) BY <1>1, <2>2, PushedKinds
    <3>2. ASSUME NEW j \in 1..line, ir.code[bb_][j] = d PROVE ComesBefore(d, x, bb_)
      <4>1. j \in DOMAIN ir.code[bb_] /\ j < line + 1 BY <1>1
      <4>2. \E i, k \in DOMAIN f.code[bb_] : i < k /\ f.code[bb_][i] = ir.code[bb_][j]
                                             /\ f.code[bb_][k] = ir.code[bb_][line + 1]
        BY <1>1, <1>2, <3>1, <3>2, <4>1, InOrder
      <4> QED BY <1>1, <3>2, <4>2 DEF ComesBefore
    <3>3. ASSUME ComesBefore(d, x, bb_) PROVE \E j \in 1..line : ir.code[bb_][j] = d
      <4>1. PICK i, k \in DOMAIN f.code[bb_] : i < k /\ f.code[bb_][i] = d /\ f.code[bb_][k] = x
        BY <3>1, <3>3 DEF ComesBefore
      <4>2. PICK m \in DOMAIN ir.code[bb_] : ir.code[bb_][m] = d BY <1>2, <3>1 DEF Intact, Range
      <4>3. m < line + 1 BY <1>1, <1>2, <4>1, <4>2 DEF Ordered
      <4>4. m \in 1..line BY <1>1, <4>2, <4>3
      <4> QED BY <4>2, <4>4
    <3> QED BY <2>2, <3>2, <3>3
  <2> QED BY <2>1, <2>2
<1> QED BY <1>3 DEF PushedBy

LEMMA HereAfter ==
  ASSUME IInv, pc = "instr", pc' = "instr", line < Len(ir.code[bb_]), line' = line + 1,
         f' = f, ir'.code = ir.code, DOMAIN ir'.operands = DOMAIN ir.operands, bb_' = bb_
  PROVE  \A v : Here(v)' = Here(v) \cup {x \in {instr} : x \in Pushes(bb_, v)}
<1>1. \A v : Pushes(bb_, v)' = Pushes(bb_, v) BY SamePhis
<1>2. \A v : PushedBy(line, v)' = PushedBy(line + 1, v) BY <1>1 DEF PushedBy
<1>3. \A v : Here(v)' = PushedBy(line, v)' BY DEF Here
<1>4. \A v : Here(v) = PushedBy(line, v) BY DEF Here
<1> QED BY <1>2, <1>3, <1>4, AtInstrOfBlock

\* The address of a load is not replaced.
LEMMA AddressKept ==
  ASSUME IInv, SubstOK, NEW x \in InstrsIn(f), IsLoad(x)
  PROVE  Lval(x, ir.operands[x]) = Address(x) /\ Address(x) \in Allocas(f)
<1>1. 1 \in DOMAIN f.operands[x] /\ f.operands[x][1] \in Allocas(f) BY Kinds DEF IInv
<1>2. ~IsLoad(f.operands[x][1]) BY <1>1 DEF Allocas, IsAlloca, IsLoad
<1>3. ir.operands[x][1] = f.operands[x][1] BY <1>1, <1>2 DEF SubstOK, Becomes
<1> QED BY <1>1, <1>3 DEF Lval, IsLoad, IsPhi, Address

\* A load that finds no stack, or an empty one, reads nothing.
LEMMA ReadsNothing ==
  ASSUME IInv, CodeOK, KeptOK, ValuesOK, pc = "instr", line < Len(ir.code[bb_]), IsLoad(instr),
         lval \notin Known \/ var_val_stack[lval] = << >>
  PROVE  Bare(instr)
<1>1. PICK x, v : x = instr /\ v = lval OBVIOUS
<1>2. /\ f \in Functions /\ IrOK /\ calls # << >> /\ bb_ \in Block /\ ~IsPhi(x)
      /\ x \in Range(f.code[bb_]) /\ x \in InstrsIn(f) /\ v = Address(x)
  <2>1. ~IsPhi(x) BY <1>1 DEF IsLoad, IsPhi
  <2>2. SubstOK BY DEF ValuesOK
  <2>3. x \in InstrsIn(f) BY <1>1, <2>1, AtInstrOfBlock
  <2> QED BY <1>1, <2>1, <2>2, <2>3, AtInstrOfBlock, AtBlock, AddressKept DEF IInv, lval
<1>3. Prior(x, bb_) = Here(v) BY <1>1, <1>2, PriorIsHere DEF Prior, Here
<1>4. Unset(v, bb_, Here(v))
  <2>1. CASE v \in Variables
    <3>1. Len(StackOf(v)) = 0 BY <1>1 DEF StackOf
    <3>2. EntryOK(Len(StackOf(v)), v, bb_, Here(v)) BY <2>1 DEF ValuesOK, StackValuesOK, TopOK
    <3> QED BY <3>1, <3>2 DEF EntryOK
  <2>2. CASE v \notin Variables
    <3>1. Here(v) = {} BY <1>2, <2>2, NotVariable DEF Here, PushedBy
    <3> QED BY <1>2, <2>2, <3>1, Code, NotVariable DEF Unset
  <2> QED BY <2>1, <2>2
<1>5. ASSUME NEW b \in Blocks(f), x \in Range(f.code[b]) PROVE b = bb_
  BY <1>2, <1>5, Code, Places
<1> QED BY <1>1, <1>2, <1>3, <1>4, <1>5 DEF Bare

\* While the walk is in a block no call has fewer children left.
LEMMA LeftKept ==
  ASSUME CallsOK, LeftOK, calls # << >>, f' = f, pc \in {"enter", "instr"},
         calls' = calls \/ \E x \in InstrsIn(f) : WaitDelete(x)
  PROVE  LeftOK'
<1>1. /\ DOMAIN calls' = DOMAIN calls /\ Len(calls') = Len(calls) /\ bb_' = bb_
      /\ \A k \in DOMAIN calls : calls'[k].left = calls[k].left
  BY Marked
<1>2. Len(calls) \in DOMAIN calls BY DEF CallsOK
<1>3. this'.left = this.left BY <1>1, <1>2 DEF this
<1>4. Children(bb_)' = Children(bb_) BY <1>1, SameFunction
<1> QED BY <1>3, <1>4 DEF LeftOK

\* The walk goes on to the next instruction, without changing an operand.
LEMMA WalkedValues ==
  ASSUME IInv, CodeOK, ValuesOK, pc = "instr", pc' = "instr", line < Len(ir.code[bb_]), line' = line + 1,
         f' = f, ir' = ir, calls' = calls \/ \E x \in InstrsIn(f) : WaitDelete(x), BaseKept, StacksGrow, TopOK',
         IsLoad(instr) => Bare(instr)
  PROVE  ValuesOK'
<1>1. /\ LeftOK /\ SubstOK /\ CarriesOK /\ StackValuesOK /\ CallsOK /\ IrOK /\ calls # << >>
  BY AtInstrOfBlock DEF ValuesOK, IInv
<1>2. /\ bb_' = bb_
      /\ \A x \in InstrsIn(f) : Ahead(x)' => Ahead(x)
      /\ \A x \in InstrsIn(f) : Ahead(x) => Ahead(x)' \/ x = instr
  BY AheadOn
<1>3. /\ DOMAIN calls' = DOMAIN calls
      /\ \A k \in DOMAIN calls : calls'[k].bb = calls[k].bb /\ calls'[k].left = calls[k].left
  BY <1>1, Marked
<1>4. StoresKept BY <1>2 DEF StoresKept
<1>5. SubstOK' BY <1>1, <1>2, <1>4, SubstKept
<1>6. CarriesOK'
  <2>1. \A c : Filled(c)' => Filled(c) BY <1>2, <1>3 DEF Filled, Below
  <2> QED BY <1>1, <1>4, <2>1, CarriesKept
<1>7. LeftOK' BY <1>1, LeftKept
<1>8. \E base \in [DOMAIN calls' -> [Variables' -> Nat]] : BaseOK(base)' /\ HeldOK(base)'
  BY <1>1, <1>3, <1>4, HeldKept
<1> QED BY <1>5, <1>6, <1>7, <1>8 DEF ValuesOK, StackValuesOK

\* What is on top stays on top where nothing is pushed.
LEMMA TopKept ==
  ASSUME IInv, TopOK, pc = "instr", pc' = "instr", line < Len(ir.code[bb_]), line' = line + 1,
         f' = f, ir'.code = ir.code, DOMAIN ir'.operands = DOMAIN ir.operands, bb_' = bb_, StoresKept,
         var_val_stack' = var_val_stack, ~IsStore(instr)
  PROVE  TopOK' /\ StacksGrow
<1>1. \A v : StackOf(v)' = StackOf(v) BY Zenon DEF StackOf, Known
<1>2. StacksGrow BY <1>1 DEF StacksGrow
<1>3. \A v : Here(v)' = Here(v)
  <2> SUFFICES ASSUME NEW v, instr \in Pushes(bb_, v) PROVE instr \in Here(v)
    BY HereAfter
  <2>1. IsPhi(instr) BY Phis DEF Pushes
  <2> QED BY <2>1 DEF Here, PushedBy
<1>4. \A v \in Variables : EntryOK(Len(StackOf(v)), v, bb_, Here(v))'
  <2> TAKE v \in Variables
  <2>1. PICK n, S : n = Len(StackOf(v)) /\ S = Here(v) OBVIOUS
  <2>2. EntryOK(n, v, bb_, S)' BY <1>2, <2>1, EntryKept DEF TopOK, IInv
  <2> QED BY <1>1, <1>3, <2>1, <2>2
<1> QED BY <1>2, <1>4, SameFunction DEF TopOK

LEMMA SkipInstrValues ==
  ASSUME IInv, ListsOK, DomOK, ValuesOK, SkipInstr
  PROVE  ValuesOK'
<1>1. /\ pc = "instr" /\ pc' = "instr" /\ line < Len(ir.code[bb_]) /\ line' = line + 1
      /\ UNCHANGED <<f, ir, var_val_stack, calls>>
      /\ ~IsStore(instr) /\ (IsLoad(instr) => lval \notin Known)
  BY DEF SkipInstr, AtInstr
<1>2. BaseKept /\ CodeOK /\ KeptOK BY SkipInstrStep DEF ListsOK, DomOK
<1>3. IsLoad(instr) => Bare(instr) BY <1>1, <1>2, ReadsNothing
<1>4. StoresKept /\ bb_' = bb_ BY <1>1, <1>2, AheadOn DEF StoresKept
<1>5. TopOK' /\ StacksGrow BY <1>1, <1>4, TopKept DEF ValuesOK, StackValuesOK
<1> QED BY <1>1, <1>2, <1>3, <1>5, WalkedValues

LEMMA LoadOfNothingValues ==
  ASSUME IInv, ListsOK, DomOK, ValuesOK, LoadOfNothing
  PROVE  ValuesOK'
<1>1. /\ pc = "instr" /\ line < Len(ir.code[bb_])
      /\ UNCHANGED <<f, ir, var_val_stack>>
      /\ IsLoad(instr) /\ lval \in Known /\ var_val_stack[lval] = << >>
  BY DEF LoadOfNothing, AtInstr
<1>2. CASE pc' = "abort" BY <1>2 DEF ValuesOK
<1>3. CASE WaitDelete(instr) /\ line' = line + 1 /\ UNCHANGED pc
  <2>1. BaseKept /\ CodeOK /\ KeptOK BY LoadOfNothingStep DEF ListsOK, DomOK
  <2>2. Bare(instr) /\ ~IsStore(instr) /\ instr \in InstrsIn(f)
    <3>1. ~IsPhi(instr) /\ ~IsStore(instr) BY <1>1 DEF IsLoad, IsPhi, IsStore
    <3> QED BY <1>1, <2>1, <3>1, ReadsNothing, AtInstrOfBlock
  <2>3. \E x \in InstrsIn(f) : WaitDelete(x) BY <1>3, <2>2
  <2>4. StoresKept /\ bb_' = bb_ BY <1>1, <1>3, <2>1, <2>3, AheadOn DEF StoresKept
  <2>5. TopOK' /\ StacksGrow BY <1>1, <1>3, <2>2, <2>4, TopKept DEF ValuesOK, StackValuesOK
  <2> QED BY <1>1, <1>3, <2>1, <2>2, <2>3, <2>5, WalkedValues
<1> QED BY <1>2, <1>3 DEF LoadOfNothing

LEMMA RenameStoreValues ==
  ASSUME IInv, ListsOK, DomOK, ValuesOK, RenameStore
  PROVE  ValuesOK'
<1>1. /\ pc = "instr" /\ pc' = "instr" /\ line < Len(ir.code[bb_]) /\ line' = line + 1
      /\ f' = f /\ ir' = ir /\ WaitDelete(instr) /\ IsStore(instr)
      /\ var_val_stack' = [v \in Known \cup {lval} |->
           IF v = lval THEN Append(StackOf(v), ir.operands[instr][1]) ELSE var_val_stack[v]]
  BY DEF RenameStore, AtInstr
<1>2. BaseKept /\ CodeOK /\ KeptOK /\ IrOK /\ f \in Functions /\ StacksOK
  BY RenameStoreStep DEF ListsOK, DomOK, IInv
<1>3. PICK x, v, b, value : x = instr /\ v = lval /\ b = bb_ /\ value = ir.operands[x][1] OBVIOUS
<1>4. /\ x \in InstrsIn(f) /\ x \in Range(f.code[b]) /\ ~IsLoad(x) /\ ~IsPhi(x)
      /\ b \in Block /\ x \in DOMAIN ir.operands
  <2>1. ~IsPhi(x) /\ ~IsLoad(x) BY <1>1, <1>3 DEF IsStore, IsPhi, IsLoad
  <2> QED BY <1>1, <1>3, <2>1, AtInstrOfBlock, AtBlock
<1>5. f.operands[x][2] = v BY <1>1, <1>2, <1>3, <1>4 DEF lval, Lval, IrOK
<1>6. \A w : x \in Pushes(b, w) <=> w = v BY <1>1, <1>3, <1>4, <1>5, Phis DEF Pushes
<1>7. /\ bb_' = bb_ /\ \A y \in InstrsIn(f) : Ahead(y)' => Ahead(y)
      /\ ~Ahead(x)'
  BY <1>1, <1>2, <1>3, <1>4, AheadOn
<1>8. StoresKept BY <1>1, <1>7 DEF StoresKept
<1>9. /\ StackOf(v)' = Append(StackOf(v), value)
      /\ \A w : w # v => StackOf(w)' = StackOf(w)
  <2>1. Known' = Known \cup {v} BY <1>1, <1>3 DEF Known
  <2>2. v \in Known' => var_val_stack'[v] = Append(StackOf(v), value) BY <1>1, <1>3, <2>1
  <2>3. \A w \in Known' : w # v => var_val_stack'[w] = var_val_stack[w] BY <1>1, <1>3, <2>1
  <2> QED BY <2>1, <2>2, <2>3 DEF StackOf
<1>10. Len(StackOf(v)) \in Nat /\ DOMAIN StackOf(v) = 1..Len(StackOf(v)) BY <1>2, StackTyped
<1>11. PICK n : n = Len(StackOf(v)) + 1 OBVIOUS
<1>12. /\ Len(StackOf(v))' = n /\ n # 0 /\ n \in DOMAIN StackOf(v)' /\ StackOf(v)'[n] = value
       /\ \A m \in DOMAIN StackOf(v) : m \in DOMAIN StackOf(v)' /\ StackOf(v)'[m] = StackOf(v)[m]
  <2>1. PICK s, D : s = StackOf(v) /\ D = DOMAIN ir.use_list OBVIOUS
  <2>2. s \in Seq(D) BY <1>2, <2>1, StackTyped
  <2>3. /\ Len(Append(s, value)) = n /\ n # 0 /\ n \in DOMAIN Append(s, value) /\ Append(s, value)[n] = value
        /\ \A m \in DOMAIN s : m \in DOMAIN Append(s, value) /\ Append(s, value)[m] = s[m]
    BY <1>11, <2>1, <2>2
  <2> QED BY <1>9, <2>1, <2>3
<1>13. StacksGrow BY <1>9, <1>12 DEF StacksGrow
<1>14. \A w : Here(w)' = Here(w) \cup {y \in {x} : y \in Pushes(b, w)}
  BY <1>1, <1>3, <1>7, HereAfter
<1>15. ASSUME NEW w \in Variables PROVE EntryOK(Len(StackOf(w)), w, bb_, Here(w))'
  <2>1. CASE w # v
    <3>1. PICK m, S : m = Len(StackOf(w)) /\ S = Here(w) OBVIOUS
    <3>2. EntryOK(m, w, b, S)'
      BY <1>1, <1>2, <1>3, <1>8, <1>13, <3>1, EntryKept DEF TopOK, ValuesOK, StackValuesOK
    <3>3. Here(w)' = S BY <1>6, <1>14, <2>1, <3>1
    <3>4. StackOf(w)' = StackOf(w) BY <1>9, <2>1
    <3>5. Len(StackOf(w))' = m BY <3>1, <3>4, Zenon
    <3> QED BY <1>3, <1>7, <3>2, <3>3, <3>5
  <2>2. CASE w = v
    <3>1. PICK S : S = Here(v) \cup {x} OBVIOUS
    <3>2. Here(v) = {d \in Pushes(b, v) : ComesBefore(d, x, b)}
      BY <1>1, <1>2, <1>3, <1>4, PriorIsHere DEF Here
    <3>3. Reaching(x, v, b, S) BY <3>1, <3>2 DEF Reaching, LastOf
    <3>4. Reaching(x, v, b, S)' /\ Given(x)' = value
      <4>1. Given(x)' = value BY <1>1, <1>3, <1>4 DEF Given
      <4> QED BY <1>1, <3>3, <4>1, SameValues
    <3>5. Holds(value, v, b, S)' BY <1>1, <1>3, <1>4, <1>7, <3>4 DEF Holds
    <3>6. EntryOK(n, v, b, S)' BY <1>12, <3>5 DEF EntryOK
    <3>7. Here(v)' = S BY <1>6, <1>14, <3>1
    <3> QED BY <1>3, <1>7, <1>12, <2>2, <3>6, <3>7
  <2> QED BY <2>1, <2>2
<1>16. TopOK' BY <1>1, <1>15, SameFunction DEF TopOK
<1>17. WaitDelete(x) BY <1>1, <1>3
<1> QED BY <1>1, <1>2, <1>3, <1>4, <1>13, <1>16, <1>17, WalkedValues

\* Every reader of a load that is renamed gets the value; nothing else is changed.
LEMMA AllSubstituted ==
  ASSUME IInv, ListsOK, RenameLoad, NEW x, x = instr, NEW value, value = Newest(lval)
  PROVE  \A y \in Instrs : \A i \in DOMAIN ir.operands[y] :
           ir.operands[y][i] = x => ir'.operands[y][i] = value
<1>1. /\ pc = "instr" /\ pc' = "instr" /\ line < Len(ir.code[bb_]) /\ line' = line + 1
      /\ f' = f /\ ir' = ReplaceAllUseWith(ir, x, value) /\ WaitDelete(x) /\ IsLoad(x) /\ ~IsPhi(x)
  BY DEF RenameLoad, AtInstr, IsLoad, IsPhi
<1>2. IsData(ir) /\ IrOK /\ CodeOK /\ WaitOK /\ UsesOK BY DEF IInv, IrOK, ListsOK, IsData
<1>3. /\ ir'.code = ir.code
      /\ DOMAIN ir'.operands = DOMAIN ir.operands /\ DOMAIN ir'.use_list = DOMAIN ir.use_list
      /\ \A y \in DOMAIN ir.operands : \A i \in DOMAIN ir.operands[y] :
           <<y, i>> \in ir.use_list[x] => ir'.operands[y][i] = value
  BY <1>1, <1>2, Replaced
<1>4. x \in Instrs /\ x \in InstrsIn(f) /\ x \notin Waiting BY <1>1, <1>2, <1>3, MarkedLists
<1>5. x \in DOMAIN ir.use_list /\ x \notin Renamed BY <1>2, <1>4 DEF Renamed, IrOK
<1>6. ASSUME NEW y \in Instrs, NEW i \in DOMAIN ir.operands[y], ir.operands[y][i] = x
      PROVE  ir'.operands[y][i] = value
  <2>1. PICK g : g = ir OBVIOUS
  <2>2. Exact(g, Instrs, x) BY <1>2, <1>5, <2>1 DEF UsesOK
  <2>3. <<y, i>> \in g.use_list[x] BY <1>6, <2>1, <2>2, ExactMeans
  <2> QED BY <1>2, <1>3, <1>6, <2>1, <2>3, InstrsTyped
<1> QED BY <1>6

LEMMA RenameLoadValues ==
  ASSUME IInv, ListsOK, DomOK, ValuesOK, RenameLoad
  PROVE  ValuesOK'
<1>1. /\ pc = "instr" /\ pc' = "instr" /\ line < Len(ir.code[bb_]) /\ line' = line + 1
      /\ f' = f /\ var_val_stack' = var_val_stack
      /\ IsLoad(instr) /\ lval \in Known /\ var_val_stack[lval] # << >> /\ WaitDelete(instr)
      /\ DOMAIN ir'.use_list = DOMAIN ir.use_list
  <2>1. ir' = ReplaceAllUseWith(ir, instr, Newest(lval)) /\ IsData(ir)
    BY DEF RenameLoad, IInv, IrOK, IsData
  <2>2. DOMAIN ir'.use_list = DOMAIN ir.use_list BY <2>1, Replaced
  <2> QED BY <2>2 DEF RenameLoad, AtInstr
<1>2. /\ BaseKept /\ CodeOK /\ OperandsOK /\ KeptOK /\ IrOK /\ f \in Functions /\ StacksOK /\ CallsOK
      /\ LeftOK /\ SubstOK /\ CarriesOK /\ TopOK /\ StackValuesOK
  <2>1. LeftOK /\ SubstOK /\ CarriesOK /\ TopOK /\ StackValuesOK BY <1>1 DEF ValuesOK, StackValuesOK
  <2> QED BY <2>1, RenameLoadStep DEF ListsOK, DomOK, IInv
<1>3. PICK x, v, b, value : x = instr /\ v = lval /\ b = bb_ /\ value = Newest(v) OBVIOUS
<1>4. /\ x \in InstrsIn(f) /\ x \in Range(f.code[b]) /\ IsLoad(x) /\ ~IsPhi(x) /\ ~IsStore(x) /\ calls # << >>
      /\ b \in Block /\ x \in DOMAIN ir.operands /\ WaitDelete(x) /\ v = Address(x) /\ v \in Variables
  <2>1. ~IsPhi(x) /\ IsLoad(x) /\ ~IsStore(x) BY <1>1, <1>3 DEF IsStore, IsPhi, IsLoad
  <2>2. x \in InstrsIn(f) BY <1>1, <1>3, <2>1, AtInstrOfBlock
  <2>3. v = Address(x) BY <1>2, <1>3, <2>1, <2>2, AddressKept DEF lval
  <2> QED BY <1>1, <1>2, <1>3, <2>1, <2>2, <2>3, AtInstrOfBlock, AtBlock DEF StacksOK
<1>5. /\ ir'.code = ir.code /\ DOMAIN ir'.operands = DOMAIN ir.operands
      /\ \A y \in DOMAIN ir.operands :
           /\ DOMAIN ir'.operands[y] = DOMAIN ir.operands[y]
           /\ \A i \in DOMAIN ir.operands[y] :
                \/ ir'.operands[y][i] = ir.operands[y][i]
                \/ ir.operands[y][i] = x /\ ir'.operands[y][i] = value
  BY <1>3, Substituted
<1>6. \A y \in Instrs : \A i \in DOMAIN ir.operands[y] : ir.operands[y][i] = x => ir'.operands[y][i] = value
  BY <1>3, AllSubstituted
<1>7. /\ bb_' = bb_ /\ \A y \in InstrsIn(f) : Ahead(y)' => Ahead(y)
      /\ \A y \in InstrsIn(f) : Ahead(y) => Ahead(y)' \/ y = x
      /\ Ahead(x) /\ ~Ahead(x)'
  BY <1>1, <1>2, <1>3, <1>4, <1>5, AheadOn
<1>8. \A w, c, S : ~Holds(x, w, c, S) BY <1>2, <1>4, <1>7, HeldNotAhead
<1>9. \A l \in InstrsIn(f) : ~Reads(l, x)
  <2> SUFFICES ASSUME NEW l \in InstrsIn(f), Reads(l, x) PROVE FALSE
    OBVIOUS
  <2>1. PICK c \in Blocks(f) : l \in Range(f.code[c]) BY <1>2, Places
  <2> QED BY <1>8, <2>1 DEF Reads
\* What reads the load is what read it at first.
<1>10. ASSUME NEW y \in InstrsIn(f), NEW j \in DOMAIN f.operands[y], ir.operands[y][j] = x
       PROVE  f.operands[y][j] = x /\ Ahead(y)
  <2>1. f.operands[y][j] = x
    <3>1. IsLoad(f.operands[y][j]) => f.operands[y][j] \in InstrsIn(f)
      <4>1. f.operands[y][j] \in ValuesIn(f) BY <1>2, Code
      <4> QED BY <1>2, <4>1, Kinds DEF IsLoad
    <3> QED BY <1>2, <1>9, <1>10, <3>1 DEF SubstOK, Becomes
  <2>2. x \in Range(f.operands[y]) BY <2>1 DEF Range
  <2> QED BY <1>2, <1>4, <1>7, <2>1, <2>2, AheadReader
<1>11. StoresKept
  <2> SUFFICES ASSUME NEW d \in InstrsIn(f), IsStore(d), ~Ahead(d)
               PROVE  ~Ahead(d)' /\ ir'.operands[d][1] = ir.operands[d][1]
    BY DEF StoresKept
  <2>1. 1 \in DOMAIN f.operands[d] /\ 1 \in DOMAIN ir.operands[d] /\ d \in DOMAIN ir.operands
    BY <1>2, Kinds DEF OperandsOK, IrOK
  <2>2. ir.operands[d][1] # x BY <1>10, <2>1
  <2> QED BY <1>5, <1>7, <2>1, <2>2
<1>12. TopOK' /\ StacksGrow BY <1>1, <1>2, <1>3, <1>4, <1>5, <1>7, <1>11, TopKept
<1>13. Reads(x, value)'
  <2>1. Prior(x, b) = Here(v) BY <1>1, <1>2, <1>3, <1>4, PriorIsHere DEF Prior, Here
  <2>2. Holds(value, v, b, Here(v))
    <3>1. StackOf(v) = var_val_stack[v] /\ v \in Known BY <1>1, <1>3 DEF StackOf
    <3>2. StackOf(v) # << >> /\ StackOf(v) \in Seq(DOMAIN ir.use_list)
      BY <1>1, <1>2, <1>3, <3>1, StackTyped
    <3>3. Len(StackOf(v)) # 0 BY <3>2
    <3>4. value = StackOf(v)[Len(StackOf(v))] BY <1>3, <3>1 DEF Newest, Last
    <3> QED BY <1>1, <1>2, <1>3, <1>4, <3>3, <3>4 DEF TopOK, EntryOK
  <2>3. \A c \in Blocks(f) : x \in Range(f.code[c]) => c = b BY <1>2, <1>4, Code, Places
  <2>4. Reads(x, value) BY <1>4, <2>1, <2>2, <2>3 DEF Reads
  <2> QED BY <1>1, <1>2, <1>5, <1>11, <2>4, HoldsKept
<1>14. SubstOK'
  <2>1. \A l \in ValuesIn(f) : IsLoad(l) => l \in InstrsIn(f) BY <1>2, Kinds DEF IsLoad
  <2>2. ASSUME NEW y \in InstrsIn(f), NEW j \in DOMAIN f.operands[y]
        PROVE  \E l, e : l = f.operands[y][j] /\ e = ir'.operands[y][j] /\ Becomes(l, e)'
    <3>1. PICK l, e : l = f.operands[y][j] /\ e = ir.operands[y][j] OBVIOUS
    <3>2. l \in ValuesIn(f) /\ Becomes(l, e) /\ y \in DOMAIN ir.operands /\ j \in DOMAIN ir.operands[y]
      BY <1>2, <3>1, Code DEF OperandsOK, IrOK, SubstOK
    <3>3. CASE e = x
      <4>1. l = x /\ y \in Instrs BY <1>10, <3>1, <3>3, AheadIsLeft
      <4>2. ir'.operands[y][j] = value BY <1>6, <3>1, <3>2, <3>3, <4>1
      <4>3. Becomes(x, value)' BY <1>4, <1>7, <1>13 DEF Becomes
      <4> QED BY <3>1, <4>1, <4>2, <4>3
    <3>4. CASE e # x
      <4>1. ir'.operands[y][j] = e BY <1>5, <3>1, <3>2, <3>4
      <4>2. (Bare(l) => Bare(l)') /\ (Reads(l, e) => Reads(l, e)')
        BY <1>1, <1>2, <1>5, <1>11, SameValues, HoldsKept
      <4>3. Becomes(l, e)' BY <1>7, <2>1, <3>2, <3>4, <4>2 DEF Becomes
      <4> QED BY <3>1, <4>1, <4>3
    <3> QED BY <3>3, <3>4
  <2> QED BY <1>1, <2>2, SubstFrom
<1>15. CarriesOK'
  <2> SUFFICES ASSUME NEW w \in Variables, NEW s \in Blocks(f), NEW c \in PredsOf(f, s), HasPhi(w, s), Filled(c)'
               PROVE  Carries(PhiOf(w, s), w, c)'
    BY <1>1, <1>5, SameFunction, SamePhis DEF CarriesOK
  <2>1. PICK p, S : p = PhiOf(w, s) /\ S = Pushes(c, w) OBVIOUS
  <2>2. Filled(c)
    <3>1. \A k \in DOMAIN calls : calls'[k].left = calls[k].left /\ DOMAIN calls' = DOMAIN calls
      BY <1>2, <1>4, Marked
    <3> QED BY <1>1, <1>7, <3>1 DEF Filled, Below
  <2>3. Carries(p, w, c) BY <1>2, <2>1, <2>2 DEF CarriesOK, PredsOf
  <2>4. Pushes(c, w)' = S BY <1>1, <1>5, <2>1, SamePhis
  <2>5. CASE Unset(w, c, S)
    <3>1. Unset(w, c, S)' BY <1>1, <1>5, <2>5, SameValues
    <3>2. Carries(p, w, c)' BY <2>4, <3>1 DEF Carries
    <3> QED BY <2>1, <3>2
  <2>6. CASE ~Unset(w, c, S)
    <3>1. PICK i \in DOMAIN ir.operands[p] :
            /\ i - 1 \in DOMAIN ir.operands[p] /\ ir.operands[p][i] = c
            /\ Holds(ir.operands[p][i - 1], w, c, S)
      BY <2>1, <2>3, <2>6 DEF Carries
    <3>2. p \in DOMAIN ir.operands /\ c # x
      <4>1. c \in Block BY <1>2, Code DEF PredsOf
      <4> QED BY <1>4, <2>1, <4>1, BlockAssumption DEF HasPhi, IsLoad
    <3>3. PICK e : e = ir.operands[p][i - 1] OBVIOUS
    <3>4. ir'.operands[p][i] = c /\ ir'.operands[p][i - 1] = e /\ DOMAIN ir'.operands[p] = DOMAIN ir.operands[p]
      BY <1>5, <1>8, <3>1, <3>2, <3>3
    <3>5. Holds(e, w, c, S)' BY <1>1, <1>2, <1>5, <1>11, <3>1, <3>3, HoldsKept
    <3>6. Carries(p, w, c)' BY <2>4, <3>1, <3>4, <3>5 DEF Carries
    <3> QED BY <2>1, <3>6
  <2> QED BY <2>5, <2>6
<1>16. LeftOK' BY <1>1, <1>2, <1>4, LeftKept
<1>17. \E base \in [DOMAIN calls' -> [Variables' -> Nat]] : BaseOK(base)' /\ HeldOK(base)'
  <2>1. DOMAIN calls' = DOMAIN calls /\ \A k \in DOMAIN calls : calls'[k].bb = calls[k].bb
    BY <1>2, <1>4, Marked
  <2> QED BY <1>1, <1>2, <1>5, <1>11, <1>12, <2>1, HeldKept
<1> QED BY <1>12, <1>14, <1>15, <1>16, <1>17 DEF ValuesOK, StackValuesOK

LEMMA StackAppended ==
  ASSUME StacksOK, NEW v, NEW y, StackOf(v)' = Append(StackOf(v), y), NEW n, n = Len(StackOf(v)) + 1
  PROVE  /\ Len(StackOf(v))' = n /\ n # 0 /\ n \in DOMAIN StackOf(v)' /\ StackOf(v)'[n] = y
         /\ \A m \in DOMAIN StackOf(v) : m \in DOMAIN StackOf(v)' /\ StackOf(v)'[m] = StackOf(v)[m]
<1>1. PICK s, D : s = StackOf(v) /\ D = DOMAIN ir.use_list OBVIOUS
<1>2. s \in Seq(D) BY <1>1, StackTyped
<1>3. /\ Len(Append(s, y)) = n /\ n # 0 /\ n \in DOMAIN Append(s, y) /\ Append(s, y)[n] = y
      /\ \A m \in DOMAIN s : m \in DOMAIN Append(s, y) /\ Append(s, y)[m] = s[m]
  BY <1>1, <1>2
<1> QED BY <1>1, <1>3

LEMMA PushPhisValues ==
  ASSUME IInv, ListsOK, DomOK, ValuesOK, PushPhis
  PROVE  ValuesOK'
<1> DEFINE names == {Lval(p, << >>) : p \in PhisIn(bb_)}
<1>1. /\ pc = "enter" /\ pc' = "instr" /\ line' = 0
      /\ f' = f /\ ir' = ir /\ calls' = calls
      /\ var_val_stack' = [v \in Known \cup names |->
           IF v \in names THEN Append(StackOf(v), PhiOf(v, bb_)) ELSE var_val_stack[v]]
  BY Zenon DEF PushPhis
<1>2. /\ BaseKept /\ CodeOK /\ IrOK /\ f \in Functions /\ StacksOK /\ CallsOK /\ calls # << >>
      /\ LeftOK /\ SubstOK /\ CarriesOK /\ StackValuesOK
  BY <1>1, PushPhisStep DEF ListsOK, IInv, CallsOK, ValuesOK
<1>3. PICK b : b = bb_ OBVIOUS
<1>4. /\ b \in Blocks(f) /\ b \in Block /\ Len(calls) \in DOMAIN calls /\ b = calls[Len(calls)].bb
      /\ ir.code[b] \in Seq(DOMAIN ir.operands)
  BY <1>2, <1>3, AtBlock DEF bb_, this
<1>5. \A v : v \in names <=> HasPhi(v, b)
  <2>1. ASSUME NEW p \in PhisIn(bb_) PROVE HasPhi(Lval(p, << >>), b)
    BY <1>2, <1>3, AtBlock, Phis DEF PhisIn
  <2>2. ASSUME NEW v, HasPhi(v, b) PROVE v \in names
    <3>1. v \in Variables BY <1>2, <1>4, <2>2, NotVariable DEF Defines
    <3>2. PhiOf(v, bb_) \in PhisIn(bb_) /\ Lval(PhiOf(v, bb_), << >>) = v
      BY <1>2, <1>3, <2>2, <3>1, AtBlock, Phis DEF PhisIn
    <3> QED BY <3>2
  <2> QED BY <2>1, <2>2
<1> HIDE DEF names
<1>6. /\ CodeOK' /\ bb_' = b
      /\ \A n : Below(n)' = Below(n)
      /\ \A x \in InstrsIn(f) : Ahead(x)' => Ahead(x)
  BY <1>1, <1>2, <1>3, Onwards
<1>7. ASSUME NEW x \in InstrsIn(f), Ahead(x) PROVE Ahead(x)'
  <2>1. CASE \E n \in Blocks(f) : Below(n) /\ x \in Range(f.code[n]) BY <1>1, <1>6, <2>1 DEF Ahead
  <2>2. CASE x \in Range(f.code[b])
    <3>1. Intact(b) BY <1>2, <1>4 DEF CallsOK
    <3>2. PICK j \in DOMAIN ir.code[b] : ir.code[b][j] = x BY <2>2, <3>1 DEF Intact, Range
    <3>3. j > line' /\ j \in DOMAIN ir'.code[bb_'] /\ ir'.code[bb_'][j] = x
      BY <1>1, <1>4, <1>6, <3>2
    <3> QED BY <1>1, <3>3 DEF Ahead
  <2> QED BY <1>1, <1>3, <1>7, <2>1, <2>2 DEF Ahead
<1>8. StoresKept BY <1>1, <1>6 DEF StoresKept
<1>9. SubstOK' BY <1>1, <1>2, <1>6, <1>7, <1>8, SubstKept
<1>10. CarriesOK'
  <2>1. \A c : Filled(c)' => Filled(c) BY <1>1, <1>3, <1>6 DEF Filled
  <2> QED BY <1>1, <1>2, <1>8, <2>1, CarriesKept
<1>11. LeftOK' BY <1>1, <1>2, LeftKept
<1>12. \A v : IF HasPhi(v, b) THEN StackOf(v)' = Append(StackOf(v), PhiOf(v, b)) ELSE StackOf(v)' = StackOf(v)
  <2>1. Known' = Known \cup names BY <1>1 DEF Known
  <2> QED BY <1>1, <1>3, <1>5, <2>1 DEF StackOf
<1>13. StacksGrow
  <2>1. ASSUME NEW v, NEW n \in DOMAIN StackOf(v) PROVE n \in DOMAIN StackOf(v)' /\ StackOf(v)'[n] = StackOf(v)[n]
    <3>1. CASE HasPhi(v, b) BY <1>2, <1>12, <3>1, StackAppended
    <3>2. CASE ~HasPhi(v, b) BY <1>12, <3>2
    <3> QED BY <3>1, <3>2
  <2> QED BY <2>1 DEF StacksGrow
<1>14. \E base \in [DOMAIN calls' -> [Variables' -> Nat]] : BaseOK(base)' /\ HeldOK(base)'
  BY <1>1, <1>2, <1>8, <1>13, HeldKept
<1>15. ASSUME NEW v \in Variables PROVE EntryOK(Len(StackOf(v)), v, bb_, Here(v))'
  <2>1. Here(v)' = {x \in Pushes(b, v) : IsPhi(x)}
    <3>1. Here(v)' = {x \in Pushes(b, v)' : IsPhi(x) \/ \E j \in 1..0 : ir'.code[b][j] = x}
      BY <1>1, <1>6 DEF Here, PushedBy
    <3>2. Pushes(b, v)' = Pushes(b, v) BY <1>1, SamePhis, Zenon
    <3> QED BY <3>1, <3>2
  <2>2. \A x \in Pushes(b, v) : IsPhi(x) => x = PhiOf(v, b) BY <1>2, <1>4, PushedKinds
  <2>3. CASE HasPhi(v, b)
    <3>1. PICK n, p : n = Len(StackOf(v)) + 1 /\ p = PhiOf(v, b) OBVIOUS
    <3>2. Len(StackOf(v))' = n /\ n # 0 /\ n \in DOMAIN StackOf(v)' /\ StackOf(v)'[n] = p
      BY <1>2, <1>12, <2>3, <3>1, StackAppended
    <3>3. Here(v)' = {p}
      <4>1. p \in Pushes(b, v) /\ IsPhi(p) BY <2>3, <3>1, Phis DEF Pushes
      <4> QED BY <2>1, <2>2, <3>1, <4>1
    <3>4. Reaching(p, v, b, {p})' BY DEF Reaching, LastOf
    <3>5. Holds(p, v, b, {p})' BY <1>1, <2>3, <3>1, <3>4, Phis DEF Holds, Given, HasPhi
    <3>6. EntryOK(n, v, b, {p})' BY <3>2, <3>5 DEF EntryOK
    <3> QED BY <1>6, <3>2, <3>3, <3>6
  <2>4. CASE ~HasPhi(v, b)
    <3>1. Here(v)' = {} /\ StackOf(v)' = StackOf(v)
      <4>1. \A x \in Pushes(b, v) : ~IsPhi(x) BY <2>2, <2>4, Phis DEF Pushes
      <4> QED BY <1>12, <2>1, <2>4, <4>1
    <3>2. PICK n : n = Len(StackOf(v)) OBVIOUS
    <3>3. PICK base \in [DOMAIN calls -> [Variables -> Nat]] : BaseOK(base) /\ HeldOK(base)
      BY <1>2 DEF StackValuesOK
    <3>4. n = base[Len(calls)][v]
      <4>1. Here(v) = {} /\ Cardinality({}) = 0 BY <1>1, FS_EmptySet DEF Here
      <4>2. n = base[Len(calls)][v] + Cardinality(Here(v)) BY <1>2, <3>2, <3>3 DEF BaseOK
      <4>3. base[Len(calls)][v] \in Nat BY <1>4, <3>3
      <4> QED BY <4>1, <4>2, <4>3
    <3>5. EntryOK(n, v, b, {}) BY <1>4, <3>3, <3>4 DEF HeldOK
    <3>6. EntryOK(n, v, b, {})' BY <1>1, <1>2, <1>8, <1>13, <3>5, EntryKept
    <3>7. Len(StackOf(v))' = n BY <3>1, <3>2, Zenon
    <3> QED BY <1>6, <3>1, <3>6, <3>7
  <2> QED BY <2>3, <2>4
<1>16. TopOK' BY <1>1, <1>15, SameFunction DEF TopOK
<1> QED BY <1>9, <1>10, <1>11, <1>14, <1>16 DEF ValuesOK, StackValuesOK

\* At the end of its block the walk has met all that the block pushes.
LEMMA HereAtEnd ==
  ASSUME IInv, pc = "instr", line = Len(ir.code[bb_]), NEW v
  PROVE  Here(v) = Pushes(bb_, v)
<1>1. /\ f \in Functions /\ IrOK /\ CallsOK /\ calls # << >> /\ bb_ \in Block
      /\ ir.code[bb_] \in Seq(DOMAIN ir.operands) /\ Len(calls) \in DOMAIN calls
  BY AtBlock DEF IInv, CallsOK
<1>2. Intact(bb_) BY <1>1 DEF CallsOK, bb_, this
<1>3. ASSUME NEW d \in Pushes(bb_, v), ~IsPhi(d) PROVE \E j \in 1..line : ir.code[bb_][j] = d
  <2>1. d \in Range(f.code[bb_]) BY <1>1, <1>3, PushedKinds
  <2>2. PICK j \in DOMAIN ir.code[bb_] : ir.code[bb_][j] = d BY <1>2, <2>1 DEF Intact, Range
  <2> QED BY <1>1, <2>2
<1> QED BY <1>3 DEF Here, PushedBy

LEMMA FillPhisValues ==
  ASSUME IInv, ListsOK, DomOK, ValuesOK, FillPhis
  PROVE  ValuesOK'
<1> DEFINE vs == [p \in ToFill |-> <<Newest(Lval(p, << >>)), bb_>>]
<1>1. /\ pc = "instr" /\ f' = f /\ var_val_stack' = var_val_stack /\ calls' = calls
      /\ line = Len(ir.code[bb_]) /\ line' = line
      /\ pc' # "abort" => ir' = AddOperands(ir, vs) /\ pc' = "children"
  BY DEF FillPhis
<1> SUFFICES ASSUME pc' # "abort" PROVE ValuesOK'
  BY DEF ValuesOK
<1>2. ir' = AddOperands(ir, vs) /\ pc' = "children" BY <1>1
<1>3. /\ BaseKept /\ CodeOK /\ KeptOK /\ IrOK /\ f \in Functions /\ StacksOK /\ CallsOK /\ calls # << >>
      /\ SubstOK /\ CarriesOK /\ StackValuesOK /\ TopOK
  BY <1>1, FillPhisStep DEF ListsOK, DomOK, IInv, CallsOK, ValuesOK, StackValuesOK
<1>4. PICK b : b = bb_ OBVIOUS
<1>5. /\ b \in Blocks(f) /\ b \in Block /\ Len(calls) \in DOMAIN calls /\ b = calls[Len(calls)].bb
      /\ ir.code[b] \in Seq(DOMAIN ir.operands)
  BY <1>3, <1>4, AtBlock DEF bb_, this
<1>6. \A p \in ToFill : IsPhi(p) /\ Lval(p, << >>) \in Known BY DEF ToFill, PhisIn
<1>7. DOMAIN vs = ToFill /\ \A p \in ToFill : vs[p] = <<Newest(Lval(p, << >>)), b>> BY <1>4
<1> HIDE DEF vs
<1>8. /\ ir'.code = ir.code /\ DOMAIN ir'.use_list = DOMAIN ir.use_list
      /\ ir'.operands = [x \in DOMAIN ir.operands |-> IF x \in ToFill THEN ir.operands[x] \o vs[x]
                                                      ELSE ir.operands[x]]
  BY <1>2, <1>3, <1>7 DEF AddOperands, IrOK
<1>9. /\ DOMAIN ir'.operands = DOMAIN ir.operands
      /\ \A x \in InstrsIn(f) : ir'.operands[x] = ir.operands[x]
  BY <1>3, <1>6, <1>8, Code DEF IrOK
<1>10. /\ bb_' = b
       /\ \A n : Below(n)' = Below(n)
       /\ \A x \in InstrsIn(f) : Ahead(x)' => Ahead(x)
  BY <1>1, <1>2, <1>3, <1>4, <1>8, <1>9, Onwards
<1>11. ASSUME NEW x \in InstrsIn(f), Ahead(x) PROVE Ahead(x)'
  <2>1. \A j \in DOMAIN ir.code[bb_] : ~(j > line) BY <1>1, <1>4, <1>5
  <2>2. \E n \in Blocks(f) : Below(n) /\ x \in Range(f.code[n]) BY <1>1, <1>11, <2>1 DEF Ahead
  <2> QED BY <1>1, <1>10, <2>2 DEF Ahead
<1>12. StoresKept
  <2> SUFFICES ASSUME NEW d \in InstrsIn(f), IsStore(d), ~Ahead(d)
               PROVE  ~Ahead(d)' /\ ir'.operands[d][1] = ir.operands[d][1]
    BY DEF StoresKept
  <2> QED BY <1>9, <1>10
<1>13. SubstOK' BY <1>1, <1>3, <1>9, <1>10, <1>11, <1>12, SubstKept
<1>14. \A v : StackOf(v)' = StackOf(v) BY <1>1, Zenon DEF StackOf, Known
<1>15. StacksGrow BY <1>14 DEF StacksGrow
<1>16. \E base \in [DOMAIN calls' -> [Variables' -> Nat]] : BaseOK(base)' /\ HeldOK(base)'
  BY <1>1, <1>3, <1>9, <1>12, <1>15, HeldKept
<1>17. \A v : Here(v) = Pushes(b, v) /\ Here(v)' = Pushes(b, v) /\ Pushes(b, v)' = Pushes(b, v)
  <2>1. \A v : Pushes(b, v)' = Pushes(b, v) BY <1>1, <1>9, SamePhis, Zenon
  <2>2. \A v : Here(v)' = Pushes(bb_, v)' BY <1>2 DEF Here
  <2> QED BY <1>1, <1>4, <1>10, <2>1, <2>2, HereAtEnd
<1>18. ASSUME NEW v \in Variables PROVE EntryOK(Len(StackOf(v)), v, bb_, Here(v))'
  <2>1. PICK n, S : n = Len(StackOf(v)) /\ S = Here(v) OBVIOUS
  <2>2. EntryOK(n, v, b, S)' BY <1>1, <1>3, <1>4, <1>9, <1>12, <1>15, <2>1, EntryKept DEF TopOK
  <2>3. Here(v)' = S BY <1>17, <2>1
  <2>4. Len(StackOf(v))' = n BY <1>14, <2>1, Zenon
  <2> QED BY <1>10, <2>2, <2>3, <2>4
<1>19. TopOK' BY <1>1, <1>18, SameFunction DEF TopOK
<1>20. LeftOK' BY <1>2 DEF LeftOK
<1>21. CarriesOK'
  <2> SUFFICES ASSUME NEW v \in Variables, NEW s \in Blocks(f), NEW c \in PredsOf(f, s), HasPhi(v, s), Filled(c)'
               PROVE  Carries(PhiOf(v, s), v, c)'
    BY <1>1, <1>9, SameFunction, SamePhis DEF CarriesOK
  <2>1. PICK p, S, ops, ops1 :
          p = PhiOf(v, s) /\ S = Pushes(c, v) /\ ops = ir.operands[p] /\ ops1 = ir'.operands[p]
    OBVIOUS
  <2>2. /\ p \in DOMAIN ir.operands /\ ops \in Seq(DOMAIN ir.use_list)
        /\ Lval(p, << >>) = v
    BY <1>3, <2>1, Phis DEF HasPhi, IrOK
  <2>3. Pushes(c, v)' = S BY <1>1, <1>9, <2>1, SamePhis
  <2>4. (Unset(v, c, S) => Unset(v, c, S)') /\ \A e : Holds(e, v, c, S) => Holds(e, v, c, S)'
    BY <1>1, <1>3, <1>9, <1>12, SameValues, HoldsKept
  <2>5. \A i \in DOMAIN ops : i \in DOMAIN ops1 /\ ops1[i] = ops[i]
    <3>1. CASE p \notin ToFill BY <1>8, <2>1, <2>2, <3>1
    <3>2. CASE p \in ToFill
      <4>1. PICK e : e = Newest(v) OBVIOUS
      <4>2. ops1 = ops \o <<e, b>> BY <1>7, <1>8, <2>1, <2>2, <3>2, <4>1
      <4> QED BY <2>2, <4>2, TwoMore
    <3> QED BY <3>1, <3>2
  <2>6. ASSUME NEW i \in DOMAIN ops1, i - 1 \in DOMAIN ops1, ops1[i] = c, Holds(ops1[i - 1], v, c, S)
        PROVE  Carries(p, v, c)'
    <3>1. PICK e : e = ops1[i - 1] OBVIOUS
    <3>2. Holds(e, v, c, S)' BY <2>4, <2>6, <3>1
    <3> QED BY <2>1, <2>3, <2>6, <3>1, <3>2 DEF Carries
  <2>7. ASSUME Unset(v, c, S) PROVE Carries(p, v, c)'
    BY <2>3, <2>4, <2>7 DEF Carries
  <2>8. CASE Filled(c)
    <3>1. Carries(p, v, c) BY <1>3, <2>1, <2>8 DEF CarriesOK, PredsOf
    <3>2. CASE ~Unset(v, c, S)
      <4>1. PICK i \in DOMAIN ops : i - 1 \in DOMAIN ops /\ ops[i] = c /\ Holds(ops[i - 1], v, c, S)
        BY <2>1, <3>1, <3>2 DEF Carries
      <4>2. i \in DOMAIN ops1 /\ i - 1 \in DOMAIN ops1 /\ ops1[i] = c /\ ops1[i - 1] = ops[i - 1]
        BY <2>5, <4>1
      <4>3. Carries(p, v, c)' BY <2>6, <4>1, <4>2
      <4> QED BY <2>1, <4>3
    <3> QED BY <2>1, <2>7, <3>2
  <2>9. CASE ~Filled(c)
    <3>1. c = b BY <1>1, <1>2, <1>4, <1>10, <2>9 DEF Filled
    <3>2. EntryOK(Len(StackOf(v)), v, b, S) BY <1>1, <1>3, <1>4, <1>17, <2>1, <3>1 DEF TopOK
    <3>3. CASE Len(StackOf(v)) = 0 BY <2>1, <2>7, <3>1, <3>2, <3>3 DEF EntryOK
    <3>4. CASE Len(StackOf(v)) # 0
      <4>1. StackOf(v) = var_val_stack[v] /\ v \in Known BY <3>4 DEF StackOf
      <4>2. PICK e : e = Newest(v) OBVIOUS
      <4>3. Holds(e, v, c, S)
        <5>1. e = StackOf(v)[Len(StackOf(v))] BY <4>1, <4>2 DEF Newest, Last
        <5> QED BY <3>1, <3>2, <3>4, <5>1 DEF EntryOK
      <4>4. p \in ToFill
        <5>1. s \in Succs(b) /\ s \in Block BY <1>3, <1>5, <3>1, Code DEF PredsOf
        <5>2. p \in PhisOf(s) /\ IsPhi(p) BY <2>1, Phis DEF PhisOf
        <5>3. p \in PhisIn(s) BY <1>3, <5>1, <5>2 DEF KeptOK, Kept, PhisIn
        <5> QED BY <1>4, <2>2, <4>1, <5>1, <5>3 DEF ToFill
      <4>5. ops1 = ops \o <<e, b>> BY <1>7, <1>8, <2>1, <2>2, <4>2, <4>4
      <4> DEFINE L == Len(ops)
      <4>6. L \in Nat /\ DOMAIN ops1 = 1..(L + 2) /\ ops1[L + 1] = e /\ ops1[L + 2] = b
        BY <2>2, <4>5, TwoMore
      <4> HIDE DEF L
      <4>7. PICK i : i = L + 2 OBVIOUS
      <4>8. i \in DOMAIN ops1 /\ i - 1 = L + 1 /\ i - 1 \in DOMAIN ops1 BY <4>6, <4>7
      <4>9. ops1[i] = c /\ ops1[i - 1] = e BY <3>1, <4>6, <4>7, <4>8
      <4>10. Carries(p, v, c)' BY <2>6, <4>3, <4>8, <4>9
      <4> QED BY <2>1, <4>10
    <3> QED BY <3>3, <3>4
  <2> QED BY <2>8, <2>9
<1> QED BY <1>13, <1>16, <1>19, <1>20, <1>21 DEF ValuesOK, StackValuesOK

LEMMA DefinesPushes ==
  ASSUME f \in Functions, NEW b, NEW v
  PROVE  Defines(b, v) <=> Pushes(b, v) # {}
BY Stored DEF Defines, Pushes

\* Where the same definitions are above, a block begins with the values another ends with.
LEMMA SameAbove ==
  ASSUME f \in Functions, NEW b \in Blocks(f), NEW c \in Blocks(f), NEW v,
         \A e \in Blocks(f) : Defines(e, v) => (StrictlyDominates(f, e, c) <=> Dominates(f, e, b))
  PROVE  /\ \A d : Reaching(d, v, b, Pushes(b, v)) <=> Reaching(d, v, c, {})
         /\ Unset(v, b, Pushes(b, v)) <=> Unset(v, c, {})
<1>1. EdgesInside(f) /\ AllReached(f) BY Code
<1>2. \A e \in Blocks(f) : Defines(e, v) => (StrictlyDominates(f, e, c) <=> Dominates(f, e, b))
  OBVIOUS
<1>3. \A e \in Blocks(f) : Dominates(f, e, b) <=> e = b \/ StrictlyDominates(f, e, b)
  BY <1>1, DominatesReflexive DEF StrictlyDominates
<1>4. CASE Defines(b, v)
  <2>1. Pushes(b, v) # {} BY <1>4, DefinesPushes
  <2>2. \A e \in Blocks(f) : Closest(e, v, c) <=> e = b
    <3>1. Closest(b, v, c) BY <1>2, <1>3, <1>4 DEF Closest
    <3>2. ASSUME NEW e \in Blocks(f), Closest(e, v, c) PROVE e = b
      <4>1. Dominates(f, e, b) /\ Dominates(f, b, e) BY <1>2, <1>3, <1>4, <3>2 DEF Closest
      <4> QED BY <1>1, <4>1, DominatesAntisymmetric
    <3> QED BY <3>1, <3>2
  <2>3. \A d : Reaching(d, v, c, {}) <=> LastOf(d, Pushes(b, v), b) BY <2>2 DEF Reaching
  <2>4. \A d : Reaching(d, v, b, Pushes(b, v)) <=> LastOf(d, Pushes(b, v), b) BY <2>1 DEF Reaching
  <2>5. ~Unset(v, c, {}) /\ ~Unset(v, b, Pushes(b, v)) BY <1>2, <1>3, <1>4, <2>1 DEF Unset
  <2> QED BY <2>3, <2>4, <2>5
<1>5. CASE ~Defines(b, v)
  <2>1. Pushes(b, v) = {} BY <1>5, DefinesPushes
  <2>2. \A e \in Blocks(f) : StrictlyDominates(f, e, c) /\ Defines(e, v) <=> StrictlyDominates(f, e, b) /\ Defines(e, v)
    BY <1>2, <1>3, <1>5
  <2>3. \A e \in Blocks(f) : Closest(e, v, c) <=> Closest(e, v, b) BY <2>2 DEF Closest
  <2>4. \A d : Reaching(d, v, c, {}) <=> Reaching(d, v, b, {}) BY <2>3 DEF Reaching
  <2>5. Unset(v, c, {}) <=> Unset(v, b, {}) BY <2>2 DEF Unset
  <2> QED BY <2>1, <2>4, <2>5
<1> QED BY <1>4, <1>5

\* A child begins with the values its parent ends with.
LEMMA AtChild ==
  ASSUME f \in Functions, NEW b \in Blocks(f), NEW c \in Blocks(f), IsIdom(f, b, c), NEW v
  PROVE  /\ \A d : Reaching(d, v, b, Pushes(b, v)) <=> Reaching(d, v, c, {})
         /\ Unset(v, b, Pushes(b, v)) <=> Unset(v, c, {})
<1>1. EdgesInside(f) /\ AllReached(f) BY Code
<1>2. \A e \in Blocks(f) : StrictlyDominates(f, e, c) <=> Dominates(f, e, b)
  <2>1. ASSUME NEW e \in Blocks(f), Dominates(f, e, b) PROVE StrictlyDominates(f, e, c)
    <3>1. Dominates(f, e, c) BY <2>1, DominatesTransitive DEF IsIdom, StrictlyDominates
    <3>2. e # c BY <1>1, <2>1, DominatesAntisymmetric DEF IsIdom, StrictlyDominates
    <3> QED BY <3>1, <3>2 DEF StrictlyDominates
  <2> QED BY <2>1 DEF IsIdom
<1> QED BY <1>2, SameAbove

LEMMA EntryAtChild ==
  ASSUME f \in Functions, NEW b \in Blocks(f), NEW c \in Blocks(f), IsIdom(f, b, c), NEW v, NEW n
  PROVE  EntryOK(n, v, b, Pushes(b, v)) <=> EntryOK(n, v, c, {})
<1>1. \A e : Holds(e, v, b, Pushes(b, v)) <=> Holds(e, v, c, {}) BY AtChild DEF Holds
<1> QED BY <1>1, AtChild DEF EntryOK

LEMMA EntryStays ==
  ASSUME IrOK, f' = f, DOMAIN ir'.operands = DOMAIN ir.operands, StoresKept,
         NEW n, NEW v, NEW b, NEW S, EntryOK(n, v, b, S),
         n # 0 => n \in DOMAIN StackOf(v)' /\ StackOf(v)'[n] = StackOf(v)[n]
  PROVE  EntryOK(n, v, b, S)'
<1>1. n = 0 => Unset(v, b, S)' BY SameValues DEF EntryOK
<1>2. n # 0 => Holds(StackOf(v)[n], v, b, S)'
  <2>1. \A e : Holds(e, v, b, S) => Holds(e, v, b, S)' BY HoldsKept
  <2> SUFFICES ASSUME n # 0 PROVE Holds(StackOf(v)[n], v, b, S)'
    OBVIOUS
  <2>2. PICK e : e = StackOf(v)[n] OBVIOUS
  <2>3. Holds(e, v, b, S)' BY <2>1, <2>2 DEF EntryOK
  <2>4. StackOf(v)'[n] = e BY <2>2
  <2> QED BY <2>3, <2>4, Zenon
<1> QED BY <1>1, <1>2 DEF EntryOK

LEMMA VisitChildValues ==
  ASSUME IInv, ListsOK, DomOK, ValuesOK, VisitChild
  PROVE  ValuesOK'
<1> DEFINE n == Len(calls)
<1>1. pc = "children" /\ pc' = "enter" /\ f' = f /\ ir' = ir /\ var_val_stack' = var_val_stack
  BY DEF VisitChild
<1>2. PICK c \in this.left : calls' = Append([calls EXCEPT ![n].left = @ \ {c}], Call(c))
  BY DEF VisitChild
<1>3. /\ calls # << >> /\ f \in Functions /\ CallsOK /\ StacksOK /\ IrOK /\ bb_ \in Blocks(f)
      /\ SubstOK /\ CarriesOK /\ StackValuesOK /\ TopOK
  BY <1>1, AtBlock DEF IInv, CallsOK, ValuesOK, StackValuesOK
<1>4. n \in Nat /\ DOMAIN calls = 1..n /\ n \in DOMAIN calls /\ n + 1 \notin 1..n
  BY <1>3 DEF CallsOK
<1>5. c \in calls[n].left /\ bb_ = calls[n].bb /\ c \in Blocks(f) /\ IsIdom(f, bb_, c)
  <2>1. c \in calls[n].left /\ bb_ = calls[n].bb BY DEF this, bb_
  <2> QED BY <1>3, <1>4, <2>1 DEF CallsOK, Children
<1>6. /\ Len(calls') = n + 1 /\ DOMAIN calls' = 1..(n + 1)
      /\ \A k \in 1..n :
           /\ calls'[k].bb = calls[k].bb
           /\ calls'[k].left = IF k = n THEN calls[k].left \ {c} ELSE calls[k].left
      /\ calls'[n + 1] = [bb |-> c, wait_delete |-> {}, left |-> Children(c)]
  BY <1>2, <1>3, <1>4, <1>5, Visited, Zenon
<1>7. /\ calls'[n + 1].bb = c /\ calls'[n + 1].left = Children(c)
      /\ bb_' = c /\ this'.left = Children(c)
  BY <1>6 DEF bb_, this
<1> HIDE DEF n
<1>8. \A k \in 1..(n + 1) : k \in 1..n \/ k = n + 1 BY <1>4
<1>9. \A d : Below(d)' => Below(d)
  <2> SUFFICES ASSUME NEW d, Below(d)' PROVE Below(d)
    OBVIOUS
  <2>1. PICK k \in 1..(n + 1) : \E e \in calls'[k].left : Dominates(f, e, d) BY <1>1, <1>6 DEF Below
  <2>2. CASE k \in 1..n BY <1>4, <1>6, <2>1, <2>2 DEF Below
  <2>3. CASE k = n + 1
    <3>1. PICK e \in Children(c) : Dominates(f, e, d) BY <1>7, <2>1, <2>3
    <3>2. Dominates(f, c, d) BY <3>1, DominatesTransitive DEF Children, IsIdom, StrictlyDominates
    <3> QED BY <1>4, <1>5, <3>2 DEF Below
  <2> QED BY <1>8, <2>2, <2>3
<1>10. ASSUME NEW d \in Blocks(f), Below(d), d # c PROVE Below(d)'
  <2>1. PICK k \in 1..n : \E e \in calls[k].left : Dominates(f, e, d) BY <1>4, <1>10 DEF Below
  <2>2. PICK e \in calls[k].left : Dominates(f, e, d) BY <2>1
  <2>3. CASE e \in calls'[k].left
    <3>1. k \in 1..(n + 1) BY <1>4
    <3> QED BY <1>1, <1>6, <2>2, <2>3, <3>1 DEF Below
  <2>4. CASE e \notin calls'[k].left
    <3>1. e = c BY <1>6, <2>4
    <3>2. PICK a \in Children(c) : Dominates(f, a, d)
      BY <1>3, <1>5, <1>10, <2>2, <3>1, ChildExists DEF StrictlyDominates
    <3>3. n + 1 \in 1..(n + 1) BY <1>4
    <3> QED BY <1>1, <1>6, <1>7, <3>2, <3>3 DEF Below
  <2> QED BY <2>3, <2>4
<1>11. \A x \in InstrsIn(f) : Ahead(x)' => Ahead(x)
  <2>1. Below(c) BY <1>3, <1>4, <1>5, Code, DominatesReflexive DEF Below
  <2> QED BY <1>1, <1>5, <1>7, <1>9, <2>1 DEF Ahead
<1>12. \A x \in InstrsIn(f) : Ahead(x) => Ahead(x)' BY <1>1, <1>7, <1>10 DEF Ahead
<1>13. StoresKept BY <1>1, <1>11 DEF StoresKept
<1>14. SubstOK' BY <1>1, <1>3, <1>11, <1>12, <1>13, SubstKept
<1>15. CarriesOK'
  <2>1. \A d \in Blocks(f) : Filled(d)' => Filled(d) BY <1>1, <1>7, <1>10 DEF Filled
  <2> QED BY <1>1, <1>3, <1>13, <2>1, CarriesKept
<1>16. LeftOK' BY <1>1, <1>7, SameFunction DEF LeftOK
<1>17. PICK base \in [DOMAIN calls -> [Variables -> Nat]] : BaseOK(base) /\ HeldOK(base)
  BY <1>3 DEF StackValuesOK
<1>18. PICK next : /\ BaseOK(next)'
                   /\ \A v \in Variables : \A k \in DOMAIN calls : next[k][v] = base[k][v]
  BY <1>17, VisitChildFrom
<1>19. \A v : StackOf(v)' = StackOf(v) BY <1>1, Zenon DEF StackOf, Known
<1>20. StacksGrow BY <1>19 DEF StacksGrow
<1>21. ASSUME NEW v \in Variables, NEW k \in 1..(n + 1) PROVE EntryOK(next[k][v], v, calls[k].bb, {})'
  <2>1. CASE k \in 1..n
    <3>1. PICK m, b : m = next[k][v] /\ b = calls[k].bb OBVIOUS
    <3>2. EntryOK(m, v, b, {}) BY <1>4, <1>17, <1>18, <2>1, <3>1 DEF HeldOK
    <3>3. EntryOK(m, v, b, {})' BY <1>1, <1>3, <1>13, <1>20, <3>2, EntryKept
    <3>4. calls'[k].bb = b BY <1>6, <2>1, <3>1
    <3> QED BY <3>1, <3>3, <3>4, Zenon
  <2>2. CASE k = n + 1
    <3>1. PICK m : m = Len(StackOf(v)) OBVIOUS
    <3>2. next[n + 1][v] = m
      <4>1. n + 1 \in DOMAIN calls' /\ n + 1 > 1 /\ n + 1 - 1 = n BY <1>4, <1>6
      <4>2. next[n + 1][v] = next[n][v] + Cardinality(Pushes(bb_, v))
        <5>1. Variables' = Variables BY <1>1, SameFunction
        <5>2. PICK b : b = bb_ OBVIOUS
        <5>3. Pushes(b, v)' = Pushes(b, v) BY <1>1, SamePhis, Zenon
        <5>4. n \in 1..n /\ calls'[n].bb = b BY <1>4, <1>5, <1>6, <5>2
        <5>5. PICK j : j = k - 1 OBVIOUS
        <5>6. k \in DOMAIN calls' /\ k > 1 /\ v \in Variables' /\ j = n
          BY <1>4, <2>2, <4>1, <5>1, <5>5
        <5>7. next[k][v] = next[j][v] + Cardinality(Pushes(calls[j].bb, v)')
          BY <1>18, <5>5, <5>6, Zenon DEF BaseOK
        <5>8. calls'[j].bb = b BY <5>4, <5>6, Zenon
        <5>9. Pushes(calls[j].bb, v)' = Pushes(b, v) BY <5>3, <5>8, Zenon
        <5> QED BY <2>2, <5>2, <5>6, <5>7, <5>9
      <4>3. m = base[n][v] + Cardinality(Here(v)) /\ Here(v) = Pushes(bb_, v)
        BY <1>1, <1>3, <1>17, <3>1 DEF BaseOK, Here, n
      <4> QED BY <1>4, <1>18, <4>2, <4>3
    <3>3. EntryOK(m, v, bb_, Pushes(bb_, v)) BY <1>1, <1>3, <3>1 DEF TopOK, Here
    <3>4. EntryOK(m, v, c, {}) BY <1>3, <1>5, <3>3, EntryAtChild
    <3>5. EntryOK(m, v, c, {})' BY <1>1, <1>3, <1>13, <1>20, <3>4, EntryKept
    <3> QED BY <1>7, <2>2, <3>2, <3>5, Zenon
  <2> QED BY <1>8, <2>1, <2>2
<1>22. HeldOK(next)'
  <2>1. Variables' = Variables BY <1>1, SameFunction
  <2> QED BY <1>6, <1>21, <2>1, Zenon DEF HeldOK
<1>23. next \in [DOMAIN calls' -> [Variables' -> Nat]] BY <1>18 DEF BaseOK
<1>24. TopOK' BY <1>1 DEF TopOK
<1> QED BY <1>14, <1>15, <1>16, <1>18, <1>22, <1>23, <1>24 DEF ValuesOK, StackValuesOK

LEMMA ReturnValues ==
  ASSUME IInv, ListsOK, DomOK, ValuesOK, Return
  PROVE  ValuesOK'
<1> DEFINE n == Len(calls)
<1>1. /\ pc = "children" /\ pc' = (IF n = 1 THEN "allocas" ELSE "children") /\ f' = f
      /\ ir' = DeleteInstrs(ir, bb_, this.wait_delete) /\ calls' = Front(calls) /\ this.left = {}
  BY Zenon DEF Return
<1>2. /\ f \in Functions /\ CallsOK /\ IrOK /\ StacksOK /\ calls # << >> /\ IInv' /\ bb_ \in Block
      /\ bb_ \in Blocks(f) /\ SubstOK /\ CarriesOK /\ StackValuesOK /\ StacksOK'
  BY <1>1, AtBlock, ReturnStep DEF IInv, CallsOK, ValuesOK
<1>3. /\ n \in Nat /\ DOMAIN calls = 1..n /\ n \in 1..n /\ n \in DOMAIN calls /\ bb_ = calls[n].bb
      /\ \A k \in 1..(n - 1) : k \in 1..n /\ k < n
      /\ \A k \in 1..n : k = n \/ k \in 1..(n - 1)
  BY <1>2 DEF CallsOK, bb_, this
<1>4. /\ Len(calls') = n - 1 /\ DOMAIN calls' = 1..(n - 1) /\ \A k \in 1..(n - 1) : calls'[k] = calls[k]
  <2> DEFINE S == [bb : Blocks(f), wait_delete : SUBSET InstrsIn(f), left : SUBSET Blocks(f)]
  <2>1. calls' = SubSeq(calls, 1, n - 1) /\ calls \in Seq(S) BY <1>1, <1>2 DEF Front, CallsOK
  <2> HIDE DEF S
  <2>2. n \in Nat /\ n \in 1..n /\ Len(calls) = n BY <1>3
  <2> HIDE DEF n
  <2> QED BY ONLY <2>1, <2>2
<1>5. calls[n].left = {} BY <1>1 DEF this
<1>6. PICK W : W = calls[n].wait_delete OBVIOUS
<1>7. this.wait_delete = W BY <1>6 DEF this
<1> HIDE DEF n
<1>8. ir'.operands = ir.operands
  <2>1. DOMAIN ir.code = Block /\ IsData(ir) BY <1>2 DEF IrOK, IsData
  <2>2. PICK h : h = ir' OBVIOUS
  <2>3. h = DeleteInstrs(ir, bb_, W) BY <1>1, <1>7, <2>2
  <2> QED BY <1>2, <2>1, <2>2, <2>3, Deletion
<1>9. \A c : Below(c)' <=> Below(c) BY <1>1, <1>3, <1>4, <1>5 DEF Below
<1>10. /\ \A x : Ahead(x)' <=> Ahead(x)
       /\ \A c : Filled(c)' <=> Filled(c)
  BY <1>1, <1>9 DEF Ahead, Filled
<1>11. StoresKept BY <1>8, <1>10 DEF StoresKept
<1>12. SubstOK' BY <1>1, <1>2, <1>8, <1>10, <1>11, SubstKept
<1>13. CarriesOK' BY <1>1, <1>2, <1>8, <1>10, <1>11, CarriesKept
<1>14. LeftOK' BY <1>1 DEF LeftOK
<1>15. CASE calls' = << >>
  <2>1. DOMAIN calls' = {} /\ Len(calls') = 0 BY <1>15
  <2>2. n = 1 BY <1>3, <1>4, <2>1
  <2>3. TopOK' BY <1>1, <2>2 DEF TopOK
  <2>4. PICK base : base \in [DOMAIN calls' -> [Variables' -> Nat]] /\ BaseOK(base)'
    BY <1>2 DEF StacksOK
  <2>5. HeldOK(base)' BY <2>1 DEF HeldOK
  <2> QED BY <1>12, <1>13, <1>14, <2>3, <2>4, <2>5 DEF ValuesOK, StackValuesOK
<1>16. CASE calls' # << >>
  <2>1. PICK base : base \in [DOMAIN calls -> [Variables -> Nat]] /\ BaseOK(base) /\ HeldOK(base)
    BY <1>2 DEF StackValuesOK
  <2>2. /\ \A v \in Variables : Len(StackOf(v)') = base[n][v]
        /\ \E next : BaseOK(next)' /\ \A k \in DOMAIN calls' : next[k] = base[k]
    BY <1>16, <2>1, ReturnFrom DEF n
  <2>3. PICK next : BaseOK(next)' /\ \A k \in DOMAIN calls' : next[k] = base[k] BY <2>2
  <2>4. n # 1 /\ n - 1 \in 1..(n - 1) /\ n - 1 \in 1..n /\ n > 1
    <3>1. Len(calls') # 0 BY <1>2, <1>16 DEF IInv, CallsOK
    <3> QED BY <1>3, <1>4, <3>1
  <2>5. PICK b : b = calls[n - 1].bb OBVIOUS
  <2>6. bb_' = b /\ b \in Blocks(f) /\ b \in Block /\ pc' = "children"
    BY <1>1, <1>2, <1>3, <1>4, <2>4, <2>5, WaitTyped, Code DEF bb_, this
  <2>7. PICK c : c = bb_ OBVIOUS
  <2>8. IsIdom(f, b, c) /\ c \in Blocks(f) BY <1>2, <1>3, <2>4, <2>5, <2>7 DEF CallsOK
  <2>9. Variables' = Variables /\ Known' \subseteq Variables
    <3>1. Variables' = Variables BY <1>1, SameFunction
    <3> QED BY <1>2, <3>1 DEF StacksOK
  <2>10. ASSUME NEW v \in Variables, NEW m, m \in 1..base[n][v]
         PROVE  m \in DOMAIN StackOf(v)' /\ StackOf(v)'[m] = StackOf(v)[m]
    <3>1. PICK s : s = StackOf(v)' OBVIOUS
    <3>2. Len(s) = base[n][v] BY <2>2, <3>1
    <3>3. v \in Known' /\ s = var_val_stack'[v]
      <4>1. base[n][v] # 0 BY <2>10
      <4>2. Len(<< >>) = 0 OBVIOUS
      <4> QED BY <3>1, <3>2, <4>1, <4>2 DEF StackOf
    <3>4. s \in Seq(DOMAIN ir'.use_list) BY <1>2, <3>3 DEF StacksOK
    <3>5. m \in DOMAIN s BY <2>10, <3>2, <3>4
    <3>6. v \in Known /\ var_val_stack'[v][m] = var_val_stack[v][m] BY <1>2, <3>3, <3>5, Left
    <3> QED BY <3>1, <3>3, <3>5, <3>6 DEF StackOf
  <2>11. ASSUME NEW v \in Variables, NEW k \in 1..n PROVE base[k][v] \in 0..base[n][v]
    <3>1. base[k][v] \in Nat /\ base[n][v] \in Nat BY <1>3, <2>1
    <3>2. CASE k = n BY <3>1, <3>2
    <3>3. CASE k # n
      <4>1. k \in 1..(n - 1) BY <1>3, <3>3
      <4>2. calls[k].bb \in Block BY <1>2, <1>3, WaitTyped, Code
      <4>3. Cardinality(Pushes(calls[k].bb, v)) \in Nat BY <1>2, <4>2, PushesFinite
      <4>4. base[n][v] >= base[k][v] + Cardinality(Pushes(calls[k].bb, v))
        BY <1>3, <2>1, <4>1 DEF BaseOK
      <4> QED BY <3>1, <4>3, <4>4
    <3> QED BY <3>2, <3>3
  <2>12. ASSUME NEW v \in Variables, NEW m \in 0..base[n][v], NEW d, NEW S, EntryOK(m, v, d, S)
         PROVE  EntryOK(m, v, d, S)'
    <3>1. m # 0 => m \in DOMAIN StackOf(v)' /\ StackOf(v)'[m] = StackOf(v)[m]
      <4>1. m # 0 => m \in 1..base[n][v] BY <1>3, <2>1
      <4> QED BY <2>10, <4>1
    <3> QED BY <1>1, <1>2, <1>8, <1>11, <2>12, <3>1, EntryStays
  <2>13. HeldOK(next)'
    <3>1. ASSUME NEW v \in Variables, NEW k \in 1..(n - 1) PROVE EntryOK(next[k][v], v, calls[k].bb, {})'
      <4>1. PICK m, d : m = base[k][v] /\ d = calls[k].bb OBVIOUS
      <4>2. next[k][v] = m /\ calls'[k].bb = d /\ k \in 1..n BY <1>3, <1>4, <2>3, <4>1
      <4>3. EntryOK(m, v, d, {}) BY <1>3, <2>1, <4>1, <4>2 DEF HeldOK
      <4>4. m \in 0..base[n][v] BY <2>11, <4>1, <4>2
      <4>5. EntryOK(m, v, d, {})' BY <2>12, <4>3, <4>4
      <4> QED BY <4>2, <4>5, Zenon
    <3> QED BY <1>4, <2>9, <3>1, Zenon DEF HeldOK
  <2>14. TopOK'
    <3>1. ASSUME NEW v \in Variables PROVE EntryOK(Len(StackOf(v)), v, bb_, Here(v))'
      <4>1. PICK m : m = base[n][v] OBVIOUS
      <4>2. m \in 0..base[n][v] BY <1>3, <2>11, <4>1
      <4>3. EntryOK(m, v, c, {}) BY <1>3, <2>1, <2>7, <4>1 DEF HeldOK
      <4>4. PICK S : S = Pushes(b, v) OBVIOUS
      <4>5. EntryOK(m, v, b, S) BY <1>2, <2>6, <2>8, <4>3, <4>4, EntryAtChild
      <4>6. EntryOK(m, v, b, S)' BY <2>12, <4>2, <4>5
      <4>7. Here(v)' = S
        <5>1. Pushes(b, v)' = Pushes(b, v) BY <1>1, <1>8, SamePhis, Zenon
        <5> QED BY <2>6, <4>4, <5>1 DEF Here
      <4>8. Len(StackOf(v))' = m BY <2>2, <4>1
      <4> QED BY <2>6, <4>6, <4>7, <4>8, Zenon
    <3> QED BY <2>9, <3>1, Zenon DEF TopOK
  <2>15. next \in [DOMAIN calls' -> [Variables' -> Nat]] BY <2>3 DEF BaseOK
  <2> QED BY <1>12, <1>13, <1>14, <2>3, <2>13, <2>14, <2>15 DEF ValuesOK, StackValuesOK
<1> QED BY <1>15, <1>16

\* Where no call is under way, no stack is looked at.
LEMMA IdleValues ==
  ASSUME IInv', pc' \in {"place", "allocas", "done"}
  PROVE  LeftOK' /\ StackValuesOK'
<1>1. calls' = << >> BY DEF IInv, CallsOK
<1>2. DOMAIN calls' = {} BY <1>1
<1>3. PICK base : base \in [DOMAIN calls' -> [Variables' -> Nat]] /\ BaseOK(base)'
  BY DEF IInv, StacksOK
<1>4. HeldOK(base)' BY <1>2 DEF HeldOK
<1>5. LeftOK' /\ TopOK' BY DEF LeftOK, TopOK
<1> QED BY <1>3, <1>4, <1>5 DEF StackValuesOK

\* What has not been begun is as it was.
LEMMA AsItWas ==
  ASSUME IInv, SubstOK, pc = "place", NEW x \in InstrsIn(f), NEW j \in DOMAIN f.operands[x]
  PROVE  ir.operands[x][j] = f.operands[x][j]
<1>1. \A l : Ahead(l) BY DEF Ahead
<1> QED BY <1>1 DEF SubstOK, Becomes

LEMMA NextVarValues ==
  ASSUME IInv, ListsOK, DomOK, ValuesOK, NextVar
  PROVE  ValuesOK'
<1>1. pc = "place" /\ pc' = "place" /\ f' = f /\ ir' = ir BY DEF NextVar
<1>2. IInv' /\ SubstOK BY <1>1, NextVarStep DEF ValuesOK
<1>3. SubstOK'
  <2>1. \A l : Ahead(l)' BY <1>1 DEF Ahead
  <2>2. \A x \in InstrsIn(f) : \A j \in DOMAIN f.operands[x] : Becomes(f.operands[x][j], f.operands[x][j])'
    BY <2>1 DEF Becomes
  <2> QED BY <1>1, <1>2, <2>2, AsItWas, SubstFrom
<1>4. CarriesOK' BY <1>1 DEF CarriesOK, Filled
<1> QED BY <1>1, <1>2, <1>3, <1>4, IdleValues DEF ValuesOK

LEMMA PlacePhisValues ==
  ASSUME IInv, ListsOK, DomOK, ValuesOK, PlacePhis
  PROVE  ValuesOK'
<1>1. /\ pc = "place" /\ pc' = "place" /\ f' = f /\ IInv' /\ SubstOK
      /\ f \in Functions /\ IrOK
  BY PlacePhisStep DEF PlacePhis, IInv, ValuesOK
<1>2. PICK b \in work_list :
        LET joins == {c \in Frontier(f, b) : PhiOf(var, c) \notin Range(ir.code[c])}
            phis == {PhiOf(var, c) : c \in joins}
            g   == Declare(ir, phis)
        IN  ir' = [g EXCEPT !.code = [c \in Block |->
                     IF c \in joins THEN <<PhiOf(var, c)>> \o @[c] ELSE @[c]]]
  BY Zenon DEF PlacePhis
<1> DEFINE added == {c \in Frontier(f, b) : PhiOf(var, c) \notin Range(ir.code[c])}
           phis == {PhiOf(var, c) : c \in added}
<1>3. ir'.operands = [y \in DOMAIN ir.operands \cup phis |-> IF y \in phis THEN << >> ELSE ir.operands[y]]
  BY <1>1, <1>2 DEF Declare, IrOK
<1>4. \A x \in phis : IsPhi(x) BY Phis
<1> HIDE DEF phis, added
<1>5. \A x \in InstrsIn(f) : ir'.operands[x] = ir.operands[x] BY <1>1, <1>3, <1>4, Code DEF IrOK
<1>6. SubstOK'
  <2>1. \A l : Ahead(l)' BY <1>1 DEF Ahead
  <2>2. \A x \in InstrsIn(f) : \A j \in DOMAIN f.operands[x] : Becomes(f.operands[x][j], f.operands[x][j])'
    BY <2>1 DEF Becomes
  <2> QED BY <1>1, <1>5, <2>2, AsItWas, SubstFrom
<1>7. CarriesOK' BY <1>1 DEF CarriesOK, Filled
<1> QED BY <1>1, <1>6, <1>7, IdleValues DEF ValuesOK

LEMMA StartRenameValues ==
  ASSUME IInv, ListsOK, DomOK, ValuesOK, StartRename
  PROVE  ValuesOK'
<1>1. /\ pc = "place" /\ pc' = "enter" /\ UNCHANGED <<f, ir, var_val_stack>>
      /\ calls' = <<Call(root)>>
  BY Zenon DEF StartRename
<1>2. IInv' /\ SubstOK /\ f \in Functions BY <1>1, StartRenameStep DEF IInv, ValuesOK
<1>3. /\ DOMAIN calls' = {1} /\ Len(calls') = 1 /\ calls'[1].bb = root /\ calls'[1].left = Children(root)
      /\ bb_' = root /\ this'.left = Children(root)
  BY <1>1 DEF Call, bb_, this
<1>4. ASSUME NEW c \in Blocks(f) PROVE c = root \/ Below(c)'
  <2> SUFFICES ASSUME c # root PROVE Below(c)'
    OBVIOUS
  <2>1. root \in Blocks(f) /\ StrictlyDominates(f, root, c)
    BY <1>2, Code, RootDominates DEF StrictlyDominates
  <2>2. PICK e \in Children(root) : Dominates(f, e, c) BY <1>2, <2>1, ChildExists
  <2> QED BY <1>1, <1>3, <2>2 DEF Below
<1>5. ASSUME NEW x \in InstrsIn(f) PROVE Ahead(x)'
  <2>1. PICK c \in Blocks(f) : x \in Range(f.code[c]) BY <1>2, Places
  <2> QED BY <1>1, <1>3, <1>4, <2>1 DEF Ahead
<1>6. SubstOK'
  <2>1. ASSUME NEW x \in InstrsIn(f), NEW j \in DOMAIN f.operands[x]
        PROVE  Becomes(f.operands[x][j], f.operands[x][j])'
    <3>1. f.operands[x][j] \in ValuesIn(f) BY <1>2, Code
    <3>2. IsLoad(f.operands[x][j]) => f.operands[x][j] \in InstrsIn(f)
      BY <1>2, <3>1, Operands DEF IsDef, IsLoad
    <3> QED BY <1>1, <1>5, <3>2 DEF Becomes
  <2> QED BY <1>1, <1>2, <2>1, AsItWas, SubstFrom
<1>7. CarriesOK' BY <1>1, <1>3, <1>4 DEF CarriesOK, Filled, PredsOf
<1>8. LeftOK'
  <2>1. PICK r : r = root OBVIOUS
  <2>2. bb_' = r /\ this'.left = Children(r) BY <1>3, <2>1
  <2>3. Children(r)' = Children(r) BY <1>1, SameFunction
  <2>4. this'.left = Children(bb_)' BY <2>2, <2>3, Zenon
  <2> QED BY <2>4, Zenon DEF LeftOK
<1>9. PICK base \in [DOMAIN calls' -> [Variables' -> Nat]] : BaseOK(base)'
  BY <1>2 DEF IInv, StacksOK
<1>10. HeldOK(base)'
  <2>1. ASSUME NEW v \in Variables', NEW k \in DOMAIN calls' PROVE EntryOK(base[k][v], v, calls[k].bb, {})'
    <3>1. k = 1 /\ base[k][v] = 0 BY <1>3, <1>9 DEF BaseOK
    <3>2. PICK r : r = root OBVIOUS
    <3>3. Unset(v, r, {})'
      <4>1. \A c \in Blocks(f) : ~StrictlyDominates(f, c, r)
        BY <1>2, <3>2, Code, RootDominates, DominatesAntisymmetric DEF StrictlyDominates
      <4> QED BY <1>1, <4>1 DEF Unset
    <3>4. EntryOK(0, v, r, {})' BY <3>3 DEF EntryOK
    <3>5. calls'[k].bb = r BY <1>3, <3>1, <3>2
    <3> QED BY <3>1, <3>4, <3>5, Zenon
  <2> QED BY <2>1, Zenon DEF HeldOK
<1>11. TopOK' BY <1>1 DEF TopOK
<1> QED BY <1>6, <1>7, <1>8, <1>9, <1>10, <1>11 DEF ValuesOK, StackValuesOK

LEMMA RemoveAllocasValues ==
  ASSUME IInv, ListsOK, DomOK, ValuesOK, RemoveAllocas
  PROVE  ValuesOK'
<1>1. /\ pc = "allocas" /\ pc' = "done" /\ f' = f /\ calls' = calls
      /\ ir' = [ir EXCEPT !.code = [b \in Block |-> Without(ir.code[b], ScalarAllocas)]]
  BY DEF RemoveAllocas
<1>2. IInv' /\ IrOK /\ SubstOK /\ CarriesOK BY <1>1, RemoveAllocasStep DEF IInv, ValuesOK
<1>3. ir'.operands = ir.operands BY <1>1, <1>2 DEF IrOK
<1>4. \A c : Below(c)' <=> Below(c) BY <1>1 DEF Below
<1>5. /\ \A x : Ahead(x)' <=> Ahead(x)
      /\ \A c : Filled(c)' <=> Filled(c)
  BY <1>1, <1>4 DEF Ahead, Filled
<1>6. StoresKept BY <1>3, <1>5 DEF StoresKept
<1>7. SubstOK' BY <1>1, <1>2, <1>3, <1>5, <1>6, SubstKept
<1>8. CarriesOK' BY <1>1, <1>2, <1>3, <1>5, <1>6, CarriesKept
<1> QED BY <1>1, <1>2, <1>7, <1>8, IdleValues DEF ValuesOK

LEMMA ValuesUntouched ==
  ASSUME IInv, ValuesOK, UNCHANGED pass
  PROVE  ValuesOK'
<1>1. UNCHANGED <<f, ir, pc, var_val_stack, calls, line>> BY DEF pass
<1> SUFFICES ASSUME pc # "abort" PROVE LeftOK' /\ SubstOK' /\ CarriesOK' /\ StackValuesOK'
  BY <1>1 DEF ValuesOK
<1>2. LeftOK /\ SubstOK /\ CarriesOK /\ StackValuesOK /\ IrOK BY DEF ValuesOK, IInv
<1>3. bb_' = bb_ /\ this' = this /\ Known' = Known /\ Variables' = Variables
  BY <1>1, SameFunction DEF bb_, this, Known
<1>4. \A c : Below(c)' <=> Below(c) BY <1>1 DEF Below
<1>5. /\ \A x : Ahead(x)' <=> Ahead(x)
      /\ \A c : Filled(c)' <=> Filled(c)
  BY <1>1, <1>3, <1>4, Zenon DEF Ahead, Filled
<1>6. StoresKept BY <1>1, <1>5 DEF StoresKept
<1>7. SubstOK' BY <1>1, <1>2, <1>5, <1>6, SubstKept
<1>8. CarriesOK' BY <1>1, <1>2, <1>5, <1>6, CarriesKept
<1>9. LeftOK'
  <2>1. \A b : Children(b)' = Children(b) BY <1>1, SameFunction
  <2> QED BY <1>1, <1>2, <1>3, <2>1 DEF LeftOK
<1>10. StackValuesOK'
  <2>1. \A v : StackOf(v)' = StackOf(v) BY <1>1, Zenon DEF StackOf, Known
  <2>2. StacksGrow BY <2>1 DEF StacksGrow
  <2>3. \E base \in [DOMAIN calls' -> [Variables' -> Nat]] : BaseOK(base)' /\ HeldOK(base)'
    BY <1>1, <1>2, <1>6, <2>2, Untouched, HeldKept
  <2>4. TopOK'
    <3>1. ASSUME pc \in {"instr", "children"}, NEW v \in Variables
          PROVE  EntryOK(Len(StackOf(v)), v, bb_, Here(v))'
      <4>1. PICK m, b, S : m = Len(StackOf(v)) /\ b = bb_ /\ S = Here(v) OBVIOUS
      <4>2. EntryOK(m, v, b, S) BY <1>2, <3>1, <4>1 DEF StackValuesOK, TopOK
      <4>3. EntryOK(m, v, b, S)' BY <1>1, <1>2, <1>6, <2>2, <4>2, EntryKept
      <4>4. Here(v)' = S
        <5>1. \A c : Pushes(c, v)' = Pushes(c, v) BY <1>1, SamePhis, Zenon
        <5>2. Pushes(bb_, v)' = Pushes(bb_, v)
          <6>1. Pushes(b, v)' = Pushes(b, v) /\ bb_ = b /\ bb_' = b BY <1>3, <4>1, <5>1
          <6> QED BY <6>1, Zenon
        <5>3. \A i : PushedBy(i, v)' = PushedBy(i, v) BY <1>1, <1>3, <5>2 DEF PushedBy
        <5> QED BY <1>1, <1>3, <4>1, <5>2, <5>3, Zenon DEF Here
      <4>5. Len(StackOf(v))' = m /\ bb_' = b BY <1>3, <2>1, <4>1
      <4> QED BY <4>3, <4>4, <4>5, Zenon
    <3> QED BY <1>1, <1>3, <3>1, Zenon DEF TopOK
  <2> QED BY <2>3, <2>4 DEF StackValuesOK
<1> QED BY <1>7, <1>8, <1>9, <1>10

LEMMA InitValues == InitPass => ValuesOK
<1> SUFFICES ASSUME InitPass PROVE ValuesOK
  OBVIOUS
<1>1. /\ f \in Functions /\ pc = "place" /\ calls = << >> /\ ir.operands = f.operands
  BY DEF InitPass
<1>2. SubstOK
  <2>1. \A x : Ahead(x) BY <1>1 DEF Ahead
  <2> QED BY <1>1, <2>1 DEF SubstOK, Becomes
<1>3. CarriesOK /\ LeftOK /\ TopOK BY <1>1 DEF CarriesOK, Filled, LeftOK, TopOK
<1>4. PICK base \in [DOMAIN calls -> [Variables -> Nat]] : BaseOK(base)
  BY InitIInv DEF IInv, StacksOK
<1>5. HeldOK(base) BY <1>1 DEF HeldOK
<1> QED BY <1>2, <1>3, <1>4, <1>5 DEF ValuesOK, StackValuesOK

LEMMA NextValues == IInv /\ ListsOK /\ DomOK /\ ValuesOK /\ [Next]_vars => ValuesOK'
<1> SUFFICES ASSUME IInv, ListsOK, DomOK, ValuesOK, [Next]_vars PROVE ValuesOK'
  OBVIOUS
<1>1. NextPass \/ UNCHANGED pass BY DEF Next, Rename, Memory0, Memory1, Together, vars
<1>2. CASE UNCHANGED pass BY <1>2, ValuesUntouched
<1>3. CASE NextPass
  BY <1>3, NextVarValues, PlacePhisValues, StartRenameValues, PushPhisValues, RenameLoadValues,
     LoadOfNothingValues, RenameStoreValues, SkipInstrValues, FillPhisValues, VisitChildValues,
     ReturnValues, RemoveAllocasValues, Zenon DEF NextPass
<1> QED BY <1>1, <1>2, <1>3

\* A value computed before a place is not the instruction there.
LEMMA NotAgain ==
  ASSUME f \in Functions, NEW b \in Blocks(f), NEW j \in DOMAIN f.code[b]
  PROVE  ~Precedes(f.code[b][j], b, j)
<1> SUFFICES ASSUME Precedes(f.code[b][j], b, j) PROVE FALSE
  OBVIOUS
<1>1. PICK x : x = f.code[b][j] OBVIOUS
<1>2. b \in Block /\ x \in Range(f.code[b]) /\ x \in InstrsIn(f) /\ ~IsPhi(x)
  <2>1. b \in Block BY Code
  <2>2. x \in Range(f.code[b]) BY <1>1 DEF Range
  <2>3. x \in InstrsIn(f) BY <2>1, <2>2, Places
  <2> QED BY <2>1, <2>2, <2>3, Code
<1>3. \A c : x \notin PhisOf(c) BY <1>2, Phis DEF PhisOf
<1>4. \A c \in Blocks(f) : x \in Range(f.code[c]) => c = b BY <1>2, Code, Places
<1>5. PICK i \in DOMAIN f.code[b] : i < j /\ f.code[b][i] = x
  BY <1>1, <1>3, <1>4 DEF Precedes, ComputedIn, StrictlyDominates
<1>6. IsInjective(f.code[b]) /\ f.code[b] \in Seq(InstrsIn(f)) BY <1>2, Code
<1>7. i = j BY <1>1, <1>5, <1>6 DEF IsInjective
<1> QED BY <1>5, <1>6, <1>7

\* What a definition gives can be read where it has been.
LEMMA GivenReaches ==
  ASSUME IInv, ReachOK, NEW c \in Blocks(f), NEW v, NEW d \in Pushes(c, v)
  PROVE  /\ ReachesEnd(Given(d), c)
         /\ \A b \in Blocks(f) : StrictlyDominates(f, c, b) => ReachesStart(Given(d), b)
         /\ ~IsPhi(d) => Reaches(Given(d), d, c)
<1>1. f \in Functions /\ IrOK /\ c \in Block BY Code DEF IInv
<1>2. ReachesEnd(Given(d), c) /\ (~IsPhi(d) => Reaches(Given(d), d, c))
  <2>1. CASE IsPhi(d)
    <3>1. d \in PhisOf(c) BY <1>1, <2>1, PushedKinds
    <3> QED BY <1>1, <2>1, <3>1, Code, DominatesReflexive DEF Given, ReachesEnd, ComputedIn
  <2>2. CASE ~IsPhi(d)
    <3>1. IsStore(d) /\ d \in Range(f.code[c]) /\ d \in InstrsIn(f) BY <1>1, <2>2, PushedKinds
    <3>2. 1 \in DOMAIN ir.operands[d]
      <4>1. ir.operands[d] \in Seq(DOMAIN ir.use_list) /\ Len(ir.operands[d]) = 2
        BY <1>1, <3>1 DEF IrOK
      <4> QED BY <4>1
    <3>3. Reaches(Given(d), d, c) BY <1>1, <2>2, <3>1, <3>2 DEF ReachOK, Given
    <3> QED BY <1>1, <3>3, Further
  <2> QED BY <2>1, <2>2
<1> QED BY <1>1, <1>2, Further

\* The same of a definition that reaches a place.
LEMMA ReachingReads ==
  ASSUME IInv, ReachOK, NEW c \in Blocks(f), NEW v, NEW S \in SUBSET Pushes(c, v), NEW d, Reaching(d, v, c, S)
  PROVE  /\ \A b \in Blocks(f) : StrictlyDominates(f, c, b) => ReachesStart(Given(d), b)
         /\ S = {} => ReachesStart(Given(d), c)
         /\ S # {} => d \in S
<1>1. CASE S # {}
  <2>1. d \in S BY <1>1 DEF Reaching, LastOf
  <2> QED BY <1>1, <2>1, GivenReaches
<1>2. CASE S = {}
  <2>1. PICK e \in Blocks(f) : Closest(e, v, c) /\ d \in Pushes(e, v) BY <1>2 DEF Reaching, LastOf
  <2>2. StrictlyDominates(f, e, c) BY <2>1 DEF Closest
  <2>3. ReachesStart(Given(d), c) BY <2>1, <2>2, GivenReaches
  <2> QED BY <1>2, <2>3, Further DEF IInv, StrictlyDominates
<1> QED BY <1>1, <1>2

\* What can be read in a strict dominator, or was given before a place, is not computed there again.
LEMMA NotOverwritten ==
  ASSUME IInv, ReachOK, NEW b \in Blocks(f), NEW j \in DOMAIN f.code[b], IsDef(f.code[b][j]),
         NEW c \in Blocks(f), NEW v, NEW S \in SUBSET Pushes(c, v), NEW d, Reaching(d, v, c, S),
         StrictlyDominates(f, c, b) \/ (c = b /\ \A s \in S : Precedes(s, b, j))
  PROVE  Given(d) # f.code[b][j]
<1> SUFFICES ASSUME Given(d) = f.code[b][j] PROVE FALSE
  OBVIOUS
<1>1. f \in Functions /\ IrOK /\ b \in Block BY Code DEF IInv
<1>2. PICK x : x = f.code[b][j] OBVIOUS
<1>3. x \in Range(f.code[b]) /\ IsDef(x) /\ Given(d) = x /\ ~Precedes(x, b, j) /\ ~IsPhi(x)
  BY <1>1, <1>2, NotAgain, Code, Places DEF Range
<1>4. ~ReachesStart(x, b) BY <1>3 DEF ReachesStart, Precedes
<1>5. c = b /\ S # {} /\ d \in S /\ Precedes(d, b, j) BY <1>3, <1>4, ReachingReads
<1>6. d \in Pushes(b, v) BY <1>5
<1>7. ~IsPhi(d) BY <1>3 DEF Given
<1>8. IsStore(d) /\ d \in Range(f.code[b]) /\ d \in InstrsIn(f) /\ d \notin PhisOf(b)
  BY <1>1, <1>6, <1>7, PushedKinds
<1>9. PICK i \in DOMAIN f.code[b] : i < j /\ f.code[b][i] = d
  <2>1. \A e \in Blocks(f) : ComputedIn(d, e) => e = b BY <1>1, <1>8, ComputedAt
  <2> QED BY <1>5, <1>8, <2>1 DEF Precedes, StrictlyDominates
<1>10. Reaches(x, d, b) BY <1>3, <1>6, <1>7, GivenReaches
<1>11. PICK m, n \in DOMAIN f.code[b] : m < n /\ f.code[b][m] = x /\ f.code[b][n] = d
  <2>1. x \notin PhisOf(b) BY <1>3, Phis DEF PhisOf
  <2> QED BY <1>4, <1>10, <2>1 DEF Reaches, ComesBefore
<1>12. m = j /\ n = i BY <1>1, <1>2, <1>9, <1>11, Code DEF IsInjective
<1>13. DOMAIN f.code[b] = 1..Len(f.code[b]) /\ Len(f.code[b]) \in Nat BY <1>1, Code
<1> QED BY <1>9, <1>11, <1>12, <1>13

\* What the second execution has stays, where what was given is not computed again.
LEMMA GivesKept ==
  ASSUME f' = f, ir' = ir, NEW n, NEW v, NEW b, NEW S, Gives(n, v, b, S), DOMAIN env1' = DOMAIN env1,
         \A d \in DOMAIN ir.operands :
           Reaching(d, v, b, S) /\ Given(d) \in DOMAIN env1 => env1'[Given(d)] = env1[Given(d)]
  PROVE  Gives(n, v, b, S)'
<1> SUFFICES ASSUME n # Undef PROVE /\ ~Unset(v, b, S)'
                                   /\ \A d \in DOMAIN ir.operands : Reaching(d, v, b, S)' => Shows(Given(d), n)'
  BY DEF Gives
<1>1. ~Unset(v, b, S)' BY SameValues DEF Gives
<1>2. ASSUME NEW d \in DOMAIN ir.operands, Reaching(d, v, b, S)' PROVE Shows(Given(d), n)'
  <2>1. Reaching(d, v, b, S) BY <1>2, SameValues
  <2>2. Shows(Given(d), n) BY <2>1 DEF Gives
  <2>3. PICK e : e = Given(d) OBVIOUS
  <2>4. (e \in DOMAIN env1 => env1'[e] = env1[e]) /\ Shows(e, n) BY <2>1, <2>2, <2>3
  <2>5. Shows(e, n)' BY <2>4 DEF Shows, V1, After!Value, After!Kind
  <2>6. Given(d)' = e BY <2>3 DEF Given
  <2> QED BY <2>5, <2>6, Zenon
<1> QED BY <1>1, <1>2

----
\* When the pass is over.
LEMMA Finished ==
  ASSUME IInv, ListsOK, DomOK, ValuesOK, pc = "done"
  PROVE  /\ f \in Functions /\ IrOK /\ SubstOK /\ CarriesOK /\ OperandsOK /\ ReachOK /\ PhiReadsOK
         /\ \A b \in Block : Kept(b) /\ ir.code[b] \in Seq(DOMAIN ir.operands)
         /\ \A x : ~Ahead(x)
         /\ \A c : Filled(c)
         /\ \A v \in Variables, b \in Blocks(f) : Defines(b, v) => \A c \in Frontier(f, b) : HasPhi(v, c)
<1>1. calls = << >> BY DEF IInv, CallsOK
<1>2. DOMAIN calls = {} BY <1>1
<1>3. \A c : ~Below(c) BY <1>2 DEF Below
<1>4. (\A x : ~Ahead(x)) /\ (\A c : Filled(c)) BY <1>3 DEF Ahead, Filled
<1>5. \A v \in Variables, b \in Blocks(f) : Defines(b, v) => \A c \in Frontier(f, b) : HasPhi(v, c)
  <2>1. vars_left = {} /\ work_list = {} /\ PhisPlaced BY DEF IInv, PlaceOK
  <2> QED BY <2>1 DEF PhisPlaced
<1> QED BY <1>4, <1>5 DEF IInv, ListsOK, DomOK, ValuesOK, CodeOK, KeptOK

\* Where the first execution is.
LEMMA AtPlace ==
  ASSUME IInv, ListsOK, DomOK, ValuesOK, RunOK, pc = "done", NEW kind, Before!Executes(kind)
  PROVE  /\ bb \in Block /\ bb \in Blocks(f) /\ line0 \in DOMAIN f.code[bb] /\ Before!instr = f.code[bb][line0]
         /\ f.code[bb][line0] \in Range(f.code[bb]) /\ f.code[bb][line0] \in InstrsIn(f)
         /\ f.code[bb][line0][1] = kind
<1>1. f \in Functions /\ bb \in Blocks(f) /\ bb \in Block /\ line0 \in Nat \ {0}
  BY Finished, Code DEF RunOK, EnvTyped
<1>2. f.code[bb] \in Seq(InstrsIn(f)) BY <1>1, Code
<1>3. line0 <= Len(f.code[bb]) /\ f.code[bb][line0][1] = kind /\ Before!instr = f.code[bb][line0]
  BY DEF Before!Executes, Before!instr, Before!Kind
<1>4. line0 \in DOMAIN f.code[bb] BY <1>1, <1>2, <1>3
<1> QED BY <1>1, <1>2, <1>3, <1>4, Places DEF Range

\* And the second.
LEMMA AtPlaceAfter ==
  ASSUME IInv, ListsOK, DomOK, ValuesOK, RunOK, pc = "done", NEW kind, After!Executes(kind)
  PROVE  /\ line1 \in DOMAIN ir.code[bb] /\ After!instr = ir.code[bb][line1]
         /\ ir.code[bb][line1] \in Range(ir.code[bb])
         /\ ir.code[bb][line1][1] = kind
         /\ kind # "phi" => ir.code[bb][line1] \in Range(f.code[bb]) /\ ir.code[bb][line1] \in InstrsIn(f)
<1>1. f \in Functions /\ bb \in Blocks(f) /\ bb \in Block /\ line1 \in Nat \ {0}
      /\ Kept(bb) /\ ir.code[bb] \in Seq(DOMAIN ir.operands)
  BY Finished, Code DEF RunOK, EnvTyped
<1>2. line1 <= Len(ir.code[bb]) /\ ir.code[bb][line1][1] = kind /\ After!instr = ir.code[bb][line1]
  BY DEF After!Executes, After!instr, After!Kind
<1>3. line1 \in DOMAIN ir.code[bb] BY <1>1, <1>2
<1>4. ir.code[bb][line1] \in Range(ir.code[bb]) BY <1>3 DEF Range
<1>5. ASSUME kind # "phi" PROVE ir.code[bb][line1] \in Range(f.code[bb])
  <2>1. \A x \in PhisOf(bb) : x[1] = "phi" BY Phis DEF PhisOf, IsPhi
  <2> QED BY <1>1, <1>2, <1>4, <1>5, <2>1 DEF Kept
<1> QED BY <1>1, <1>2, <1>3, <1>4, <1>5, Places

\* Where both wait, they wait at the same instruction.
LEMMA SameInstr ==
  ASSUME IInv, ListsOK, DomOK, ValuesOK, RunOK, pc = "done", Waits0, Waits1
  PROVE  f.code[bb][line0] = ir.code[bb][line1]
<1>1. PICK kind \in {"op", "br", "ret"} : Before!Executes(kind) BY DEF Waits0
<1>2. PICK sort \in {"op", "br", "ret"} : After!Executes(sort) BY DEF Waits1
<1>3. PICK x, y : x = f.code[bb][line0] /\ y = ir.code[bb][line1] OBVIOUS
<1>4. /\ bb \in Block /\ line0 \in DOMAIN f.code[bb] /\ x \in Range(f.code[bb]) /\ x[1] \in {"op", "br", "ret"}
      /\ line1 \in DOMAIN ir.code[bb] /\ y \in Range(f.code[bb]) /\ y[1] \in {"op", "br", "ret"}
  BY <1>1, <1>2, <1>3, AtPlace, AtPlaceAfter
<1>5. f \in Functions /\ Kept(bb) /\ f.code[bb] \in Seq(InstrsIn(f)) /\ ir.code[bb] \in Seq(DOMAIN ir.operands)
  BY <1>4, Finished, Code
<1>6. PICK m \in DOMAIN ir.code[bb] : ir.code[bb][m] = x BY <1>4, <1>5 DEF Kept, Range
<1>7. PICK i \in DOMAIN f.code[bb] : f.code[bb][i] = y BY <1>4 DEF Range
<1>8. PlaceOfBoth BY DEF RunOK
<1>9. m >= line1
  <2>1. line0 >= line0 <=> m >= line1 BY <1>3, <1>4, <1>6, <1>8 DEF PlaceOfBoth
  <2> QED BY <1>4, <1>5, <2>1
<1>10. i >= line0
  <2>1. i >= line0 <=> line1 >= line1 BY <1>3, <1>4, <1>7, <1>8 DEF PlaceOfBoth
  <2> QED BY <1>4, <1>5, <2>1
<1>11. ~(line0 < i)
  <2>1. line0 < i => m < line1 BY <1>3, <1>4, <1>5, <1>6, <1>7 DEF Kept, Ordered
  <2>2. m \in Nat /\ line1 \in Nat BY <1>4, <1>5, <1>6
  <2> QED BY <1>9, <2>1, <2>2
<1>12. i = line0 BY <1>4, <1>5, <1>7, <1>10, <1>11
<1> QED BY <1>3, <1>7, <1>12

\* A load that has a value comes before what reads it.
LEMMA ReadEarlier ==
  ASSUME f \in Functions, NEW b \in Blocks(f), NEW j \in DOMAIN f.code[b],
         NEW l \in InstrsIn(f), l \in Range(f.operands[f.code[b][j]])
  PROVE  Precedes(l, b, j)
<1>1. PICK x : x = f.code[b][j] OBVIOUS
<1>2. b \in Block /\ x \in Range(f.code[b]) BY <1>1, Code DEF Range
<1>3. CASE \E c \in Blocks(f) : c # b /\ l \in Range(f.code[c]) /\ Dominates(f, c, b)
  BY <1>3 DEF Precedes, ComputedIn, StrictlyDominates
<1>4. CASE \E i, k \in DOMAIN f.code[b] : i < k /\ f.code[b][i] = l /\ f.code[b][k] = x
  <2>1. PICK i, k \in DOMAIN f.code[b] : i < k /\ f.code[b][i] = l /\ f.code[b][k] = x BY <1>4
  <2>2. k = j BY <1>1, <1>2, <2>1, Code DEF IsInjective
  <2> QED BY <2>1, <2>2 DEF Precedes
<1> QED BY <1>1, <1>2, <1>3, <1>4, ReadBehind

\* What the one reads at an instruction the other does, unless it has no value.
LEMMA OperandAgrees ==
  ASSUME IInv, ListsOK, DomOK, ValuesOK, RunOK, pc = "done", line0 \in DOMAIN f.code[bb],
         NEW x, x = f.code[bb][line0], NEW j \in DOMAIN f.operands[x],
         f.operands[x][j][1] \in {"arg", "const", "op", "load"},
         V0(f.operands[x][j]) # Undef
  PROVE  Shows(ir.operands[x][j], V0(f.operands[x][j]))
<1>1. /\ f \in Functions /\ SubstOK /\ EnvsAgree /\ LoadsAgree /\ bb \in Blocks(f) /\ bb \in Block
      /\ \A y : ~Ahead(y)
  BY Finished, Code DEF RunOK, EnvTyped
<1>2. x \in Range(f.code[bb]) /\ x \in InstrsIn(f) BY <1>1, Places DEF Range
<1>3. PICK l, e : l = f.operands[x][j] /\ e = ir.operands[x][j] OBVIOUS
<1>4. l \in ValuesIn(f) /\ l \in Range(f.operands[x]) BY <1>1, <1>2, <1>3, Code DEF Range
<1>5. Becomes(l, e) BY <1>1, <1>2, <1>3 DEF SubstOK
<1>6. CASE ~IsLoad(l)
  <2>1. e = l /\ l[1] \in {"arg", "const", "op"} BY <1>3, <1>5, <1>6 DEF Becomes, IsLoad
  <2>2. CASE l[1] = "const"
    BY <1>3, <2>1, <2>2 DEF Shows, V0, V1, Before!Value, After!Value, Before!Kind, After!Kind
  <2>3. CASE l[1] # "const"
    <3>1. l \in DOMAIN env1 BY <1>4, <2>1, <2>3 DEF RunOK, EnvTyped, Named
    <3>2. env1[l] = env0[l]
      BY <1>1, <1>3, <1>4, <2>1, <2>3 DEF EnvsAgree, V0, Before!Value, Before!Kind
    <3> QED BY <1>3, <2>1, <2>3, <3>1, <3>2 DEF Shows, V0, V1, Before!Value, After!Value, Before!Kind, After!Kind
  <2> QED BY <2>2, <2>3
<1>7. CASE IsLoad(l)
  <2>1. l \in InstrsIn(f) BY <1>1, <1>4, <1>7, Operands DEF IsDef, IsLoad
  <2>2. PICK c \in Blocks(f) : l \in Range(f.code[c]) BY <1>1, <2>1, Places
  <2>3. Precedes(l, bb, line0) BY <1>1, <1>3, <1>4, <2>1, ReadEarlier
  <2>4. Gives(env0[l], Address(l), c, Prior(l, c)) BY <1>1, <1>7, <2>2, <2>3 DEF LoadsAgree
  <2>5. V0(l) = env0[l] /\ env0[l] # Undef BY <1>3, <1>7 DEF V0, Before!Value, Before!Kind, IsLoad
  <2>6. Reads(l, e)
    <3>1. ~Bare(l) BY <2>2, <2>4, <2>5 DEF Gives, Bare
    <3> QED BY <1>1, <1>5, <1>7, <3>1 DEF Becomes
  <2>7. PICK d \in DOMAIN ir.operands : Reaching(d, Address(l), c, Prior(l, c)) /\ e = Given(d)
    BY <2>2, <2>6 DEF Reads, Holds
  <2>8. Shows(e, env0[l]) BY <2>4, <2>5, <2>7 DEF Gives
  <2> QED BY <1>3, <2>5, <2>8
<1> QED BY <1>6, <1>7

\* What both read at an instruction that is neither a load nor a store.
LEMMA SameOperands ==
  ASSUME IInv, ListsOK, DomOK, ValuesOK, RunOK, pc = "done", line0 \in DOMAIN f.code[bb],
         NEW x, x = f.code[bb][line0], x[1] \in {"op", "br", "ret"}
  PROVE  /\ DOMAIN ir.operands[x] = DOMAIN f.operands[x]
         /\ \A j \in DOMAIN f.operands[x] :
              /\ ir.operands[x][j][1] = "bb" <=> f.operands[x][j][1] = "bb"
              /\ f.operands[x][j][1] = "bb" => ir.operands[x][j] = f.operands[x][j]
              /\ f.operands[x][j][1] # "bb" /\ V0(f.operands[x][j]) # Undef =>
                   V1(ir.operands[x][j]) = V0(f.operands[x][j])
<1>1. f \in Functions /\ SubstOK /\ OperandsOK /\ ReachOK /\ IrOK /\ bb \in Blocks(f) /\ bb \in Block
  BY Finished, Code DEF RunOK, EnvTyped
<1>2. x \in Range(f.code[bb]) /\ x \in InstrsIn(f) BY <1>1, Places DEF Range
<1>3. ~IsLoad(x) /\ ~IsStore(x) BY DEF IsLoad, IsStore
<1>4. ASSUME NEW j \in DOMAIN f.operands[x]
      PROVE  /\ ir.operands[x][j][1] = "bb" <=> f.operands[x][j][1] = "bb"
             /\ f.operands[x][j][1] = "bb" => ir.operands[x][j] = f.operands[x][j]
             /\ f.operands[x][j][1] # "bb" /\ V0(f.operands[x][j]) # Undef =>
                  V1(ir.operands[x][j]) = V0(f.operands[x][j])
  <2>1. PICK l, e : l = f.operands[x][j] /\ e = ir.operands[x][j] OBVIOUS
  <2>2. l[1] \in {"arg", "const", "bb", "op", "load"} BY <1>1, <1>2, <1>3, <2>1, Kinds
  <2>3. Becomes(l, e) BY <1>1, <1>2, <2>1 DEF SubstOK
  <2>4. e = l \/ (IsLoad(l) /\ e[1] # "bb")
    <3>1. CASE IsLoad(l) /\ Reads(l, e)
      <4>1. l \in ValuesIn(f) BY <1>1, <1>2, <2>1, Code
      <4>2. l \in InstrsIn(f) BY <1>1, <3>1, <4>1, Operands DEF IsDef, IsLoad
      <4>3. PICK c \in Blocks(f) : l \in Range(f.code[c]) BY <1>1, <4>2, Places
      <4>4. PICK d \in DOMAIN ir.operands : e = Given(d) /\ (IsPhi(d) \/ IsStore(d))
        BY <3>1, <4>3 DEF Reads, Holds
      <4>5. CASE IsPhi(d) BY <3>1, <4>4, <4>5 DEF Given, IsPhi
      <4>6. CASE ~IsPhi(d)
        <5>1. d \in InstrsIn(f) /\ IsStore(d) BY <1>1, <4>4, <4>6, Phis DEF IrOK
        <5>2. PICK a \in Blocks(f) : d \in Range(f.code[a]) BY <1>1, <5>1, Places
        <5>3. a \in Block BY <1>1, Code
        <5> QED BY <1>1, <3>1, <4>4, <4>6, <5>1, <5>2, <5>3 DEF Given, ReachOK, IsLabel
      <4> QED BY <4>5, <4>6
    <3> QED BY <2>3, <3>1 DEF Becomes
  <2>5. l[1] # "bb" /\ V0(l) # Undef => V1(e) = V0(l) BY <2>1, <2>2, OperandAgrees DEF Shows
  <2> QED BY <2>1, <2>4, <2>5 DEF IsLoad
<1> QED BY <1>1, <1>2, <1>4 DEF OperandsOK

LEMMA ReadsAgree ==
  ASSUME IInv, ListsOK, DomOK, ValuesOK, RunOK
  PROVE  SameReads
<1> SUFFICES ASSUME pc = "done", Waits0, Waits1
             PROVE  /\ Before!instr = After!instr
                    /\ DOMAIN Read0 = DOMAIN Read1
                    /\ \A i \in DOMAIN Read0 : Read0[i] # Undef => Read1[i] = Read0[i]
  BY DEF SameReads
<1>1. PICK kind \in {"op", "br", "ret"} : Before!Executes(kind) BY DEF Waits0
<1>2. PICK sort \in {"op", "br", "ret"} : After!Executes(sort) BY DEF Waits1
<1>3. PICK x : x = f.code[bb][line0] OBVIOUS
<1>4. /\ Before!instr = x /\ After!instr = x /\ line0 \in DOMAIN f.code[bb] /\ x[1] \in {"op", "br", "ret"}
  BY <1>1, <1>2, <1>3, AtPlace, AtPlaceAfter, SameInstr
<1>5. \A i : Before!rand(i) = f.operands[x][i] /\ After!rand(i) = ir.operands[x][i]
  BY <1>4 DEF Before!rand, After!rand
<1> DEFINE D0 == {j \in DOMAIN f.operands[x] : f.operands[x][j][1] # "bb"}
           D1 == {j \in DOMAIN ir.operands[x] : ir.operands[x][j][1] # "bb"}
<1>6. Read0 = [i \in D0 |-> V0(f.operands[x][i])] BY <1>4, <1>5 DEF Read0, V0
<1>7. Read1 = [i \in D1 |-> V1(ir.operands[x][i])] BY <1>4, <1>5 DEF Read1, V1
<1>8. D0 = D1 /\ \A i \in D0 : V0(f.operands[x][i]) # Undef => V1(ir.operands[x][i]) = V0(f.operands[x][i])
  BY <1>3, <1>4, SameOperands
<1> HIDE DEF D0, D1
<1> QED BY <1>4, <1>6, <1>7, <1>8

----
\* What has been defined at the next place.
LEMMA UntilNext ==
  ASSUME f \in Functions, NEW b \in Block, NEW j \in DOMAIN f.code[b], NEW x, x = f.code[b][j]
  PROVE  /\ \A v : Until(v, b, j + 1) = Until(v, b, j) \cup {d \in {x} : d \in Pushes(b, v)}
         /\ \A y : Precedes(y, b, j + 1) <=> Precedes(y, b, j) \/ y = x
<1>1. DOMAIN f.code[b] = 1..Len(f.code[b]) /\ Len(f.code[b]) \in Nat BY Code
<1>2. \A i \in DOMAIN f.code[b] : i < j + 1 <=> i < j \/ i = j BY <1>1
<1>3. \A d : (\E i \in DOMAIN f.code[b] : i < j + 1 /\ f.code[b][i] = d)
               <=> (\E i \in DOMAIN f.code[b] : i < j /\ f.code[b][i] = d) \/ d = x
  BY <1>2
<1> QED BY <1>3 DEF Until, Precedes

LEMMA UntilPrecedes ==
  ASSUME f \in Functions, IrOK, NEW b \in Blocks(f), NEW j, NEW v
  PROVE  Until(v, b, j) \in SUBSET Pushes(b, v) /\ \A d \in Until(v, b, j) : Precedes(d, b, j)
<1>1. \A d \in Pushes(b, v) : IsPhi(d) => d \in PhisOf(b) BY Code, PushedKinds
<1> QED BY <1>1 DEF Until, Precedes

\* What a load may read is what has been defined where it is.
LEMMA PriorIsUntil ==
  ASSUME f \in Functions, IrOK, NEW b \in Blocks(f), NEW j \in DOMAIN f.code[b], NEW l, l = f.code[b][j]
  PROVE  Prior(l, b) = Until(Address(l), b, j)
<1>1. b \in Block /\ IsInjective(f.code[b]) BY Code
<1>2. \A d : (\E i, k \in DOMAIN f.code[b] : i < k /\ f.code[b][i] = d /\ f.code[b][k] = l)
               <=> (\E i \in DOMAIN f.code[b] : i < j /\ f.code[b][i] = d)
  BY <1>1 DEF IsInjective
<1>3. \A d \in Pushes(b, Address(l)) : IsPhi(d) <=> d \in PhisOf(b)
  BY <1>1, PushedKinds, Phis DEF PhisOf
<1> QED BY <1>2, <1>3 DEF Prior, Until, ComesBefore

\* What a load that has been executed read is not computed again before the load is.
LEMMA LoadsLast ==
  ASSUME IInv, ReachOK, NEW b \in Blocks(f), NEW j \in DOMAIN f.code[b], IsDef(f.code[b][j]),
         NEW c \in Blocks(f), NEW l \in Range(f.code[c]), Precedes(l, b, j),
         NEW d, Reaching(d, Address(l), c, Prior(l, c))
  PROVE  Given(d) # f.code[b][j]
<1>1. f \in Functions /\ IrOK /\ b \in Block /\ c \in Block BY Code DEF IInv
<1>2. Prior(l, c) \in SUBSET Pushes(c, Address(l)) BY DEF Prior
<1>3. l \notin PhisOf(b) /\ \A e \in Blocks(f) : ComputedIn(l, e) => e = c
  BY <1>1, ComputedAt, Code, Places, Phis DEF PhisOf
<1>4. CASE StrictlyDominates(f, c, b) BY <1>2, <1>4, NotOverwritten
<1>5. CASE \E i \in DOMAIN f.code[b] : i < j /\ f.code[b][i] = l
  <2>1. PICK i \in DOMAIN f.code[b] : i < j /\ f.code[b][i] = l BY <1>5
  <2>2. c = b BY <1>1, <2>1, Places DEF Range
  <2>3. \A s \in Prior(l, c) : Precedes(s, b, i) BY <1>1, <2>1, <2>2, PriorIsUntil, UntilPrecedes
  <2>4. \A s : Precedes(s, b, i) => Precedes(s, b, j)
    <3>1. DOMAIN f.code[b] = 1..Len(f.code[b]) /\ Len(f.code[b]) \in Nat BY <1>1, Code
    <3>2. \A k \in DOMAIN f.code[b] : k < i => k < j BY <2>1, <3>1
    <3> QED BY <3>2 DEF Precedes
  <2> QED BY <1>2, <2>2, <2>3, <2>4, NotOverwritten
<1> QED BY <1>3, <1>4, <1>5 DEF Precedes

----
\* The first execution has got past x; the second has changed the value of x at most.
Past(x) ==
  /\ f' = f /\ ir' = ir /\ bb' = bb /\ line0' = line0 + 1
  /\ line0 \in DOMAIN f.code[bb] /\ x = f.code[bb][line0]
  /\ DOMAIN env1' = DOMAIN env1
  /\ \A y \in DOMAIN env1 : env1'[y] = env1[y] \/ (y = x /\ IsDef(x))

LEMMA LoadsPassed ==
  ASSUME IInv, ListsOK, DomOK, ValuesOK, RunOK, pc = "done", NEW x, Past(x),
         \A l \in InstrsIn(f) : IsLoad(l) /\ l # x => env0'[l] = env0[l],
         IsLoad(x) => Gives(env0'[x], Address(x), bb, Prior(x, bb)) /\ env1' = env1
  PROVE  LoadsAgree'
<1>1. /\ f \in Functions /\ IrOK /\ ReachOK /\ LoadsAgree /\ bb \in Blocks(f) /\ bb \in Block
      /\ f' = f /\ ir' = ir /\ bb' = bb /\ line0' = line0 + 1
  BY Finished, Code DEF RunOK, EnvTyped, Past
<1>2. line0 \in DOMAIN f.code[bb] /\ x = f.code[bb][line0] /\ x \in Range(f.code[bb])
  BY DEF Past, Range
<1>3. PICK b : b = bb OBVIOUS
<1> SUFFICES ASSUME NEW c \in Blocks(f), NEW l \in Range(f.code[c]), IsLoad(l), Precedes(l, bb, line0)'
             PROVE  Gives(env0[l], Address(l), c, Prior(l, c))'
  BY <1>1, Zenon DEF LoadsAgree
<1>4. Precedes(l, b, line0 + 1)
  <2>1. \A y, j : Precedes(y, b, j)' <=> Precedes(y, b, j)
    <3>1. \A a : PhisOf(a)' = PhisOf(a) BY <1>1, SamePhis
    <3> QED BY <1>1, <3>1, Zenon DEF Precedes, ComputedIn
  <2>2. PICK j : j = line0 + 1 OBVIOUS
  <2>3. Precedes(l, b, j)' BY <1>1, <1>3, <2>2, Zenon
  <2> QED BY <2>1, <2>2, <2>3
<1>5. Precedes(l, b, line0) \/ l = x BY <1>1, <1>2, <1>3, <1>4, UntilNext
<1>6. PICK n, v, S : n = env0'[l] /\ v = Address(l) /\ S = Prior(l, c) OBVIOUS
<1>7. Address(l)' = v /\ Prior(l, c)' = S BY <1>1, <1>6, SameValues DEF Address
<1>8. Gives(n, v, c, S)'
  <2>1. CASE l = x
    <3>1. c = b BY <1>1, <1>2, <1>3, <2>1, Code, Places
    <3>2. Gives(n, v, c, S) BY <1>3, <1>6, <2>1, <3>1
    <3> QED BY <1>1, <2>1, <3>2, GivesKept
  <2>2. CASE l # x
    <3>1. Precedes(l, b, line0) BY <1>5, <2>2
    <3>2. Gives(n, v, c, S)
      <4>1. env0'[l] = env0[l] BY <1>1, <2>2, Places, Code
      <4> QED BY <1>1, <1>3, <1>6, <2>2, <3>1, <4>1 DEF LoadsAgree
    <3>3. ASSUME NEW d, Reaching(d, v, c, S), Given(d) \in DOMAIN env1 PROVE env1'[Given(d)] = env1[Given(d)]
      <4>1. IsDef(x) => Given(d) # x BY <1>1, <1>2, <1>3, <1>6, <3>1, <3>3, LoadsLast
      <4> QED BY <3>3, <4>1 DEF Past
    <3> QED BY <1>1, <3>2, <3>3, GivesKept DEF Past
  <2> QED BY <2>1, <2>2
<1> QED BY <1>6, <1>7, <1>8, Zenon

LEMMA CellsPassed ==
  ASSUME IInv, ListsOK, DomOK, ValuesOK, RunOK, pc = "done", NEW x, Past(x),
         \A v \in Allocas(f) :
           IF x \in Pushes(bb, v)
           THEN env1' = env1 /\ (mem0'[v] # Undef => Shows(ir.operands[x][1], mem0'[v]))
           ELSE mem0'[v] \in {mem0[v], Undef}
  PROVE  CellsAgree'
<1>1. /\ f \in Functions /\ IrOK /\ ReachOK /\ CellsAgree /\ bb \in Blocks(f) /\ bb \in Block
      /\ f' = f /\ ir' = ir /\ bb' = bb /\ line0' = line0 + 1
  BY Finished, Code DEF RunOK, EnvTyped, Past
<1>2. line0 \in DOMAIN f.code[bb] /\ x = f.code[bb][line0] /\ x \in Range(f.code[bb])
  BY DEF Past, Range
<1>3. PICK b, j : b = bb /\ j = line0 + 1 OBVIOUS
<1> SUFFICES ASSUME NEW v \in Allocas(f) PROVE Gives(mem0[v], v, bb, Until(v, bb, line0))'
  <2>1. Allocas(f)' = Allocas(f) BY <1>1 DEF Allocas, InstrsIn
  <2> QED BY <2>1, Zenon DEF CellsAgree
<1>4. PICK n, S, T : n = mem0'[v] /\ S = Until(v, b, j) /\ T = Until(v, b, line0) OBVIOUS
<1>5. Until(v, bb, line0)' = S
  <2>1. \A a : Pushes(a, v)' = Pushes(a, v) BY <1>1, SamePhis
  <2>2. Until(v, b, j)' = Until(v, b, j) BY <1>1, <2>1, Zenon DEF Until
  <2> QED BY <1>1, <1>3, <1>4, <2>2, Zenon
<1>6. S = T \cup {d \in {x} : d \in Pushes(b, v)} BY <1>1, <1>2, <1>3, <1>4, UntilNext
<1>7. T \in SUBSET Pushes(b, v) /\ \A d \in T : Precedes(d, b, line0)
  BY <1>1, <1>3, <1>4, UntilPrecedes
<1>8. Gives(n, v, b, S)'
  <2>1. CASE x \notin Pushes(b, v)
    <3>1. S = T BY <1>6, <2>1
    <3>2. Gives(n, v, b, S)
      <4>1. n = mem0[v] \/ n = Undef BY <1>3, <1>4, <2>1
      <4> QED BY <1>1, <1>3, <1>4, <3>1, <4>1 DEF CellsAgree, Gives
    <3>3. ASSUME NEW d, Reaching(d, v, b, S), Given(d) \in DOMAIN env1 PROVE env1'[Given(d)] = env1[Given(d)]
      <4>1. IsDef(x) => Given(d) # x BY <1>1, <1>2, <1>3, <1>7, <3>1, <3>3, NotOverwritten
      <4> QED BY <3>3, <4>1 DEF Past
    <3> QED BY <1>1, <3>2, <3>3, GivesKept DEF Past
  <2>2. CASE x \in Pushes(b, v)
    <3>1. env1' = env1 /\ (n # Undef => Shows(ir.operands[x][1], n)) /\ S = T \cup {x}
      BY <1>3, <1>4, <1>6, <2>2
    <3>2. ~IsPhi(x) /\ x \notin PhisOf(b) BY <1>1, <1>2, <1>3, Code, Places, Phis DEF PhisOf
    <3>3. ASSUME NEW d, Reaching(d, v, b, S) PROVE d = x
      <4>1. LastOf(d, S, b) BY <3>1, <3>3 DEF Reaching
      <4>2. x = d \/ ComesBefore(x, d, b) BY <3>1, <4>1 DEF LastOf
      <4>3. ASSUME d # x PROVE FALSE
        <5>1. d \in T BY <3>1, <4>1, <4>3 DEF LastOf
        <5>2. PICK i, k \in DOMAIN f.code[b] : i < k /\ f.code[b][i] = x /\ f.code[b][k] = d
          BY <3>2, <4>2, <4>3 DEF ComesBefore
        <5>3. ~IsPhi(d) BY <1>1, <1>3, <5>2, Code, Places DEF Range
        <5>4. PICK m \in DOMAIN f.code[b] : m < line0 /\ f.code[b][m] = d
          BY <1>4, <5>1, <5>3 DEF Until
        <5>5. i = line0 /\ k = m BY <1>1, <1>2, <1>3, <5>2, <5>4, Code DEF IsInjective
        <5>6. DOMAIN f.code[b] = 1..Len(f.code[b]) /\ Len(f.code[b]) \in Nat BY <1>1, <1>3, Code
        <5> QED BY <1>2, <1>3, <5>2, <5>4, <5>5, <5>6
      <4> QED BY <4>3
    <3>4. Gives(n, v, b, S)
      <4>1. ~Unset(v, b, S) BY <3>1 DEF Unset
      <4>2. \A d \in DOMAIN ir.operands : Reaching(d, v, b, S) => (n # Undef => Shows(Given(d), n))
        BY <3>1, <3>2, <3>3 DEF Given
      <4> QED BY <4>1, <4>2 DEF Gives
    <3> QED BY <1>1, <3>1, <3>4, GivesKept
  <2> QED BY <2>1, <2>2
<1> QED BY <1>1, <1>3, <1>4, <1>5, <1>8, Zenon

----
\* The second execution is where it was, or also gets past an instruction of its own.
LEMMA PlacePassed ==
  ASSUME IInv, ListsOK, DomOK, ValuesOK, RunOK, pc = "done", f' = f, ir' = ir, bb' = bb,
         \/ line0' = line0 /\ line1' = line1 + 1
            /\ line1 \in DOMAIN ir.code[bb] /\ ir.code[bb][line1][1] \notin {"op", "br", "ret"}
         \/ line0' = line0 + 1 /\ line1' = line1
            /\ line0 \in DOMAIN f.code[bb] /\ f.code[bb][line0][1] \notin {"op", "br", "ret"}
         \/ /\ line0' = line0 + 1 /\ line1' = line1 + 1
            /\ line0 \in DOMAIN f.code[bb] /\ line1 \in DOMAIN ir.code[bb] /\ f.code[bb][line0] = ir.code[bb][line1]
  PROVE  PlaceOfBoth'
<1>1. /\ f \in Functions /\ PlaceOfBoth /\ bb \in Block /\ Kept(bb) /\ ir.code[bb] \in Seq(DOMAIN ir.operands)
      /\ line0 \in Nat /\ line1 \in Nat
  BY Finished, Code DEF RunOK, EnvTyped
<1>2. PICK s, t : s = f.code[bb] /\ t = ir.code[bb] OBVIOUS
<1>3. s \in Seq(InstrsIn(f)) /\ t \in Seq(DOMAIN ir.operands) /\ IsInjective(s) /\ IsInjective(t)
  BY <1>1, <1>2, Code DEF Kept
<1>4. (\A i \in DOMAIN s : i \in Nat) /\ (\A m \in DOMAIN t : m \in Nat) BY <1>3
<1> SUFFICES ASSUME NEW i \in DOMAIN s, NEW m \in DOMAIN t, s[i] = t[m], s[i][1] \in {"op", "br", "ret"}
             PROVE  i >= line0' <=> m >= line1'
  <2>1. f'.code[bb'] = s /\ ir'.code[bb'] = t BY <1>2
  <2> QED BY <2>1, Zenon DEF PlaceOfBoth
<1>5. i >= line0 <=> m >= line1 BY <1>1, <1>2 DEF PlaceOfBoth
<1>6. line0 \in DOMAIN s /\ s[line0] = s[i] => line0 = i BY <1>3 DEF IsInjective
<1>7. line1 \in DOMAIN t /\ t[line1] = t[m] => line1 = m BY <1>3 DEF IsInjective
<1>8. CASE line0' = line0 /\ line1' = line1 + 1 /\ line1 # m BY <1>1, <1>4, <1>5, <1>8
<1>9. CASE line0' = line0 + 1 /\ line1' = line1 /\ line0 # i BY <1>1, <1>4, <1>5, <1>9
<1>10. CASE line0' = line0 + 1 /\ line1' = line1 + 1 /\ (line0 = i <=> line1 = m)
  BY <1>1, <1>4, <1>5, <1>10
<1> QED BY <1>2, <1>6, <1>7, <1>8, <1>9, <1>10

LEMMA NotPushed ==
  ASSUME f \in Functions, NEW b \in Block, NEW x \in Range(f.code[b]), ~IsStore(x)
  PROVE  \A v : x \notin Pushes(b, v)
<1>1. ~IsPhi(x) BY Code, Places
<1> QED BY <1>1, Phis DEF Pushes

\* Loads are read by what they are.
LEMMA LoadRuns ==
  ASSUME IInv, ListsOK, DomOK, ValuesOK, RunOK, pc = "done", Before!Load, UNCHANGED <<pass, new>>
  PROVE  RunOK'
<1>1. PICK x : x = f.code[bb][line0] OBVIOUS
<1>2. /\ f \in Functions /\ IrOK /\ EnvTyped /\ EnvsAgree /\ CellsAgree
      /\ bb \in Block /\ bb \in Blocks(f) /\ line0 \in DOMAIN f.code[bb] /\ Before!instr = x
      /\ x \in Range(f.code[bb]) /\ x \in InstrsIn(f) /\ x[1] = "load"
  BY <1>1, Finished, AtPlace DEF Before!Load, RunOK
<1>3. IsLoad(x) /\ ~IsStore(x) /\ IsDef(x) BY <1>2 DEF IsLoad, IsStore, IsDef
<1>4. /\ env0' = [env0 EXCEPT ![x] = mem0[Address(x)]] /\ mem0' = mem0 /\ line0' = line0 + 1
      /\ line1' = line1 /\ env1' = env1 /\ f' = f /\ ir' = ir /\ pc' = pc /\ bb' = bb
  BY <1>2 DEF Before!Load, Before!rand, Address, new, pass
<1>5. x \in ValuesIn(f) /\ Named(x) /\ Address(x) \in Allocas(f)
  BY <1>2, <1>3, Places, Kinds DEF Named, Address
<1>6. EnvTyped'
  <2>1. ValuesIn(f)' = ValuesIn(f) /\ Allocas(f)' = Allocas(f) /\ Blocks(f)' = Blocks(f)
    BY <1>4 DEF ValuesIn, InstrsIn, Allocas, Blocks
  <2> DEFINE D == {w \in ValuesIn(f) : Named(w)}
  <2>2. env0 = [v \in D |-> env0[v]] BY <1>2 DEF EnvTyped
  <2> HIDE DEF D
  <2>3. env0' = [v \in D |-> env0'[v]] BY <1>4, <2>2
  <2> USE DEF D
  <2> QED BY <1>2, <1>4, <2>1, <2>3 DEF EnvTyped, Named
<1>7. env0'[x] = mem0[Address(x)] /\ \A l \in ValuesIn(f) : Named(l) /\ l # x => env0'[l] = env0[l]
  BY <1>2, <1>4, <1>5 DEF EnvTyped
<1>8. EnvsAgree'
  <2>1. ValuesIn(f)' = ValuesIn(f) BY <1>4 DEF ValuesIn, InstrsIn
  <2>2. x[1] \notin {"arg", "op"} BY <1>2
  <2> QED BY <1>2, <1>4, <1>7, <2>1, <2>2 DEF EnvsAgree, Named
<1>9. Past(x) BY <1>1, <1>2, <1>4 DEF Past
<1>10. LoadsAgree'
  <2>1. Gives(mem0[Address(x)], Address(x), bb, Until(Address(x), bb, line0))
    BY <1>2, <1>5 DEF CellsAgree
  <2>2. Prior(x, bb) = Until(Address(x), bb, line0) BY <1>1, <1>2, PriorIsUntil
  <2>3. Gives(env0'[x], Address(x), bb, Prior(x, bb)) BY <1>7, <2>1, <2>2
  <2>4. \A l \in InstrsIn(f) : IsLoad(l) => l \in ValuesIn(f) /\ Named(l)
    BY <1>2, Places DEF IsLoad, Named
  <2> QED BY <1>4, <1>7, <1>9, <2>3, <2>4, LoadsPassed
<1>11. CellsAgree' BY <1>2, <1>3, <1>4, <1>9, NotPushed, CellsPassed
<1>12. PlaceOfBoth' BY <1>1, <1>2, <1>4, PlacePassed
<1> QED BY <1>4, <1>6, <1>8, <1>10, <1>11, <1>12 DEF RunOK

LEMMA StoreRuns ==
  ASSUME IInv, ListsOK, DomOK, ValuesOK, RunOK, pc = "done", Before!Store, UNCHANGED <<pass, new>>
  PROVE  RunOK'
<1>1. PICK x : x = f.code[bb][line0] OBVIOUS
<1>2. /\ f \in Functions /\ IrOK /\ EnvTyped /\ EnvsAgree /\ CellsAgree
      /\ bb \in Block /\ bb \in Blocks(f) /\ line0 \in DOMAIN f.code[bb] /\ Before!instr = x
      /\ x \in Range(f.code[bb]) /\ x \in InstrsIn(f) /\ x[1] = "store"
  BY <1>1, Finished, AtPlace DEF Before!Store, RunOK
<1>3. ~IsLoad(x) /\ IsStore(x) /\ ~IsDef(x) BY <1>2 DEF IsLoad, IsStore, IsDef
<1>4. PICK w, l : w = f.operands[x][2] /\ l = f.operands[x][1] OBVIOUS
<1>5. /\ mem0' = [mem0 EXCEPT ![w] = V0(l)] /\ env0' = env0 /\ line0' = line0 + 1
      /\ line1' = line1 /\ env1' = env1 /\ f' = f /\ ir' = ir /\ pc' = pc /\ bb' = bb
  BY <1>2, <1>4 DEF Before!Store, Before!rand, V0, new, pass
<1>6. w \in Allocas(f) /\ l[1] \in {"arg", "const", "op", "load"} /\ 1 \in DOMAIN f.operands[x]
  BY <1>2, <1>3, <1>4, Kinds
<1>7. EnvTyped'
  <2>1. ValuesIn(f)' = ValuesIn(f) /\ Allocas(f)' = Allocas(f) /\ Blocks(f)' = Blocks(f)
    BY <1>5 DEF ValuesIn, InstrsIn, Allocas, Blocks
  <2> QED BY <1>2, <1>5, <2>1 DEF EnvTyped
<1>8. EnvsAgree'
  <2>1. ValuesIn(f)' = ValuesIn(f) BY <1>5 DEF ValuesIn, InstrsIn
  <2> QED BY <1>2, <1>5, <2>1 DEF EnvsAgree
<1>9. Past(x) BY <1>1, <1>2, <1>5 DEF Past
<1>10. LoadsAgree' BY <1>3, <1>5, <1>9, LoadsPassed
<1>11. CellsAgree'
  <2> SUFFICES ASSUME NEW v \in Allocas(f)
               PROVE  IF x \in Pushes(bb, v)
                      THEN env1' = env1 /\ (mem0'[v] # Undef => Shows(ir.operands[x][1], mem0'[v]))
                      ELSE mem0'[v] \in {mem0[v], Undef}
    BY <1>9, CellsPassed
  <2>1. x \in Pushes(bb, v) <=> v = w BY <1>2, <1>3, <1>4, Phis DEF Pushes
  <2>2. mem0'[w] = V0(l) /\ (v # w => mem0'[v] = mem0[v]) BY <1>2, <1>5, <1>6 DEF EnvTyped
  <2>3. V0(l) # Undef => Shows(ir.operands[x][1], V0(l)) BY <1>1, <1>2, <1>4, <1>6, OperandAgrees
  <2> QED BY <1>5, <2>1, <2>2, <2>3
<1>12. PlaceOfBoth' BY <1>1, <1>2, <1>5, PlacePassed
<1> QED BY <1>5, <1>7, <1>8, <1>10, <1>11, <1>12 DEF RunOK

LEMMA NewCellRuns ==
  ASSUME IInv, ListsOK, DomOK, ValuesOK, RunOK, pc = "done", NewCell, UNCHANGED <<pass, new>>
  PROVE  RunOK'
<1>1. PICK x : x = f.code[bb][line0] OBVIOUS
<1>2. /\ f \in Functions /\ IrOK /\ EnvTyped /\ EnvsAgree
      /\ bb \in Block /\ bb \in Blocks(f) /\ line0 \in DOMAIN f.code[bb] /\ Before!instr = x
      /\ x \in Range(f.code[bb]) /\ x \in InstrsIn(f) /\ x[1] = "alloca"
  BY <1>1, Finished, AtPlace DEF NewCell, RunOK
<1>3. ~IsLoad(x) /\ ~IsStore(x) BY <1>2 DEF IsLoad, IsStore
<1>4. /\ mem0' = [mem0 EXCEPT ![x] = Undef] /\ env0' = env0 /\ line0' = line0 + 1
      /\ line1' = line1 /\ env1' = env1 /\ f' = f /\ ir' = ir /\ pc' = pc /\ bb' = bb
  BY <1>2 DEF NewCell, new, pass
<1>5. EnvTyped'
  <2>1. ValuesIn(f)' = ValuesIn(f) /\ Allocas(f)' = Allocas(f) /\ Blocks(f)' = Blocks(f)
    BY <1>4 DEF ValuesIn, InstrsIn, Allocas, Blocks
  <2> QED BY <1>2, <1>4, <2>1 DEF EnvTyped
<1>6. EnvsAgree'
  <2>1. ValuesIn(f)' = ValuesIn(f) BY <1>4 DEF ValuesIn, InstrsIn
  <2> QED BY <1>2, <1>4, <2>1 DEF EnvsAgree
<1>7. Past(x) BY <1>1, <1>2, <1>4 DEF Past
<1>8. LoadsAgree' BY <1>3, <1>4, <1>7, LoadsPassed
<1>9. \A v \in Allocas(f) : mem0'[v] \in {mem0[v], Undef} BY <1>2, <1>4 DEF EnvTyped
<1>10. CellsAgree' BY <1>2, <1>3, <1>7, <1>9, NotPushed, CellsPassed
<1>11. PlaceOfBoth' BY <1>1, <1>2, <1>4, PlacePassed
<1> QED BY <1>4, <1>5, <1>6, <1>8, <1>10, <1>11 DEF RunOK

----
\* What the executions have computed is as it was.
LEMMA Unmoved ==
  ASSUME RunOK, f' = f, ir' = ir, pc' = pc, bb' = bb, old' = old, env1' = env1,
         line1' \in Nat \ {0}, pc # "done" => line1' = line1, pc = "done" => PlaceOfBoth'
  PROVE  RunOK'
<1>1. line0' = line0 /\ env0' = env0 /\ mem0' = mem0 BY DEF old
<1>2. ValuesIn(f)' = ValuesIn(f) /\ Allocas(f)' = Allocas(f) /\ Blocks(f)' = Blocks(f)
  BY DEF ValuesIn, InstrsIn, Allocas, Blocks
<1>3. EnvTyped' BY <1>1, <1>2 DEF RunOK, EnvTyped
<1>4. EnvsAgree' BY <1>1, <1>2 DEF RunOK, EnvsAgree
<1>5. pc # "done" => NotBegun' BY <1>1, <1>2 DEF RunOK, NotBegun
<1>6. ASSUME pc = "done" PROVE LoadsAgree' /\ CellsAgree'
  <2>1. /\ \A y, b, j : Precedes(y, b, j)' <=> Precedes(y, b, j)
        /\ \A v, b, j : Until(v, b, j)' = Until(v, b, j)
        /\ \A l, b : Prior(l, b)' = Prior(l, b)
    <3>1. \A v, a : PhisOf(a)' = PhisOf(a) /\ Pushes(a, v)' = Pushes(a, v) BY SamePhis
    <3> QED BY <3>1, SameValues, Zenon DEF Precedes, Until, ComputedIn
  <2>2. \A n, v, b, S : Gives(n, v, b, S) => Gives(n, v, b, S)' BY GivesKept
  <2>3. LoadsAgree /\ CellsAgree BY <1>6 DEF RunOK
  <2>4. LoadsAgree'
    <3> SUFFICES ASSUME NEW c \in Blocks(f), NEW l \in Range(f.code[c]), IsLoad(l), Precedes(l, bb, line0)'
                 PROVE  Gives(env0[l], Address(l), c, Prior(l, c))'
      BY <1>2, Zenon DEF LoadsAgree
    <3>1. PICK n, v, S, b, j : n = env0[l] /\ v = Address(l) /\ S = Prior(l, c) /\ b = bb /\ j = line0
      OBVIOUS
    <3>2. Precedes(l, b, j)' BY <1>1, <3>1, Zenon
    <3>3. Gives(n, v, c, S) BY <2>1, <2>3, <3>1, <3>2 DEF LoadsAgree
    <3>4. Gives(n, v, c, S)' BY <2>2, <3>3
    <3>5. env0'[l] = n /\ Address(l)' = v /\ Prior(l, c)' = S BY <1>1, <2>1, <3>1 DEF Address
    <3> QED BY <3>4, <3>5, Zenon
  <2>5. CellsAgree'
    <3> SUFFICES ASSUME NEW v \in Allocas(f) PROVE Gives(mem0[v], v, bb, Until(v, bb, line0))'
      BY <1>2, Zenon DEF CellsAgree
    <3>1. PICK n, S, b, j : n = mem0[v] /\ S = Until(v, b, j) /\ b = bb /\ j = line0 OBVIOUS
    <3>2. Gives(n, v, b, S)' BY <2>2, <2>3, <3>1 DEF CellsAgree
    <3>3. mem0'[v] = n /\ bb' = b /\ line0' = j /\ Until(v, b, j)' = S BY <1>1, <2>1, <3>1
    <3> QED BY <3>2, <3>3, Zenon
  <2> QED BY <2>4, <2>5
<1> QED BY <1>3, <1>4, <1>5, <1>6 DEF RunOK

\* A load that has stayed reads a cell that is gone; so does no other.
LEMMA Memory1Runs ==
  ASSUME IInv, ListsOK, DomOK, ValuesOK, RunOK, Memory1
  PROVE  RunOK'
<1>1. pc = "done" /\ f' = f /\ ir' = ir /\ pc' = pc /\ old' = old BY DEF Memory1, pass, old
<1>2. PICK y : y = ir.code[bb][line1] OBVIOUS
<1>3. \E kind \in {"load", "alloca"} : After!Executes(kind) BY DEF Memory1, After!Load, After!Alloca
<1>4. /\ line1 \in DOMAIN ir.code[bb] /\ After!instr = y /\ y \in InstrsIn(f)
      /\ y[1] \in {"load", "alloca"}
  BY <1>1, <1>2, <1>3, AtPlaceAfter
<1>5. bb' = bb /\ line1' = line1 + 1 BY DEF Memory1, After!Load, After!Alloca
<1>6. env1' = env1
  <2>1. CASE After!Alloca BY <2>1 DEF After!Alloca
  <2>2. CASE After!Load
    <3>1. y[1] = "load" BY <1>1, <1>2, <2>2, AtPlaceAfter DEF After!Load
    <3>2. env1' = [env1 EXCEPT ![y] = [v \in Allocas(f) |-> Undef][ir.operands[y][1]]]
      BY <1>4, <2>2 DEF After!Load, After!rand
    <3>3. ir.operands[y][1] \in Allocas(f)
      BY <1>1, <1>4, <3>1, Finished, AddressKept DEF Lval, IsLoad, IsPhi
    <3>4. env1[y] = Undef BY <1>1, <1>4, <3>1, Finished, Places DEF RunOK, EnvsAgree, IsLoad
    <3>5. env1' = [env1 EXCEPT ![y] = Undef] BY <3>2, <3>3
    <3> DEFINE D == {w \in ValuesIn(f) : Named(w)} \cup {PhiOf(a, b) : a \in Allocas(f), b \in Block}
    <3>6. env1 = [v \in D |-> env1[v]] BY DEF RunOK, EnvTyped
    <3> HIDE DEF D
    <3> QED BY <3>4, <3>5, <3>6
  <2> QED BY <2>1, <2>2 DEF Memory1
<1>7. line1' \in Nat \ {0} BY <1>5 DEF RunOK, EnvTyped
<1>8. PlaceOfBoth'
  <2>1. line0' = line0 /\ ir.code[bb][line1][1] \notin {"op", "br", "ret"}
    BY <1>1, <1>2, <1>4 DEF old
  <2> QED BY <1>1, <1>4, <1>5, <2>1, PlacePassed
<1> QED BY <1>1, <1>5, <1>6, <1>7, <1>8, Unmoved

LEMMA OpRuns ==
  ASSUME IInv, ListsOK, DomOK, ValuesOK, RunOK, pc = "done", Waits0, Waits1, Op, UNCHANGED pass
  PROVE  RunOK'
<1>1. PICK x : x = f.code[bb][line0] OBVIOUS
<1>2. Before!Executes("op") /\ After!Executes("op")
  BY DEF Op, Before!Op, After!Op, Before!Computes, After!Computes
<1>3. /\ f \in Functions /\ IrOK /\ EnvTyped /\ EnvsAgree
      /\ bb \in Block /\ bb \in Blocks(f) /\ line0 \in DOMAIN f.code[bb] /\ Before!instr = x
      /\ x \in Range(f.code[bb]) /\ x \in InstrsIn(f) /\ x[1] = "op"
      /\ line1 \in DOMAIN ir.code[bb] /\ After!instr = x /\ f.code[bb][line0] = ir.code[bb][line1]
  BY <1>1, <1>2, Finished, AtPlace, AtPlaceAfter, SameInstr DEF RunOK
<1>4. ~IsLoad(x) /\ ~IsStore(x) /\ IsDef(x) /\ x \in ValuesIn(f)
  BY <1>3, Places DEF IsLoad, IsStore, IsDef
<1>5. PICK d0, d1 : env0' = [env0 EXCEPT ![x] = d0] /\ env1' = [env1 EXCEPT ![x] = d1]
  BY <1>3, Zenon DEF Op, Before!Op, After!Op, Before!Computes, After!Computes
<1>6. /\ line0' = line0 + 1 /\ line1' = line1 + 1 /\ bb' = bb /\ mem0' = mem0
      /\ f' = f /\ ir' = ir /\ pc' = pc
      /\ env0'[x] = Undef \/ env0'[x] = env1'[x]
  BY <1>3 DEF Op, Before!Op, After!Op, Before!Computes, After!Computes, pass
<1>7. ValuesIn(f)' = ValuesIn(f) /\ Allocas(f)' = Allocas(f) /\ Blocks(f)' = Blocks(f)
  BY <1>6 DEF ValuesIn, InstrsIn, Allocas, Blocks
<1>8. EnvTyped'
  <2> DEFINE D == {w \in ValuesIn(f) : Named(w)}
             E == D \cup {PhiOf(a, b) : a \in Allocas(f), b \in Block}
  <2>1. env0 = [v \in D |-> env0[v]] /\ env1 = [v \in E |-> env1[v]] /\ mem0 = [v \in Allocas(f) |-> mem0[v]]
    BY <1>3 DEF EnvTyped
  <2> HIDE DEF D, E
  <2>2. env0' = [v \in D |-> env0'[v]] /\ env1' = [v \in E |-> env1'[v]] BY <1>5, <2>1
  <2> USE DEF D, E
  <2>3. bb' \in Blocks(f) /\ line0' \in Nat \ {0} /\ line1' \in Nat \ {0} BY <1>3, <1>6 DEF EnvTyped
  <2> QED BY <1>6, <1>7, <2>1, <2>2, <2>3 DEF EnvTyped, Named
<1>9. /\ DOMAIN env1' = DOMAIN env1 /\ \A y \in DOMAIN env1 : y # x => env1'[y] = env1[y]
      /\ \A y \in ValuesIn(f) : Named(y) => y \in DOMAIN env1 /\ (y # x => env0'[y] = env0[y])
  BY <1>3, <1>5 DEF EnvTyped
<1>10. EnvsAgree' BY <1>3, <1>4, <1>6, <1>7, <1>9 DEF EnvsAgree, Named, IsLoad
<1>11. Past(x) BY <1>1, <1>3, <1>4, <1>6, <1>9 DEF Past
<1>12. LoadsAgree'
  <2>1. \A l \in InstrsIn(f) : IsLoad(l) => l \in ValuesIn(f) /\ Named(l)
    BY <1>3, Places DEF IsLoad, Named
  <2> QED BY <1>4, <1>9, <1>11, <2>1, LoadsPassed
<1>13. CellsAgree' BY <1>3, <1>4, <1>6, <1>11, NotPushed, CellsPassed
<1>14. PlaceOfBoth' BY <1>3, <1>6, PlacePassed
<1> QED BY <1>6, <1>8, <1>10, <1>12, <1>13, <1>14 DEF RunOK

LEMMA RetRuns ==
  ASSUME IInv, ListsOK, DomOK, ValuesOK, RunOK, pc = "done", Waits0, Waits1, Before!Ret, After!Ret, UNCHANGED pass
  PROVE  RunOK'
<1>1. PICK x : x = f.code[bb][line0] OBVIOUS
<1>2. Before!Executes("ret") /\ After!Executes("ret") BY DEF Before!Ret, After!Ret
<1>3. /\ f \in Functions /\ IrOK /\ EnvTyped /\ EnvsAgree
      /\ bb \in Block /\ bb \in Blocks(f) /\ line0 \in DOMAIN f.code[bb]
      /\ x \in Range(f.code[bb]) /\ x[1] = "ret"
      /\ line1 \in DOMAIN ir.code[bb] /\ f.code[bb][line0] = ir.code[bb][line1]
  BY <1>1, <1>2, Finished, AtPlace, AtPlaceAfter, SameInstr DEF RunOK
<1>4. ~IsLoad(x) /\ ~IsStore(x) BY <1>3 DEF IsLoad, IsStore
<1>5. /\ line0' = line0 + 1 /\ line1' = line1 + 1 /\ bb' = bb /\ mem0' = mem0 /\ env0' = env0 /\ env1' = env1
      /\ f' = f /\ ir' = ir /\ pc' = pc
  BY DEF Before!Ret, After!Ret, pass
<1>6. ValuesIn(f)' = ValuesIn(f) /\ Allocas(f)' = Allocas(f) /\ Blocks(f)' = Blocks(f)
  BY <1>5 DEF ValuesIn, InstrsIn, Allocas, Blocks
<1>7. EnvTyped' /\ EnvsAgree'
  <2>1. line0' \in Nat \ {0} /\ line1' \in Nat \ {0} BY <1>3, <1>5 DEF EnvTyped
  <2>2. EnvTyped' BY <1>3, <1>5, <1>6, <2>1 DEF EnvTyped
  <2>3. EnvsAgree' BY <1>3, <1>5, <1>6 DEF EnvsAgree
  <2> QED BY <2>2, <2>3
<1>8. Past(x) BY <1>1, <1>3, <1>5 DEF Past
<1>9. LoadsAgree' BY <1>4, <1>5, <1>8, LoadsPassed
<1>10. CellsAgree' BY <1>3, <1>4, <1>5, <1>8, NotPushed, CellsPassed
<1>11. PlaceOfBoth' BY <1>3, <1>5, PlacePassed
<1> QED BY <1>5, <1>7, <1>9, <1>10, <1>11 DEF RunOK

\* The phis are the first instructions of their block, and there are no more than that.
LEMMA PhisBefore ==
  ASSUME NEW b \in Block, Kept(b), ir.code[b] \in Seq(DOMAIN ir.operands), f \in Functions
  PROVE  /\ Cardinality(PhisOf(b)) \in Nat
         /\ \A m \in DOMAIN ir.code[b] : ~IsPhi(ir.code[b][m]) => Cardinality(PhisOf(b)) < m
<1>1. PICK t : t = ir.code[b] OBVIOUS
<1>2. t \in Seq(DOMAIN ir.operands) /\ DOMAIN t = 1..Len(t) /\ Len(t) \in Nat BY <1>1
<1> DEFINE P == {j \in DOMAIN t : IsPhi(t[j])}
           g == [j \in P |-> t[j]]
<1>3. PhisOf(b) = {t[j] : j \in P}
  <2>1. ASSUME NEW x \in PhisOf(b) PROVE \E j \in P : x = t[j]
    BY <1>1, Phis DEF Kept, Range, PhisOf
  <2>2. ASSUME NEW j \in P PROVE t[j] \in PhisOf(b)
    <3>1. \A x \in Range(f.code[b]) : ~IsPhi(x) BY Code, Places
    <3> QED BY <1>1, <3>1 DEF Kept, Range
  <2> QED BY <2>1, <2>2
<1>4. IsFiniteSet(P) /\ Cardinality(P) \in Nat
  <2>1. P \subseteq 1..Len(t) BY <1>2
  <2> HIDE DEF P
  <2>2. IsFiniteSet(1..Len(t)) BY <1>2, FS_Interval
  <2> QED BY <2>1, <2>2, FS_Subset, FS_CardinalityType
<1>5. Cardinality(PhisOf(b)) \in Nat /\ Cardinality(PhisOf(b)) <= Cardinality(P)
  <2>1. g \in Surjection(P, PhisOf(b)) BY <1>3 DEF Surjection
  <2> HIDE DEF P, g
  <2> QED BY <1>4, <2>1, FS_Surjection, FS_CardinalityType
<1>6. ASSUME NEW m \in DOMAIN t, ~IsPhi(t[m]) PROVE Cardinality(P) < m
  <2>1. PhisFirst(b) BY DEF Kept
  <2>2. P \subseteq 1..(m - 1)
    <3>1. ASSUME NEW j \in P PROVE j < m
      <4>1. ~(m < j) BY <1>1, <1>6, <2>1 DEF PhisFirst
      <4>2. j # m BY <1>6
      <4> QED BY <1>2, <1>6, <4>1, <4>2
    <3> QED BY <1>2, <3>1
  <2>3. m \in Nat /\ m >= 1 /\ m - 1 \in Nat BY <1>2, <1>6
  <2> HIDE DEF P
  <2>4. IsFiniteSet(1..(m - 1)) /\ Cardinality(1..(m - 1)) = m - 1 BY <2>3, FS_Interval
  <2>5. Cardinality(P) <= m - 1 BY <2>2, <2>4, FS_Subset
  <2> QED BY <1>4, <2>3, <2>5
<1> HIDE DEF P, g
<1>7. ASSUME NEW m \in DOMAIN t, ~IsPhi(t[m]) PROVE Cardinality(PhisOf(b)) < m
  <2>1. m \in Nat BY <1>2, <1>7
  <2> QED BY <1>4, <1>5, <1>6, <1>7, <2>1
<1> QED BY <1>1, <1>5, <1>7

LEMMA SameCardinality ==
  \A S : Before!Cardinality(S) = Cardinality(S) /\ After!Cardinality(S) = Cardinality(S)
BY Zenon DEF Before!Cardinality, After!Cardinality, Cardinality

\* Where a branch goes, and what it does to the phis there.
LEMMA Branched ==
  ASSUME IInv, ListsOK, DomOK, ValuesOK, RunOK, pc = "done", Waits0, Waits1,
         Before!Branch, After!Branch, NEW s, s = bb'
  PROVE  /\ s \in SuccOf(f, bb) /\ s \in Blocks(f) /\ s \in Block /\ bb \in PredsOf(f, s) /\ bb \in Block
         /\ line0 = Len(f.code[bb]) /\ line0 \in DOMAIN f.code[bb] /\ f.code[bb][line0][1] = "br"
         /\ line0' = 1 /\ line1' = Cardinality(PhisOf(s)) + 1
         /\ mem0' = mem0 /\ env0' = env0
         /\ \E n : /\ env1' = [v \in DOMAIN env1 |-> IF v \in PhisOf(s) THEN n[v] ELSE env1[v]]
                   /\ \A p \in PhisOf(s) : After!Incoming(p) # {} => \E v \in After!Incoming(p) : n[p] = V1(v)
<1>1. PICK x : x = f.code[bb][line0] OBVIOUS
<1>2. Before!Executes("br") /\ After!Executes("br") BY DEF Before!Branch, After!Branch
<1>3. /\ f \in Functions /\ EnvTyped
      /\ bb \in Block /\ bb \in Blocks(f) /\ line0 \in DOMAIN f.code[bb] /\ Before!instr = x
      /\ x \in Range(f.code[bb]) /\ x \in InstrsIn(f) /\ x[1] = "br"
  BY <1>1, <1>2, Finished, AtPlace DEF RunOK
<1>4. PICK ops : ops = f.operands[x] OBVIOUS
<1>5. /\ line0 = Len(f.code[bb]) /\ Len(ops) \in {1, 3} /\ ops \in Seq(ValuesIn(f))
      /\ \A i \in DOMAIN ops : ops[i] \in SuccOf(f, bb) \/ (Len(ops) = 3 /\ i = 1)
  BY <1>1, <1>3, <1>4, Kinds, Code
<1>6. \A i : Before!rand(i) = ops[i] BY <1>3, <1>4 DEF Before!rand
<1>7. s \in SuccOf(f, bb)
  <2>1. CASE Len(ops) = 1
    <3>1. s = ops[1] /\ 1 \in DOMAIN ops BY <1>3, <1>4, <1>5, <1>6, <2>1 DEF Before!Branch
    <3> QED BY <1>5, <2>1, <3>1
  <2>2. CASE Len(ops) = 3
    <3>1. s = ops[2] \/ s = ops[3] BY <1>3, <1>4, <1>6, <2>2 DEF Before!Branch
    <3>2. 2 \in DOMAIN ops /\ 3 \in DOMAIN ops BY <1>5, <2>2
    <3> QED BY <1>5, <3>1, <3>2
  <2> QED BY <1>5, <2>1, <2>2
<1>8. s \in Blocks(f) /\ s \in Block /\ bb \in PredsOf(f, s)
  BY <1>3, <1>7, Code DEF EdgesInside, PredsOf
<1>9. Before!Phis(s) = {} BY <1>3, <1>8, Code, Places DEF Before!Phis, Before!Kind, Range, IsPhi
<1>10. After!Phis(s) = PhisOf(s)
  <2>1. Kept(s) /\ \A y \in Range(f.code[s]) : ~IsPhi(y) BY <1>3, <1>8, Finished, Code, Places
  <2>2. \A y \in PhisOf(s) : IsPhi(y) BY Phis DEF PhisOf
  <2>3. {ir.code[s][j] : j \in DOMAIN ir.code[s]} = Range(ir.code[s]) BY DEF Range
  <2> QED BY <2>1, <2>2, <2>3 DEF Kept, After!Phis, After!Kind, IsPhi
<1>11. PICK n0 : /\ line0' = Before!First(s) /\ mem0' = mem0
                 /\ env0' = [v \in DOMAIN env0 |-> IF v \in Before!Phis(s) THEN n0[v] ELSE env0[v]]
  <2>1. PICK t : t = IF ~(Len(f.operands[Before!instr]) = 3) THEN Before!rand(1)
                     ELSE IF Before!Value(Before!rand(1)) # 0 THEN Before!rand(2) ELSE Before!rand(3)
    OBVIOUS
  <2>2. /\ bb' = t /\ line0' = Before!First(t) /\ mem0' = mem0
        /\ \E m : env0' = [v \in DOMAIN env0 |-> IF v \in Before!Phis(t) THEN m[v] ELSE env0[v]]
    BY <2>1 DEF Before!Branch
  <2>3. t = s BY <2>2
  <2> QED BY <2>2, <2>3, Zenon
<1>12. line0' = 1
  <2>1. line0' = Cardinality({}) + 1 BY <1>9, <1>11, SameCardinality DEF Before!First
  <2> QED BY <2>1, FS_EmptySet
<1>13. env0' = env0
  <2> DEFINE D == {w \in ValuesIn(f) : Named(w)}
  <2>1. env0 = [v \in D |-> env0[v]] BY <1>3 DEF EnvTyped
  <2> HIDE DEF D
  <2> QED BY <1>9, <1>11, <2>1
<1>14. PICK n : /\ line1' = After!First(s)
                /\ env1' = [v \in DOMAIN env1 |-> IF v \in After!Phis(s) THEN n[v] ELSE env1[v]]
                /\ \A p \in After!Phis(s) :
                     After!Incoming(p) # {} => \E v \in After!Incoming(p) : n[p] = After!Value(v)
  <2>1. PICK t : t = IF ~(Len(ir.operands[After!instr]) = 3) THEN After!rand(1)
                     ELSE IF After!Value(After!rand(1)) # 0 THEN After!rand(2) ELSE After!rand(3)
    OBVIOUS
  <2>2. /\ bb' = t /\ line1' = After!First(t)
        /\ \E m : /\ env1' = [v \in DOMAIN env1 |-> IF v \in After!Phis(t) THEN m[v] ELSE env1[v]]
                  /\ \A p \in After!Phis(t) :
                       After!Incoming(p) # {} => \E v \in After!Incoming(p) : m[p] = After!Value(v)
    BY <2>1 DEF After!Branch
  <2>3. t = s BY <2>2
  <2> QED BY <2>2, <2>3, Zenon
<1>15. line1' = Cardinality(PhisOf(s)) + 1 BY <1>10, <1>14, SameCardinality DEF After!First
<1>16. /\ env1' = [v \in DOMAIN env1 |-> IF v \in PhisOf(s) THEN n[v] ELSE env1[v]]
       /\ \A p \in PhisOf(s) : After!Incoming(p) # {} => \E v \in After!Incoming(p) : n[p] = V1(v)
  BY <1>10, <1>14 DEF V1
<1> QED BY <1>1, <1>3, <1>5, <1>7, <1>8, <1>11, <1>12, <1>13, <1>15, <1>16

\* A branch in a block that the definitions of v all reach without a phi leaves v as it is.
LEMMA NoPhiNeeded ==
  ASSUME IInv, ListsOK, DomOK, ValuesOK, pc = "done",
         NEW b \in Blocks(f), NEW s \in Blocks(f), b \in PredsOf(f, s), NEW v \in Variables, ~HasPhi(v, s)
  PROVE  /\ \A d : Reaching(d, v, b, Pushes(b, v)) <=> Reaching(d, v, s, {})
         /\ Unset(v, b, Pushes(b, v)) <=> Unset(v, s, {})
<1>1. f \in Functions /\ \A e \in Blocks(f) : Defines(e, v) => s \notin Frontier(f, e) BY Finished
<1>2. \A e \in Blocks(f) : Defines(e, v) /\ Dominates(f, e, b) => StrictlyDominates(f, e, s)
  BY <1>1 DEF Frontier
<1>3. \A e \in Blocks(f) : StrictlyDominates(f, e, s) => Dominates(f, e, b)
  BY <1>1, Code, DominatesPreds
<1> QED BY <1>1, <1>2, <1>3, SameAbove

LEMMA BranchRuns ==
  ASSUME IInv, ListsOK, DomOK, ValuesOK, RunOK, pc = "done", Waits0, Waits1,
         Before!Branch, After!Branch, UNCHANGED pass
  PROVE  RunOK'
<1>1. PICK b, s : b = bb /\ s = bb' OBVIOUS
<1>2. /\ s \in SuccOf(f, b) /\ s \in Blocks(f) /\ s \in Block /\ b \in PredsOf(f, s) /\ b \in Block
      /\ line0 = Len(f.code[b]) /\ line0 \in DOMAIN f.code[b] /\ f.code[b][line0][1] = "br"
      /\ line0' = 1 /\ line1' = Cardinality(PhisOf(s)) + 1
      /\ mem0' = mem0 /\ env0' = env0
  BY <1>1, Branched
<1>3. PICK n : /\ env1' = [v \in DOMAIN env1 |-> IF v \in PhisOf(s) THEN n[v] ELSE env1[v]]
               /\ \A p \in PhisOf(s) : After!Incoming(p) # {} => \E v \in After!Incoming(p) : n[p] = V1(v)
  BY <1>1, Branched
<1>4. /\ f \in Functions /\ IrOK /\ CarriesOK /\ ReachOK /\ PhiReadsOK /\ EnvTyped /\ EnvsAgree /\ LoadsAgree
      /\ CellsAgree /\ b \in Blocks(f) /\ Kept(s) /\ ir.code[s] \in Seq(DOMAIN ir.operands)
      /\ \A c : Filled(c)
  BY <1>1, <1>2, Finished DEF RunOK, EnvTyped
<1>5. f' = f /\ ir' = ir /\ pc' = pc /\ bb' = s BY <1>1 DEF pass
<1>6. ValuesIn(f)' = ValuesIn(f) /\ Allocas(f)' = Allocas(f) /\ Blocks(f)' = Blocks(f)
  BY <1>5 DEF ValuesIn, InstrsIn, Allocas, Blocks
<1>7. /\ DOMAIN env1' = DOMAIN env1
      /\ \A v \in DOMAIN env1 : v \notin PhisOf(s) => env1'[v] = env1[v]
      /\ \A v \in DOMAIN env1 : v \in PhisOf(s) => env1'[v] = n[v]
  BY <1>3
<1>8. Cardinality(PhisOf(s)) \in Nat /\ \A m \in DOMAIN ir.code[s] : ~IsPhi(ir.code[s][m]) => Cardinality(PhisOf(s)) < m
  BY <1>2, <1>4, PhisBefore
<1>9. EnvTyped'
  <2> DEFINE E == {w \in ValuesIn(f) : Named(w)} \cup {PhiOf(a, c) : a \in Allocas(f), c \in Block}
  <2>1. env1 = [v \in E |-> env1[v]] BY <1>4 DEF EnvTyped
  <2> HIDE DEF E
  <2>2. env1' = [v \in E |-> env1'[v]] BY <1>3, <2>1
  <2> USE DEF E
  <2>3. bb' \in Blocks(f) /\ line0' \in Nat \ {0} /\ line1' \in Nat \ {0} BY <1>2, <1>5, <1>8
  <2> QED BY <1>2, <1>4, <1>6, <2>2, <2>3 DEF EnvTyped, Named
<1>10. EnvsAgree'
  <2>1. \A y \in ValuesIn(f) : Named(y) => y \in DOMAIN env1 /\ y \notin PhisOf(s)
    <3>1. \A y \in ValuesIn(f) : y \notin PhisOf(s) BY <1>4, Places, Phis DEF PhisOf
    <3> QED BY <1>4, <3>1 DEF EnvTyped
  <2> QED BY <1>2, <1>4, <1>6, <1>7, <2>1 DEF EnvsAgree, Named, IsLoad
<1>11. PlaceOfBoth'
  <2> SUFFICES ASSUME NEW i \in DOMAIN f.code[s], NEW m \in DOMAIN ir.code[s],
                      f.code[s][i] = ir.code[s][m], f.code[s][i][1] \in {"op", "br", "ret"}
               PROVE  i >= line0' <=> m >= line1'
    BY <1>5, Zenon DEF PlaceOfBoth
  <2>1. i \in Nat /\ i >= 1 /\ m \in Nat BY <1>2, <1>4, Code
  <2>2. ~IsPhi(ir.code[s][m]) BY DEF IsPhi
  <2> QED BY <1>2, <1>8, <2>1, <2>2
<1>12. ASSUME NEW e, ReachesStart(e, s), e \in DOMAIN env1 PROVE env1'[e] = env1[e]
  <2>1. ASSUME e \in PhisOf(s) PROVE FALSE
    <3>1. IsPhi(e) /\ IsDef(e) BY <2>1, Phis DEF PhisOf, IsPhi, IsDef
    <3>2. PICK c \in Blocks(f) : ComputedIn(e, c) /\ StrictlyDominates(f, c, s)
      BY <1>12, <3>1 DEF ReachesStart
    <3>3. e \notin Range(f.code[c]) BY <1>4, <3>1, Code, Places
    <3>4. c = s BY <2>1, <3>2, <3>3, Phis DEF ComputedIn, PhisOf
    <3> QED BY <3>2, <3>4 DEF StrictlyDominates
  <2> QED BY <1>7, <1>12, <2>1
<1>13. /\ \A y, c, j : Precedes(y, c, j)' <=> Precedes(y, c, j)
       /\ \A v, c, j : Until(v, c, j)' = Until(v, c, j)
       /\ \A l, c : Prior(l, c)' = Prior(l, c)
  <2>1. \A v, a : PhisOf(a)' = PhisOf(a) /\ Pushes(a, v)' = Pushes(a, v) BY <1>5, SamePhis
  <2> QED BY <1>5, <2>1, SameValues, Zenon DEF Precedes, Until, ComputedIn
<1>14. LoadsAgree'
  <2> SUFFICES ASSUME NEW c \in Blocks(f), NEW l \in Range(f.code[c]), IsLoad(l), Precedes(l, bb, line0)'
               PROVE  Gives(env0[l], Address(l), c, Prior(l, c))'
    BY <1>5, <1>6, Zenon DEF LoadsAgree
  <2>1. PICK m, v, S : m = env0[l] /\ v = Address(l) /\ S = Prior(l, c) OBVIOUS
  <2>2. Precedes(l, s, 1)
    <3>1. Precedes(l, s, 1)' BY <1>2, <1>5, Zenon
    <3> QED BY <1>13, <3>1
  <2>3. c \in Block /\ l \in InstrsIn(f) /\ ~IsPhi(l) BY <1>4, Code, Places
  <2>4. StrictlyDominates(f, c, s)
    <3>1. l \notin PhisOf(s) BY <2>3, Phis DEF PhisOf
    <3>2. \A i \in DOMAIN f.code[s] : ~(i < 1) BY <1>2, <1>4, Code
    <3>3. PICK e \in Blocks(f) : StrictlyDominates(f, e, s) /\ ComputedIn(l, e)
      BY <2>2, <3>1, <3>2 DEF Precedes
    <3>4. e = c BY <1>4, <2>3, <3>3, ComputedAt
    <3> QED BY <3>3, <3>4
  <2>5. Precedes(l, b, line0)
    <3>1. Dominates(f, c, b) BY <1>2, <1>4, <2>4, Code, DominatesPreds
    <3>2. CASE c # b BY <3>1, <3>2 DEF Precedes, ComputedIn, StrictlyDominates
    <3>3. CASE c = b
      <4>1. PICK i \in DOMAIN f.code[b] : f.code[b][i] = l BY <3>3 DEF Range
      <4>2. i # line0 BY <1>2, <4>1 DEF IsLoad
      <4>3. i < line0 BY <1>2, <1>4, <4>1, <4>2, Code
      <4> QED BY <4>1, <4>3 DEF Precedes
    <3> QED BY <3>2, <3>3
  <2>6. Gives(m, v, c, S) BY <1>1, <1>4, <2>1, <2>5 DEF LoadsAgree
  <2>7. \A d : Reaching(d, v, c, S) => ReachesStart(Given(d), s)
    <3>1. S \in SUBSET Pushes(c, v) BY <2>1 DEF Prior
    <3> QED BY <1>2, <1>4, <2>4, <3>1, ReachingReads
  <2>8. Gives(m, v, c, S)' BY <1>5, <1>7, <1>12, <2>6, <2>7, GivesKept
  <2>9. env0'[l] = m /\ Address(l)' = v /\ Prior(l, c)' = S BY <1>2, <1>5, <1>13, <2>1 DEF Address
  <2> QED BY <2>8, <2>9, Zenon
<1>15. CellsAgree'
  <2> SUFFICES ASSUME NEW v \in Allocas(f) PROVE Gives(mem0[v], v, bb, Until(v, bb, line0))'
    BY <1>6, Zenon DEF CellsAgree
  <2>1. PICK m, S, T : m = mem0[v] /\ S = Until(v, s, 1) /\ T = Pushes(b, v) OBVIOUS
  <2>2. mem0'[v] = m /\ bb' = s /\ line0' = 1 /\ Until(v, s, 1)' = S BY <1>2, <1>5, <1>13, <2>1
  <2> SUFFICES Gives(m, v, s, S)'
    BY <2>2, Zenon
  <2>3. Gives(m, v, b, T)
    <3>1. Until(v, b, line0) = T
      <4>1. ASSUME NEW d \in T, ~IsPhi(d) PROVE \E i \in DOMAIN f.code[b] : i < line0 /\ f.code[b][i] = d
        <5>1. IsStore(d) /\ d \in Range(f.code[b]) BY <1>2, <1>4, <2>1, <4>1, PushedKinds
        <5>2. PICK i \in DOMAIN f.code[b] : f.code[b][i] = d BY <5>1 DEF Range
        <5>3. i # line0 BY <1>2, <5>1, <5>2 DEF IsStore
        <5>4. i < line0 BY <1>2, <1>4, <5>2, <5>3, Code
        <5> QED BY <5>2, <5>4
      <4> QED BY <2>1, <4>1 DEF Until
    <3> QED BY <1>1, <1>4, <2>1, <3>1 DEF CellsAgree
  <2>4. S = {d \in Pushes(s, v) : IsPhi(d)}
    <3>1. \A i \in DOMAIN f.code[s] : ~(i < 1) BY <1>2, <1>4, Code
    <3> QED BY <2>1, <3>1 DEF Until
  <2>5. CASE m = Undef BY <2>5 DEF Gives
  <2>6. CASE m # Undef /\ HasPhi(v, s)
    <3>1. PICK p : p = PhiOf(v, s) OBVIOUS
    <3>2. v \in Variables /\ p \in PhisOf(s) /\ p \in DOMAIN ir.operands /\ IsPhi(p)
      BY <1>4, <2>6, <3>1, Code, Places, Phis DEF HasPhi, PhisOf, IrOK
    <3>3. p \in DOMAIN env1 BY <1>2, <1>4, <3>1 DEF EnvTyped
    <3>4. p \in S /\ \A d \in S : d = p
      BY <1>2, <1>4, <2>4, <2>6, <3>1, <3>2, PushedKinds DEF Pushes
    <3>5. PICK ops : ops = ir.operands[p] OBVIOUS
    <3>6. PICK i \in DOMAIN ops : i - 1 \in DOMAIN ops /\ ops[i] = b /\ Holds(ops[i - 1], v, b, T)
      <4>1. Carries(p, v, b) BY <1>2, <1>4, <2>6, <3>1, <3>2 DEF CarriesOK
      <4>2. ~Unset(v, b, T) BY <2>3, <2>6 DEF Gives
      <4> QED BY <2>1, <3>5, <4>1, <4>2 DEF Carries
    <3>7. \A j \in DOMAIN ops : ops[j] = b => j = i
      <4>1. PhiReads(ops, s) BY <1>2, <1>4, <2>6, <3>1, <3>2, <3>5 DEF PhiReadsOK
      <4>2. IsLabel(ops[i]) BY <1>2, <3>6, BlockAssumption DEF IsLabel
      <4> QED BY <3>6, <4>1, <4>2 DEF PhiReads, FromPred
    <3>8. PICK e : e = ops[i - 1] OBVIOUS
    <3>9. After!Incoming(p) = {e} BY <1>1, <3>5, <3>6, <3>7, <3>8 DEF After!Incoming
    <3>10. env1'[p] = V1(e) BY <1>3, <1>7, <3>2, <3>3, <3>9
    <3>11. V1(e) = m BY <2>3, <2>6, <3>6, <3>8 DEF Gives, Shows, Holds
    <3>12. Shows(p, m)'
      <4>1. p[1] # "const" BY <3>2 DEF IsPhi
      <4> QED BY <1>7, <3>3, <3>10, <3>11, <4>1 DEF Shows, V1, After!Value, After!Kind
    <3>13. ~Unset(v, s, S)' BY <3>4 DEF Unset
    <3>14. ASSUME NEW d, Reaching(d, v, s, S)' PROVE Shows(Given(d), m)'
      <4>1. Reaching(d, v, s, S) BY <1>5, <3>14, SameValues
      <4>2. d = p BY <3>4, <4>1 DEF Reaching, LastOf
      <4>3. Given(d)' = p BY <3>2, <4>2 DEF Given
      <4> QED BY <3>12, <4>3, Zenon
    <3> QED BY <3>13, <3>14 DEF Gives
  <2>7. CASE m # Undef /\ ~HasPhi(v, s)
    <3>1. S = {}
      <4>1. \A d \in Pushes(s, v) : ~IsPhi(d) BY <1>2, <1>4, <2>7, PushedKinds DEF HasPhi
      <4> QED BY <2>4, <4>1
    <3>2. v \in Variables
      <4>1. ASSUME v \notin Variables PROVE FALSE
        <5>1. \A c \in Blocks(f) : ~Defines(c, v) BY <1>4, <4>1, NotVariable, Code
        <5>2. T = {} BY <1>2, <1>4, <2>1, <4>1, NotVariable
        <5> QED BY <2>3, <2>7, <5>1, <5>2 DEF Gives, Unset
      <4> QED BY <4>1
    <3>3. /\ \A d : Reaching(d, v, b, T) <=> Reaching(d, v, s, S)
          /\ Unset(v, b, T) <=> Unset(v, s, S)
      BY <1>2, <1>4, <2>1, <2>7, <3>1, <3>2, NoPhiNeeded
    <3>4. Gives(m, v, s, S) BY <2>3, <3>3 DEF Gives
    <3>5. \A d : Reaching(d, v, s, S) => ReachesStart(Given(d), s)
      <4>1. S \in SUBSET Pushes(s, v) BY <3>1
      <4> QED BY <1>2, <1>4, <3>1, <4>1, ReachingReads
    <3> QED BY <1>5, <1>7, <1>12, <3>4, <3>5, GivesKept
  <2> QED BY <2>5, <2>6, <2>7
<1> QED BY <1>5, <1>9, <1>10, <1>11, <1>14, <1>15 DEF RunOK

\* Until the pass is done nothing has been executed.
LEMMA RenameRuns ==
  ASSUME IInv, RunOK, IInv', ListsOK', Rename
  PROVE  RunOK'
<1>1. /\ pc # "done" /\ f' = f
      /\ bb' = bb /\ line0' = line0 /\ env0' = env0 /\ mem0' = mem0
      /\ line1' = line1 /\ env1' = env1
  <2>1. NextPass /\ UNCHANGED <<bb, old, new>> BY DEF Rename
  <2>2. pc # "done" /\ f' = f
    BY <2>1, Zenon DEF NextPass, NextVar, PlacePhis, StartRename, PushPhis, RenameLoad, LoadOfNothing,
         RenameStore, SkipInstr, AtInstr, FillPhis, VisitChild, Return, RemoveAllocas
  <2> QED BY <2>1, <2>2 DEF old, new
<1>2. ValuesIn(f)' = ValuesIn(f) /\ Allocas(f)' = Allocas(f) /\ Blocks(f)' = Blocks(f)
  BY <1>1 DEF ValuesIn, InstrsIn, Allocas, Blocks
<1>3. EnvTyped /\ EnvsAgree /\ NotBegun BY <1>1 DEF RunOK
<1>4. EnvTyped' BY <1>1, <1>2, <1>3 DEF EnvTyped
<1>5. EnvsAgree' BY <1>1, <1>2, <1>3 DEF EnvsAgree
<1>6. NotBegun' BY <1>1, <1>2, <1>3 DEF NotBegun
<1>7. PlaceOfBoth'
  <2> SUFFICES ASSUME NEW i \in DOMAIN f'.code[bb'], NEW m \in DOMAIN ir'.code[bb']
               PROVE  i >= line0' <=> m >= line1'
    BY Zenon DEF PlaceOfBoth
  <2>1. bb \in Block /\ f.code[bb] \in Seq(InstrsIn(f)) BY <1>3, Code DEF IInv, EnvTyped
  <2>2. ir'.code[bb] \in Seq(DOMAIN ir'.operands) BY <2>1 DEF ListsOK, CodeOK
  <2>3. i \in Nat \ {0} /\ m \in Nat \ {0} BY <1>1, <2>1, <2>2
  <2>4. line0' = 1 /\ line1' = 1 BY <1>1, <1>3 DEF NotBegun
  <2> QED BY <2>3, <2>4
<1>8. LoadsAgree'
  <2> SUFFICES ASSUME NEW c \in Blocks(f), NEW l \in Range(f.code[c]), IsLoad(l)
               PROVE  Gives(env0[l], Address(l), c, Prior(l, c))'
    BY <1>1, <1>2, Zenon DEF LoadsAgree
  <2>1. l \in ValuesIn(f) BY Code DEF IInv, ValuesIn, InstrsIn
  <2>2. env0'[l] = Undef BY <1>1, <1>3, <2>1 DEF NotBegun
  <2> QED BY <2>2, Zenon DEF Gives
<1>9. CellsAgree'
  <2> SUFFICES ASSUME NEW v \in Allocas(f) PROVE Gives(mem0[v], v, bb, Until(v, bb, line0))'
    BY <1>2, Zenon DEF CellsAgree
  <2>1. mem0'[v] = Undef BY <1>1, <1>3 DEF NotBegun
  <2> QED BY <2>1, Zenon DEF Gives
<1> QED BY <1>4, <1>5, <1>6, <1>7, <1>8, <1>9 DEF RunOK

LEMMA InitRuns == Init => RunOK
<1> SUFFICES ASSUME Init PROVE RunOK
  OBVIOUS
<1>1. InitPass /\ bb = root /\ line0 = 1 /\ line1 = 1 /\ mem0 = [v \in Allocas(f) |-> Undef]
  BY DEF Init
<1>2. f \in Functions /\ pc = "place" BY <1>1 DEF InitPass
<1>3. /\ DOMAIN env0 = {w \in ValuesIn(f) : Named(w)}
      /\ env0 = [v \in {w \in ValuesIn(f) : Named(w)} |-> env0[v]]
      /\ \A v \in ValuesIn(f) : Named(v) /\ v[1] # "arg" => env0[v] = Undef
  BY SMT DEF Init
<1>4. env1 = [v \in DOMAIN env0 \cup {PhiOf(a, b) : a \in Allocas(f), b \in Block} |->
                IF v \in DOMAIN env0 THEN env0[v] ELSE Undef]
  BY SMT DEF Init
<1>5. root \in Blocks(f) BY <1>2, Code
<1> DEFINE N == {w \in ValuesIn(f) : Named(w)}
           P == {PhiOf(a, b) : a \in Allocas(f), b \in Block}
<1>6. \A w \in ValuesIn(f) : w \in N <=> w[1] \in {"arg", "op", "load"} BY DEF Named
<1> HIDE DEF N, P
<1>7. DOMAIN env0 = N /\ env1 = [v \in N \cup P |-> IF v \in N THEN env0[v] ELSE Undef]
  BY <1>3, <1>4 DEF N, P
<1>8. EnvTyped
  <2>1. env1 = [v \in N \cup P |-> env1[v]] BY <1>7
  <2> QED BY <1>1, <1>3, <1>5, <2>1 DEF EnvTyped, N, P
<1>9. \A l \in ValuesIn(f) : IsLoad(l) => l \in N /\ env0[l] = Undef BY <1>3, <1>6 DEF IsLoad, Named
<1>10. EnvsAgree BY <1>6, <1>7, <1>9 DEF EnvsAgree
<1>11. NotBegun BY <1>1, <1>9 DEF NotBegun
<1> QED BY <1>2, <1>8, <1>10, <1>11 DEF RunOK

LEMMA NextRuns == IInv /\ ListsOK /\ DomOK /\ ValuesOK /\ RunOK /\ [Next]_vars => RunOK'
<1> SUFFICES ASSUME IInv, ListsOK, DomOK, ValuesOK, RunOK, [Next]_vars PROVE RunOK'
  OBVIOUS
<1>1. IInv' /\ ListsOK' BY NextIInv, NextLists
<1>2. CASE UNCHANGED vars
  <2>1. /\ f' = f /\ ir' = ir /\ pc' = pc /\ bb' = bb /\ old' = old /\ env1' = env1 /\ line1' = line1
        /\ line0' = line0
    BY <1>2 DEF vars, pass, old, new
  <2>2. line1' \in Nat \ {0} BY <2>1 DEF RunOK, EnvTyped
  <2>3. PlaceOfBoth' = PlaceOfBoth BY <2>1, Zenon DEF PlaceOfBoth
  <2> QED BY <2>1, <2>2, <2>3, Unmoved DEF RunOK
<1>3. CASE Rename BY <1>1, <1>3, RenameRuns
<1>4. CASE Memory0
  <2>1. pc = "done" /\ (Before!Load \/ Before!Store \/ NewCell) /\ UNCHANGED <<pass, new>>
    BY <1>4 DEF Memory0
  <2> QED BY <2>1, LoadRuns, StoreRuns, NewCellRuns
<1>5. CASE Memory1 BY <1>5, Memory1Runs
<1>6. CASE Together
  <2>1. pc = "done" /\ Waits0 /\ Waits1 /\ UNCHANGED pass BY <1>6 DEF Together
  <2>2. CASE Op BY <2>1, <2>2, OpRuns
  <2>3. CASE Branch BY <2>1, <2>3, BranchRuns DEF Branch
  <2>4. CASE Before!Ret /\ After!Ret BY <2>1, <2>4, RetRuns
  <2> QED BY <1>6, <2>2, <2>3, <2>4, Zenon DEF Together
<1> QED BY <1>2, <1>3, <1>4, <1>5, <1>6 DEF Next
----
\* The calls of re_name that have not returned are the dominators of the block the walk is
\* at, and the stack of a variable holds what they have stored to it and their phis.
THEOREM Invariance == Spec => []IInv
<1>1. Init => IInv BY InitIInv DEF Init
<1>2. IInv /\ [Next]_vars => IInv' BY NextIInv
<1> QED BY <1>1, <1>2, PTL DEF Spec

\* Where re_name finds a stack empty, no store to the variable can reach.
THEOREM Unassigned == Spec => []EmptyMeansUnassigned
<1>1. IInv => EmptyMeansUnassigned BY EmptyIsUnassigned
<1> QED BY <1>1, Invariance, PTL

\* replace_all_use_with leaves the list of a load as it was, so only the lists of loads
\* that have not been renamed are exact throughout. A renamed load is read by nothing and
\* is on no stack: what an instruction reads was behind it when the walk came there.
THEOREM Lists == Spec => [](IInv /\ ListsOK)
<1>1. Init => IInv /\ ListsOK BY InitIInv, InitLists DEF Init
<1>2. IInv /\ ListsOK /\ [Next]_vars => (IInv /\ ListsOK)' BY NextIInv, NextLists
<1> QED BY <1>1, <1>2, PTL DEF Spec

\* When run returns, the use list of each value that is left names the operands that read
\* it, although delete_instr takes a user out of every list of its operands.
THEOREM UsersNamed == Spec => []UseListsExact
<1>1. IInv /\ ListsOK => UseListsExact BY ListsAreExact
<1> QED BY <1>1, Lists, PTL

\* Throughout the walk of re_name the instructions of a block keep their order, behind its
\* phis; an instruction reads, and a stack holds, what was computed on every path to where
\* the walk is; and a phi reads for a predecessor, once, what was computed on every path
\* to the end of it.
THEOREM Walk == Spec => [](IInv /\ ListsOK /\ DomOK)
<1>1. Init => IInv /\ ListsOK /\ DomOK BY InitIInv, InitLists, InitDom DEF Init
<1>2. IInv /\ ListsOK /\ DomOK /\ [Next]_vars => (IInv /\ ListsOK /\ DomOK)'
  BY NextIInv, NextLists, NextDom
<1> QED BY <1>1, <1>2, PTL DEF Spec

\* When run returns, the code is in SSA form: a value that re_name has put in the place of
\* a load was computed on every path to where it is read, and the phis of generate_phi
\* have a value for a predecessor at most once, computed on every path to its end.
THEOREM SSAForm == Spec => []DefsDominate
<1>1. IInv /\ ListsOK /\ DomOK => DefsDominate BY DominatedAtEnd
<1> QED BY <1>1, Walk, PTL

\* Each load re_name has passed has been replaced by the value its variable has there,
\* given by the closest store or phi; and once run has returned the two executions keep
\* step: the cells of the program hold what the stores and phis that reach have given the
\* variables.
THEOREM Values == Spec => [](IInv /\ ListsOK /\ DomOK /\ ValuesOK /\ RunOK)
<1>1. Init => IInv /\ ListsOK /\ DomOK /\ ValuesOK /\ RunOK
  <2>1. Init => InitPass BY DEF Init
  <2> QED BY <2>1, InitIInv, InitLists, InitDom, InitValues, InitRuns
<1>2. IInv /\ ListsOK /\ DomOK /\ ValuesOK /\ RunOK /\ [Next]_vars
        => (IInv /\ ListsOK /\ DomOK /\ ValuesOK /\ RunOK)'
  BY NextIInv, NextLists, NextDom, NextValues, NextRuns
<1> QED BY <1>1, <1>2, PTL DEF Spec

\* The program means what it did: where run has returned, the execution of the code it
\* leaves stops at the same instructions as that of the code it was given, and reads there
\* what the loads it has removed would have read, unless that was the value of nothing.
THEOREM LoadsReplaced == Spec => []SameReads
<1>1. IInv /\ ListsOK /\ DomOK /\ ValuesOK /\ RunOK => SameReads BY ReadsAgree
<1> QED BY <1>1, Values, PTL
=============================================================================
