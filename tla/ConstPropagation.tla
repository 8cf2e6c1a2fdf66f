--------------------------- MODULE ConstPropagation ---------------------------
(***************************************************************************)
(* ConstPropagation::run for one function: instructions on constants are   *)
(* replaced by their results, loads by what the block stored last, and     *)
(* what was replaced is deleted at the end of its block.                   *)
(*                                                                         *)
(* An integer constant is <<"const", n>>, a float <<"fconst", n>> with the *)
(* value n/2, and <<"zero">> the initialiser of a global, which the pass   *)
(* does not take for a number.  Integers have Width bits.                  *)
(***************************************************************************)
EXTENDS Dominance, LightIR, Functions, SequencesExt

CONSTANTS
  Block,      \* the basic blocks
  Functions,  \* the functions considered: bbs, code, operands, opcode, succ, and
              \* whether it is the first of its module that has blocks
  Width       \* of an integer

InstrsIn(g) == UNION {Range(g.code[b]) : b \in Block}
ValuesIn(g) == InstrsIn(g) \cup UNION {Range(g.operands[x]) : x \in InstrsIn(g)}
Zero == <<"zero">>

IntOps   == {"add", "sub", "mul", "sdiv"}
FloatOps == {"fadd", "fsub", "fmul", "fdiv"}
Compares == {"eq", "ne", "gt", "ge", "lt", "le"}
FCompares == {"feq", "fne", "fgt", "fge", "flt", "fle"}
Binary    == IntOps \cup FloatOps \cup Compares \cup FCompares

\* v is computed before instruction j of b, there or in a block that dominates b.
Available(g, v, b, j) ==
  \/ \E h \in 1..(j - 1) : g.code[b][h] = v
  \/ \E d \in Blocks(g) : StrictlyDominates(g, d, b) /\ v \in Range(g.code[d])

\* All code is in the blocks of the function, each of which is listed once and can be
\* reached; an instruction is in one place, is no constant, has the operands its
\* operation takes and, unless it is a phi, reads what is available.
IsFunction(g) ==
  /\ g.bbs \in Seq(Block) /\ g.bbs # << >> /\ IsInjective(g.bbs)
  /\ g.succ \in [Block -> Seq(Blocks(g))]
  /\ g.code \in [Block -> Seq(InstrsIn(g))]
  /\ g.operands \in [InstrsIn(g) -> Seq(ValuesIn(g))]
  /\ \A b \in Block \ Blocks(g) : g.code[b] = << >>
  /\ \A X \in SUBSET Blocks(g) :
       Entry(g) \in X /\ (\A b \in X : SuccOf(g, b) \subseteq X) => X = Blocks(g)
  /\ \A b \in Block : IsInjective(g.code[b])
  /\ \A b, c \in Block : b # c => Range(g.code[b]) \cap Range(g.code[c]) = {}
  /\ \A x \in InstrsIn(g) :
       /\ x[1] \notin {"const", "fconst"} /\ x # Zero
       /\ g.opcode[x] \in Binary \cup {"store"} => Len(g.operands[x]) = 2
       /\ g.opcode[x] \in {"load", "fptosi", "sitofp"} => Len(g.operands[x]) = 1
  /\ \A b \in Block : \A j \in DOMAIN g.code[b] :
       g.opcode[g.code[b][j]] # "phi" =>
         \A v \in Range(g.operands[g.code[b][j]]) \cap InstrsIn(g) : Available(g, v, b, j)

\* The provers know no more of powers than is said here.
ASSUME WidthAssumption ==
  /\ Width \in Nat \ {0, 1}
  /\ 2 ^ (Width - 1) \in Nat \ {0, 1} /\ 2 ^ Width = 2 * (2 ^ (Width - 1))
ASSUME FunctionsAssumption == \A g \in Functions : IsFunction(g)

VARIABLES
  f, ir,        \* the function as it was, and as it is
  pc,           \* "instr", "done", or "crash" when the pass divides by zero
  at, line,     \* the block, by its number, and the instructions of it dealt with
  map_,         \* the value each global was stored last, in this block
  delete_list

pass == <<f, ir, pc, at, line, map_, delete_list>>

MinInt == -2 ^ (Width - 1)
Wrap(n) == MinInt + ((n - MinInt) % (2 ^ Width))

Abs(n) == IF n < 0 THEN -n ELSE n
\* Division rounds towards zero.
Quotient(a, b) == IF (a < 0) = (b < 0) THEN Abs(a) \div Abs(b) ELSE -(Abs(a) \div Abs(b))

\* Floats as far as the runs need them: halves up to a largest one.
MaxFloat == 2 * (2 ^ (Width - 1) - 1)
Near(n) == IF n > MaxFloat THEN MaxFloat ELSE IF n < -MaxFloat THEN -MaxFloat ELSE n

compute_i(op, a, b) ==
  Wrap(CASE op = "add" -> a + b [] op = "sub" -> a - b [] op = "mul" -> a * b
         [] op = "sdiv" -> Quotient(a, b))

compute_f(op, a, b) ==
  Near(CASE op = "fadd" -> a + b [] op = "fsub" -> a - b [] op = "fmul" -> Quotient(a * b, 2)
         [] op = "fdiv" -> IF b = 0 THEN MaxFloat ELSE Quotient(2 * a, b))

f_to_i(a) == Quotient(a, 2)
i_to_f(a) == Near(2 * a)

Truth(b) == IF b THEN 1 ELSE 0
compare(op, a, b) ==
  Truth(CASE op \in {"eq", "feq"} -> a = b [] op \in {"ne", "fne"} -> a # b
          [] op \in {"gt", "fgt"} -> a > b [] op \in {"ge", "fge"} -> a >= b
          [] op \in {"lt", "flt"} -> a < b [] op \in {"le", "fle"} -> a <= b)

Constants   == {<<"const", n>> : n \in MinInt..(-MinInt - 1)}
                 \cup {<<"fconst", n>> : n \in (-MaxFloat)..MaxFloat}
Users(g, v) == UNION {UsesIn(x, g.operands[x], v) : x \in InstrsIn(g)}

NotGlobal == <<"nullptr">>
\* The key of an address: every address that is not that of a global is a null pointer.
Key(addr) == IF addr[1] = "global" THEN addr ELSE NotGlobal
GlobalsOf(g) == {v \in ValuesIn(g) : v[1] = "global"}

\* ConstFolder knows the initial values of the globals; the first block to be left
\* clears the map.
InitPass ==
  /\ f \in Functions
  /\ ir = [code |-> f.code, operands |-> f.operands,
           use_list |-> [v \in ValuesIn(f) \cup Block \cup Constants \cup {Zero} |-> Users(f, v)]]
  /\ pc = "instr"
  /\ at = 1 /\ line = 0
  /\ map_ = [g \in IF f.first THEN GlobalsOf(f) ELSE {} |-> Zero]
  /\ delete_list = {}
-----------------------------------------------------------------------------
bb    == f.bbs[at]
instr == ir.code[bb][line + 1]
\* A definition named Bad... is what a slip in the code would make of the one
\* after it; no other definition refers to it.
BadOps == f.operands[instr]
ops   == ir.operands[instr]
op    == f.opcode[instr]

InBlock == pc = "instr" /\ line < Len(ir.code[bb])
Is(i, kind) == ops[i][1] = kind
Both(kind) == Is(1, kind) /\ Is(2, kind)
val(i) == ops[i][2]

\* The host cannot divide by zero, nor the smallest number by minus one.
DividesConst == InBlock /\ op = "sdiv" /\ Both("const")
Overflows == val(2) = 0 \/ (val(1) = MinInt /\ val(2) = -1)

\* The constant an instruction on constants comes to.
Folded ==
  CASE op \in IntOps    -> IF Both("const") THEN {<<"const", compute_i(op, val(1), val(2))>>} ELSE {}
    [] op \in FloatOps  -> IF Both("fconst") THEN {<<"fconst", compute_f(op, val(1), val(2))>>} ELSE {}
    [] op = "fptosi"    -> IF Is(1, "fconst") THEN {<<"const", f_to_i(val(1))>>} ELSE {}
    [] op = "sitofp"    -> IF Is(1, "const") THEN {<<"fconst", i_to_f(val(1))>>} ELSE {}
    [] op \in Compares  -> IF Both("const") THEN {<<"const", compare(op, val(1), val(2))>>} ELSE {}
    [] op \in FCompares -> IF Both("fconst") THEN {<<"const", compare(op, val(1), val(2))>>} ELSE {}
    [] OTHER -> {}

ReplaceBy(v) ==
  /\ ir' = ReplaceAllUseWith(ir, instr, v)
  /\ delete_list' = delete_list \cup {instr}

FoldInstr ==
  /\ InBlock
  /\ ~(DividesConst /\ Overflows)
  /\ \E c \in Folded : ReplaceBy(c)
  /\ line' = line + 1
  /\ UNCHANGED <<f, pc, at, map_>>

FoldDivision ==
  /\ DividesConst /\ Overflows
  /\ pc' = "crash"
  /\ UNCHANGED <<f, ir, at, line, map_, delete_list>>

BadRemember(addr, v) == IF Key(addr) \in DOMAIN map_ THEN map_
                        ELSE [k \in DOMAIN map_ \cup {Key(addr)} |-> IF k = Key(addr) THEN v ELSE map_[k]]
Remember(addr, v) == [k \in DOMAIN map_ \cup {Key(addr)} |-> IF k = Key(addr) THEN v ELSE map_[k]]

NoteStore ==
  /\ InBlock /\ op = "store"
  /\ map_' = Remember(ops[2], ops[1])
  /\ line' = line + 1
  /\ UNCHANGED <<f, ir, pc, at, delete_list>>

ReplaceLoad ==
  /\ InBlock /\ op = "load" /\ Key(ops[1]) \in DOMAIN map_
  /\ ReplaceBy(map_[Key(ops[1])])
  /\ line' = line + 1
  /\ UNCHANGED <<f, pc, at, map_>>

Skip ==
  /\ InBlock
  /\ ~DividesConst /\ Folded = {} /\ op # "store"
  /\ op = "load" => Key(ops[1]) \notin DOMAIN map_
  /\ line' = line + 1
  /\ UNCHANGED <<f, ir, pc, at, map_, delete_list>>

\* delete_list is kept: what earlier blocks lost is deleted once more.
EndBlock ==
  /\ pc = "instr" /\ line = Len(ir.code[bb])
  /\ ir' = DeleteInstrs(ir, bb, delete_list)
  /\ map_' = << >>
  /\ line' = 0
  /\ IF at < Len(f.bbs) THEN at' = at + 1 /\ UNCHANGED pc ELSE pc' = "done" /\ UNCHANGED at
  /\ UNCHANGED <<f, delete_list>>

NextPass == FoldInstr \/ FoldDivision \/ NoteStore \/ ReplaceLoad \/ Skip \/ EndBlock
-----------------------------------------------------------------------------
(***************************************************************************)
(* delete_instr and replace_all_use_with together keep the use lists: once *)
(* the pass is done, the list of a value names its readers and no others.  *)
(***************************************************************************)
UseListsExact ==
  pc = "done" =>
    \A v \in DOMAIN ir.use_list \ delete_list : ir.use_list[v] = Users(ir, v)

\* x computes something, and from nothing but constants of the type it takes.
OnConstants(x) ==
  \/ /\ f.opcode[x] \in IntOps \cup Compares \cup {"sitofp", "zext"}
     /\ \A v \in Range(ir.operands[x]) : v[1] = "const"
  \/ /\ f.opcode[x] \in FloatOps \cup FCompares \cup {"fptosi"}
     /\ \A v \in Range(ir.operands[x]) : v[1] = "fconst"

(***************************************************************************)
(* The order of the blocks in the function, which is that of their         *)
(* creation, has what an instruction reads before the instruction, unless  *)
(* that is a phi.                                                          *)
(***************************************************************************)
ReadsEarlier ==
  \A k \in DOMAIN f.bbs : \A j \in DOMAIN f.code[f.bbs[k]] :
    LET x == f.code[f.bbs[k]][j]
    IN  f.opcode[x] # "phi" =>
          \A v \in Range(f.operands[x]) \cap InstrsIn(f) :
            \/ \E m \in 1..(k - 1) : v \in Range(f.code[f.bbs[m]])
            \/ \E m \in 1..(j - 1) : f.code[f.bbs[k]][m] = v

(***************************************************************************)
(* report-phase2.md:31: a value that can be computed is replaced by its    *)
(* result.  Nothing reads what was deleted, and one pass over the blocks   *)
(* leaves no instruction on constants but those that extend the bit of a   *)
(* comparison, which run has no case for, if the order of the blocks has   *)
(* definitions before their uses.                                          *)
(***************************************************************************)
OnlyZextLeft ==
  pc = "done" =>
    \A x \in InstrsIn(ir) :
      /\ Range(ir.operands[x]) \cap delete_list = {}
      /\ ReadsEarlier /\ OnConstants(x) => f.opcode[x] = "zext"
=============================================================================
