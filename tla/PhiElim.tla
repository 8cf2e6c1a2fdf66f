-------------------------------- MODULE PhiElim --------------------------------
(***************************************************************************)
(* PhiElim::run of src/src/codegen/phi_elim.cpp for one function: each phi *)
(* becomes an alloca in the entry block and a load where it stood, each of *)
(* its operands a store at the end of the block it comes from.  phi2alloca *)
(* is cleared for each function, so functions do not meet.                 *)
(***************************************************************************)
EXTENDS LightIR, Functions

CONSTANTS
  Block,      \* basic blocks, values of kind "bb"
  Functions   \* the functions the pass may be run on

IsPhi(x)        == x[1] = "phi"
IsTerminator(x) == x[1] \in {"br", "ret"}

\* What the pass creates for the phi p: the alloca, the load and the store for
\* the operand with index i.
AllocaOf(p)   == <<"alloca", p>>
LoadOf(p)     == <<"load", p>>
StoreOf(p, i) == <<"store", p, i>>

InstrsOf(g) == UNION {Range(g.code[b]) : b \in Block}
PhisOf(g)   == {x \in InstrsOf(g) : IsPhi(x)}
ValuesOf(g) == InstrsOf(g) \cup UNION {Range(g.operands[x]) : x \in InstrsOf(g)}

\* Where the instruction x has a block as its operand.
NamesBlock(x, ops, j) ==
  (IsPhi(x) /\ j % 2 = 0) \/ (x[1] = "br" /\ (j > 1 \/ Len(ops) = 1))

\* All code is in the blocks of the function and an instruction is in one place; loads,
\* stores and allocas are only those the pass creates, others are of kind "op".
IsFunction(g) ==
  /\ g.bbs \in Seq(Block) /\ g.bbs # << >> /\ IsInjective(g.bbs)
  /\ g.code \in [Block -> Seq(InstrsOf(g))]
  /\ g.operands \in [InstrsOf(g) -> Seq(ValuesOf(g))]
  /\ \A b \in Block \ Range(g.bbs) : g.code[b] = << >>
  /\ \A b \in Block : IsInjective(g.code[b])
  /\ \A b, c \in Block : b # c => Range(g.code[b]) \cap Range(g.code[c]) = {}
  /\ \A v \in ValuesOf(g) :
       /\ v # << >>
       /\ v[1] \in IF v \in InstrsOf(g) THEN {"phi", "op", "br", "ret"} ELSE {"arg", "const", "bb"}
  \* One terminator, at the end; the phis are at the beginning, where Mem2Reg
  \* puts them, and have pairs of operands; the entry has none.
  /\ \A b \in Range(g.bbs) :
       /\ g.code[b] # << >>
       /\ \A j \in DOMAIN g.code[b] :
            /\ IsTerminator(g.code[b][j]) <=> j = Len(g.code[b])
            /\ IsPhi(g.code[b][j]) =>
                 /\ b # g.bbs[1]
                 /\ j > 1 => IsPhi(g.code[b][j - 1])
                 /\ \A i \in DOMAIN g.operands[g.code[b][j]] :
                      i % 2 = 0 <=> g.operands[g.code[b][j]][i] \in Range(g.bbs)
  \* Branches and phis name blocks, nothing else does; the entry reads no phi, since none
  \* is computed before it.
  /\ \A x \in InstrsOf(g) :
       /\ x[1] = "br" => Len(g.operands[x]) \in {1, 3}
       /\ \A j \in DOMAIN g.operands[x] :
            IF NamesBlock(x, g.operands[x], j) THEN g.operands[x][j] \in Range(g.bbs)
            ELSE g.operands[x][j][1] \in {"arg", "const", "op", "phi"}
  /\ \A x \in Range(g.code[g.bbs[1]]) : \A v \in Range(g.operands[x]) : ~IsPhi(v)

ASSUME BlockAssumption     == \A b \in Block : b[1] = "bb"
ASSUME FunctionsAssumption == \A g \in Functions : IsFunction(g)

VARIABLES
  f,      \* the function as it was
  ir,     \* its code and def-use data
  pc,     \* "entry", "collect", "store" or "done"
  k,      \* blocks of f.bbs whose phis have been collected
  its,    \* phis of block k still to be replaced
  left,   \* phis of phi2alloca whose operands are still to be stored
  phi, i  \* the phi of phi2alloca being dealt with, if any, and its next operand

pass == <<f, ir, pc, k, its, left, phi, i>>

entry == f.bbs[1]
Terminator(b) == ir.code[b][Len(ir.code[b])]
Users(g, v)   == UNION {UsesIn(x, g.operands[x], v) : x \in InstrsOf(g)}

\* The use lists the passes before this one leave are exact.
InitPass ==
  /\ f \in Functions
  /\ ir = [code     |-> f.code,
           operands |-> f.operands,
           use_list |-> [v \in ValuesOf(f) |-> Users(f, v)]]
  /\ pc = "entry"
  /\ k = 0
  /\ its = << >>
  /\ left = {}
  /\ phi = << >> /\ i = 0

\* The terminator is taken out, so that allocas can be added behind the rest.
TakeTerminator ==
  /\ pc = "entry"
  /\ ir' = DeleteInstr(ir, entry, Terminator(entry))
  /\ pc' = "collect"
  /\ UNCHANGED <<f, k, its, left, phi, i>>

PhisIn(b) == Without(ir.code[b], {x \in Range(ir.code[b]) : ~IsPhi(x)})

\* its is the list of the phis of the next block, which get their allocas at the
\* end of the entry.
CollectPhis ==
  /\ pc = "collect"
  /\ its = << >>
  /\ k < Len(f.bbs)
  /\ its' = PhisIn(f.bbs[k + 1])
  /\ LET new == [j \in DOMAIN its' |-> AllocaOf(its'[j])]
     IN  ir' = [Declare(ir, Range(new)) EXCEPT !.code[entry] = @ \o new]
  /\ left' = left \cup Range(its')
  /\ k' = k + 1
  /\ UNCHANGED <<f, pc, phi, i>>

\* A definition named Bad... is what a slip in the code would make of the one
\* after it; no other definition refers to it.
BadErased(g, p) == RemoveUseOfOps(g, {p})
\* instr_list.erase: the phi remains in the use lists of its operands, and so an
\* operand that is a phi itself still becomes the load of that one.
Erased(g, p) == g

\* The load is put where the phi was.
ReplacePhi ==
  /\ pc = "collect"
  /\ its # << >>
  /\ LET p == Head(its)
         b == f.bbs[k]
         g == ReplaceAllUseWith(Create(ir, LoadOf(p), <<AllocaOf(p)>>), p, LoadOf(p))
     IN  ir' = [Erased(g, p) EXCEPT !.code[b] =
                  [j \in DOMAIN @ |-> IF @[j] = p THEN LoadOf(p) ELSE @[j]]]
  /\ its' = Tail(its)
  /\ UNCHANGED <<f, pc, k, left, phi, i>>

ReturnTerminator ==
  /\ pc = "collect"
  /\ its = << >>
  /\ k = Len(f.bbs)
  /\ ir' = AddInstruction(ir, entry, f.code[entry][Len(f.code[entry])])
  /\ pc' = "store"
  /\ UNCHANGED <<f, k, its, left, phi, i>>

\* phi2alloca is ordered by address: any phi may be next.
NextPhi ==
  /\ pc = "store"
  /\ phi = << >>
  /\ \E p \in left :
       /\ phi' = p
       /\ left' = left \ {p}
  /\ i' = 1
  /\ UNCHANGED <<f, ir, pc, k, its>>

\* The store goes before the terminator of the block the operand comes from.
StoreOperand ==
  /\ pc = "store"
  /\ phi # << >>
  /\ i < Len(ir.operands[phi])
  /\ LET val  == ir.operands[phi][i]
         b    == ir.operands[phi][i + 1]
         term == Terminator(b)
         st   == StoreOf(phi, i)
         cut  == DeleteInstr(ir, b, term)
     IN  ir' = AddInstruction(
                 AddInstruction(Create(cut, st, <<val, AllocaOf(phi)>>), b, st), b, term)
  /\ i' = i + 2
  /\ UNCHANGED <<f, pc, k, its, left, phi>>

LastOperand ==
  /\ pc = "store"
  /\ phi # << >>
  /\ i > Len(ir.operands[phi])
  /\ phi' = << >>
  /\ UNCHANGED <<f, ir, pc, k, its, left, i>>

FinishPass ==
  /\ pc = "store"
  /\ phi = << >>
  /\ left = {}
  /\ pc' = "done"
  /\ UNCHANGED <<f, ir, k, its, left, phi, i>>

NextPass ==
  \/ TakeTerminator \/ CollectPhis \/ ReplacePhi \/ ReturnTerminator
  \/ NextPhi \/ StoreOperand \/ LastOperand \/ FinishPass
-----------------------------------------------------------------------------
Instrs == UNION {Range(ir.code[b]) : b \in Block}

\* The blocks whose terminator has been taken out and put back.
Reopened == {entry} \cup {b \in Block : \E x \in Instrs : x[1] = "store" /\ x \in Range(ir.code[b])}
Moved    == {Terminator(b) : b \in Reopened}

(***************************************************************************)
(* What later passes may rely on: the use list of a value that is still    *)
(* there names exactly the operands that read it, in instructions of the   *)
(* code and in erased phis, apart from the terminators that were taken out *)
(* and put back.                                                           *)
(***************************************************************************)
UseListsExact ==
  pc = "done" =>
    \A v \in DOMAIN ir.use_list \ PhisOf(f) :
      LET readers == (Instrs \cup PhisOf(f)) \ Moved
      IN  {use \in ir.use_list[v] : use[1] \notin Moved}
            = UNION {UsesIn(x, ir.operands[x], v) : x \in readers}
=============================================================================
