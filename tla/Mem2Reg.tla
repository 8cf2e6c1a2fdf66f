-------------------------------- MODULE Mem2Reg --------------------------------
(***************************************************************************)
(* Mem2Reg::run of src/src/optimization/Mem2Reg.cpp for one function: the  *)
(* phis are placed, the loads and stores of local variables are replaced   *)
(* by the values that reach them, in a walk over the dominator tree, and   *)
(* the allocas are removed.                                                *)
(*                                                                         *)
(* var_val_stack is global and never cleared, but its keys are allocas of  *)
(* one function, so functions do not meet.  Loads and stores of globals    *)
(* and of elements of arrays are left alone by the pass; they, and the     *)
(* allocas of arrays, are among the instructions of kind "op" here, and    *)
(* the address of a global is a constant.                                  *)
(***************************************************************************)
EXTENDS Dominance, LightIR, Functions, SequencesExt

CONSTANTS
  Block,      \* basic blocks, values of kind "bb"
  Functions   \* the functions the pass may be run on

\* A phi is named by its variable and its block: bb_has_var_phi allows no more.
IsPhi(x)      == x[1] = "phi"
IsLoad(x)     == x[1] = "load"
IsStore(x)    == x[1] = "store"
IsAlloca(x)   == x[1] = "alloca"
PhiOf(var, b) == <<"phi", var, b>>
\* get_lval of a phi, a load or a store.
Lval(x, ops)  == IF IsPhi(x) THEN x[2] ELSE IF IsLoad(x) THEN ops[1] ELSE ops[2]

InstrsIn(g) == UNION {Range(g.code[b]) : b \in Block}
ValuesIn(g) == InstrsIn(g) \cup UNION {Range(g.operands[x]) : x \in InstrsIn(g)}
Allocas(g)  == {x \in InstrsIn(g) : IsAlloca(x)}

\* All code is in the blocks of the function, all of which can be reached.  An
\* instruction is in one place, and is read where it dominates: an alloca as the
\* address of loads and stores, operations and loads by the others.  A label is no
\* value that could be stored.  A branch ends its block and goes to successors of it.
IsFunction(g) ==
  LET at(x) == CHOOSE b \in Block : x \in Range(g.code[b])
      pos(x) == CHOOSE j \in DOMAIN g.code[at(x)] : g.code[at(x)][j] = x
      before(x, y) == IF at(x) = at(y) THEN pos(x) < pos(y) ELSE Dominates(g, at(x), at(y))
  IN  /\ g.bbs \in Seq(Block) /\ g.bbs # << >>
      /\ g.succ \in [Block -> Seq(Blocks(g))]
      /\ g.code \in [Block -> Seq(InstrsIn(g))]
      /\ g.operands \in [InstrsIn(g) -> Seq(ValuesIn(g))]
      /\ \A b \in Block \ Blocks(g) : g.code[b] = << >>
      /\ \A X \in SUBSET Blocks(g) :
           Entry(g) \in X /\ (\A b \in X : SuccOf(g, b) \subseteq X) => X = Blocks(g)
      /\ \A b \in Block : IsInjective(g.code[b]) /\ IsInjective(g.succ[b])
      /\ \A b, c \in Block : b # c => Range(g.code[b]) \cap Range(g.code[c]) = {}
      /\ \A v \in ValuesIn(g) :
           v[1] \in IF v \in InstrsIn(g) THEN {"alloca", "load", "store", "op", "br", "ret"}
                    ELSE {"arg", "const", "bb"}
      /\ \A x \in InstrsIn(g) :
           /\ IsAlloca(x) => g.operands[x] = << >>
           /\ IsLoad(x) => Len(g.operands[x]) = 1
           /\ IsStore(x) => Len(g.operands[x]) = 2 /\ g.operands[x][1][1] # "bb"
           /\ \A v \in Range(g.operands[x]) \cap InstrsIn(g) : before(v, x)
           /\ \A i \in DOMAIN g.operands[x] :
                IF IsLoad(x) \/ (IsStore(x) /\ i = 2) THEN IsAlloca(g.operands[x][i])
                ELSE g.operands[x][i][1] \in {"arg", "const", "bb", "op", "load"}
      /\ \A b \in Block : \A j \in DOMAIN g.code[b] :
           LET ops == g.operands[g.code[b][j]]
           IN  g.code[b][j][1] = "br" =>
                 /\ j = Len(g.code[b])
                 /\ Len(ops) \in {1, 3}
                 /\ \A i \in DOMAIN ops : ops[i] \in SuccOf(g, b) \/ (Len(ops) = 3 /\ i = 1)

ASSUME BlockAssumption == \A b \in Block : b[1] = "bb"
ASSUME FunctionsAssumption == \A g \in Functions : IsFunction(g)

VARIABLES
  f,               \* the function as it was
  ir,              \* its code and def-use data
  pc,              \* "place", "enter", "instr", "children", "allocas",
                   \* "done", or "abort" once an assert or the memory fails
  vars_left,       \* variables of global_live_var_name still to be dealt with
  var, work_list,  \* the variable phis are placed for and its blocks to look at
  var_val_stack,
  calls,           \* calls of re_name that have not returned
  line             \* instructions of the block the last call has dealt with

pass == <<f, ir, pc, vars_left, var, work_list, var_val_stack, calls, line>>

root == Entry(f)
Stores(g, b) == {x \in Range(g.code[b]) : IsStore(x)}
StoredIn(g, b) == {Lval(x, g.operands[x]) : x \in Stores(g, b)}
Users(g, v) == UNION {UsesIn(x, g.operands[x], v) : x \in InstrsIn(g)}

InitPass ==
  /\ f \in Functions
  /\ ir = [code     |-> f.code,
           operands |-> f.operands,
           use_list |-> [v \in ValuesIn(f) \cup Block |-> Users(f, v)]]
  /\ pc = "place"
  /\ vars_left = UNION {StoredIn(f, b) : b \in Block}
  /\ var = << >> /\ work_list = {}
  /\ var_val_stack = << >>
  /\ calls = << >>
  /\ line = 0
-----------------------------------------------------------------------------
(***************************************************************************)
(* generate_phi.  The variables are in the order of their addresses, and   *)
(* so are the blocks a work list begins with.                              *)
(***************************************************************************)
NextVar ==
  /\ pc = "place"
  /\ work_list = {}
  /\ \E v \in vars_left :
       /\ var' = v
       /\ vars_left' = vars_left \ {v}
       /\ work_list' = {b \in Block : v \in StoredIn(f, b)}
  /\ UNCHANGED <<f, ir, pc, var_val_stack, calls, line>>

\* A definition named Bad... is what a slip in the code would make of the one
\* after it; no other definition refers to it.
BadAlsoLookAt(new) == {}
\* A phi is a definition too: the frontier of its block needs one as well.
AlsoLookAt(new) == new

\* The blocks of the frontier of b that have no phi for the variable get one.
PlacePhis ==
  /\ pc = "place"
  /\ \E b \in work_list :
       LET new == {c \in Frontier(f, b) : PhiOf(var, c) \notin Range(ir.code[c])}
           phis == {PhiOf(var, c) : c \in new}
           g   == Declare(ir, phis)
       IN  /\ ir' = [g EXCEPT !.code = [c \in Block |->
                       IF c \in new THEN <<PhiOf(var, c)>> \o @[c] ELSE @[c]]]
           /\ work_list' = (work_list \ {b}) \cup AlsoLookAt(new)
  /\ UNCHANGED <<f, pc, vars_left, var, var_val_stack, calls, line>>

Children(b) == {c \in Blocks(f) \ {root} : IsIdom(f, b, c)}
Call(b)     == [bb |-> b, wait_delete |-> {}, left |-> Children(b)]

StartRename ==
  /\ pc = "place"
  /\ work_list = {}
  /\ vars_left = {}
  /\ calls' = <<Call(root)>>
  /\ pc' = "enter"
  /\ UNCHANGED <<f, ir, vars_left, var, work_list, var_val_stack, line>>
-----------------------------------------------------------------------------
(***************************************************************************)
(* re_name, for the block of the last call.                                *)
(***************************************************************************)
this == calls[Len(calls)]
bb_  == this.bb
PhisIn(b) == {x \in Range(ir.code[b]) : IsPhi(x)}

Succs(b)   == Range(f.succ[b])

\* push_back creates an entry where there is none.
Known        == DOMAIN var_val_stack
StackOf(v)   == IF v \in Known THEN var_val_stack[v] ELSE << >>
Newest(v)    == Last(var_val_stack[v])

\* A block has one phi for a variable, so the order of its phis does not matter.
PushPhis ==
  /\ pc = "enter"
  /\ LET vars == {Lval(p, << >>) : p \in PhisIn(bb_)}
     IN  var_val_stack' = [v \in Known \cup vars |->
           IF v \in vars THEN Append(StackOf(v), PhiOf(v, bb_)) ELSE var_val_stack[v]]
  /\ line' = 0
  /\ pc' = "instr"
  /\ UNCHANGED <<f, ir, vars_left, var, work_list, calls>>

instr == ir.code[bb_][line + 1]
lval  == Lval(instr, ir.operands[instr])
AtInstr(P(_)) == pc = "instr" /\ line < Len(ir.code[bb_]) /\ P(instr)
WaitDelete(x) == calls' = [calls EXCEPT ![Len(calls)].wait_delete = @ \cup {x}]

\* A load becomes the newest value of its variable.
RenameLoad ==
  /\ AtInstr(IsLoad)
  /\ lval \in Known
  /\ var_val_stack[lval] # << >>
  /\ ir' = ReplaceAllUseWith(ir, instr, Newest(lval))
  /\ WaitDelete(instr)
  /\ line' = line + 1
  /\ UNCHANGED <<f, pc, vars_left, var, work_list, var_val_stack>>

\* back() of an empty stack, left by a block that has been popped, is no value:
\* the first use it is given to follows it and the process ends.
LoadOfNothing ==
  /\ AtInstr(IsLoad)
  /\ lval \in Known
  /\ var_val_stack[lval] = << >>
  /\ IF ir.use_list[instr] = {}
     THEN WaitDelete(instr) /\ line' = line + 1 /\ UNCHANGED pc
     ELSE pc' = "abort" /\ UNCHANGED <<calls, line>>
  /\ UNCHANGED <<f, ir, vars_left, var, work_list, var_val_stack>>

RenameStore ==
  /\ AtInstr(IsStore)
  /\ var_val_stack' = [v \in Known \cup {lval} |->
       IF v = lval THEN Append(StackOf(v), ir.operands[instr][1]) ELSE var_val_stack[v]]
  /\ WaitDelete(instr)
  /\ line' = line + 1
  /\ UNCHANGED <<f, ir, pc, vars_left, var, work_list>>

\* Other instructions, and loads of a variable without a stack, which stay.
SkipInstr ==
  /\ AtInstr(LAMBDA x : ~IsStore(x) /\ (IsLoad(x) => lval \notin Known))
  /\ line' = line + 1
  /\ UNCHANGED <<f, ir, pc, vars_left, var, work_list, var_val_stack, calls>>

\* The phis of the successors that get an operand for this block; without a
\* stack the operand is undefined and left out.
ToFill == {p \in UNION {PhisIn(c) : c \in Succs(bb_)} : Lval(p, << >>) \in Known}

FillPhis ==
  /\ pc = "instr"
  /\ line = Len(ir.code[bb_])
  /\ IF \E p \in ToFill : var_val_stack[Lval(p, << >>)] = << >>
     THEN pc' = "abort" /\ UNCHANGED ir
     ELSE /\ ir' = AddOperands(ir, [p \in ToFill |-> <<Newest(Lval(p, << >>)), bb_>>])
          /\ pc' = "children"
  /\ UNCHANGED <<f, vars_left, var, work_list, var_val_stack, calls, line>>

\* The children are in the order of their addresses.
VisitChild ==
  /\ pc = "children"
  /\ \E c \in this.left :
       calls' = Append([calls EXCEPT ![Len(calls)].left = @ \ {c}], Call(c))
  /\ pc' = "enter"
  /\ UNCHANGED <<f, ir, vars_left, var, work_list, var_val_stack, line>>

BadPushed(v) == {x \in Range(ir.code[bb_]) : IsStore(x) /\ Lval(x, ir.operands[x]) = v}
\* What the block has pushed for v and pops now.
PushedHere(v) == {x \in Range(ir.code[bb_]) : (IsStore(x) \/ IsPhi(x)) /\ Lval(x, ir.operands[x]) = v}

Return ==
  /\ pc = "children"
  /\ this.left = {}
  /\ var_val_stack' = [v \in Known |->
       SubSeq(var_val_stack[v], 1, Len(var_val_stack[v]) - Cardinality(PushedHere(v)))]
  /\ ir' = DeleteInstrs(ir, bb_, this.wait_delete)
  /\ calls' = Front(calls)
  /\ pc' = IF Len(calls) = 1 THEN "allocas" ELSE "children"
  /\ UNCHANGED <<f, vars_left, var, work_list, line>>
-----------------------------------------------------------------------------
\* What remove_alloca removes: the allocas of an int or a float.
ScalarAllocas == Allocas(f) \cap f.scalars

RemoveAllocas ==
  /\ pc = "allocas"
  /\ ir' = [ir EXCEPT !.code = [b \in Block |-> Without(@[b], ScalarAllocas)]]
  /\ pc' = "done"
  /\ UNCHANGED <<f, vars_left, var, work_list, var_val_stack, calls, line>>

NextPass ==
  \/ NextVar \/ PlacePhis \/ StartRename
  \/ PushPhis \/ RenameLoad \/ LoadOfNothing \/ RenameStore \/ SkipInstr
  \/ FillPhis \/ VisitChild \/ Return \/ RemoveAllocas
-----------------------------------------------------------------------------
Instrs == UNION {Range(ir.code[b]) : b \in Block}

(***************************************************************************)
(* The code is in SSA form: what an instruction reads has been computed on *)
(* every path to it, what a phi reads from a predecessor on every path to  *)
(* the end of that, and a phi reads once for each predecessor at most.  A  *)
(* load that stays reads an alloca that is gone.                           *)
(***************************************************************************)
DefsDominate ==
  LET at(x)  == CHOOSE b \in Block : x \in Range(ir.code[b])
      pos(x) == CHOOSE j \in DOMAIN ir.code[at(x)] : ir.code[at(x)][j] = x
      before(x, y) == IF at(x) = at(y) THEN pos(x) < pos(y)
                      ELSE Dominates(f, at(x), at(y))
      defs(ops) == {v \in Range(ops) : v[1] \in {"op", "load", "phi"}}
  IN  pc = "done" =>
        \A x \in Instrs :
          LET ops == ir.operands[x]
          IN  /\ defs(ops) \subseteq Instrs
              /\ ~IsPhi(x) => \A v \in defs(ops) : before(v, x)
              /\ IsPhi(x) => \A i \in {j \in DOMAIN ops : ops[j][1] = "bb"} :
                   /\ ops[i] \in PredsOf(f, at(x))
                   /\ ops[i - 1] \in defs(ops) => Dominates(f, at(ops[i - 1]), ops[i])
                   /\ \A j \in DOMAIN ops : ops[j] = ops[i] => j = i

\* What can be reached from b by one branch or more.
ReachableFrom(b) ==
  {c \in Block : \A X \in SUBSET Block :
     Succs(b) \subseteq X /\ (\A d \in X : Succs(d) \subseteq X) => c \in X}

(***************************************************************************)
(* Where a variable has an empty stack, nothing stored to it can reach:    *)
(* the phis suffice, and each block pops just what it has pushed, so that  *)
(* what siblings leave behind is a stack without a value and never one     *)
(* that has lost a value the program is entitled to.                       *)
(***************************************************************************)
EmptyMeansUnassigned ==
  pc \in {"instr", "abort"} =>
    \A v \in Known :
      var_val_stack[v] = << >> =>
        \A c \in Block : v \in StoredIn(f, c) => bb_ \notin ReachableFrom(c)

(***************************************************************************)
(* After the pass the use list of each value that is left names the        *)
(* operands that read it and no other: the allocator takes it at its word. *)
(***************************************************************************)
UseListsExact ==
  pc = "done" =>
    \A v \in DOMAIN ir.use_list :
      v \in Instrs \/ v[1] \in {"arg", "const", "bb"} =>
        ir.use_list[v] = UNION {UsesIn(x, ir.operands[x], v) : x \in Instrs}
=============================================================================
