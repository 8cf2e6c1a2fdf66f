-------------------------------- MODULE LightIR --------------------------------
(***************************************************************************)
(* The def-use data of light IR (src/src/lightir): the operands of a user, *)
(* the use list of a value, the instruction list of a block, and what the  *)
(* passes do to them.                                                      *)
(*                                                                         *)
(* A value is a tuple whose first component is its kind.  The data of a    *)
(* function are a record:                                                  *)
(*   operands   the operands of each instruction                           *)
(*   use_list   for each value the <<user, arg_no>> pairs in its list; the *)
(*              order of the list and repeated entries make no difference  *)
(*   code       the instructions of each block                             *)
(* Operands are numbered from 1.                                           *)
(***************************************************************************)
EXTENDS Integers, Sequences, FiniteSets

UsesIn(x, ops, v) == {<<x, i>> : i \in {j \in DOMAIN ops : ops[j] = v}}

\* The instructions in S are constructed; they have no operands yet.
Declare(ir, S) ==
  [ir EXCEPT !.operands = [y \in DOMAIN @ \cup S |-> IF y \in S THEN << >> ELSE @[y]],
             !.use_list = [v \in DOMAIN @ \cup S |-> IF v \in S THEN {} ELSE @[v]]]

\* The constructor of an instruction x with operands ops, which it notes with
\* set_operand one after the other.
Create(ir, x, ops) ==
  [Declare(ir, {x}) EXCEPT
     !.operands[x] = ops,
     !.use_list = [v \in DOMAIN @ |-> @[v] \cup UsesIn(x, ops, v)]]

\* A definition named Bad... is what a slip in the code would make of the one
\* after it; no other definition refers to it.
BadReplaceAllUseWith(ir, old, new) ==
  [ir EXCEPT !.operands = [u \in DOMAIN @ |-> [i \in DOMAIN @[u] |->
                             IF <<u, i>> \in ir.use_list[old] THEN new ELSE @[u][i]]]]

(***************************************************************************)
(* replace_all_use_with: set_operand for every entry of the use list of    *)
(* old, which keeps its entries.                                           *)
(***************************************************************************)
ReplaceAllUseWith(ir, old, new) ==
  [ir EXCEPT !.operands = [u \in DOMAIN @ |-> [i \in DOMAIN @[u] |->
                             IF <<u, i>> \in ir.use_list[old] THEN new ELSE @[u][i]]],
             !.use_list[new] = @ \cup ir.use_list[old]]

\* remove_use_of_ops of the instructions in S: each disappears from the use lists
\* of its operands.
RemoveUseOfOps(ir, S) ==
  LET readers(v) == {x \in S : \E i \in DOMAIN ir.operands[x] : ir.operands[x][i] = v}
  IN  [ir EXCEPT !.use_list = [v \in DOMAIN @ |->
                                 {use \in @[v] : use[1] \notin readers(v)}]]

\* The list s without the elements in S.
Without(s, S) ==
  LET left    == {i \in DOMAIN s : s[i] \notin S}
      rank(i) == Cardinality({j \in left : j <= i})
  IN  [n \in 1..Cardinality(left) |-> s[CHOOSE i \in left : rank(i) = n]]

BadDeleteInstrs(ir, b, S) == [ir EXCEPT !.code[b] = Without(@, S)]
\* delete_instr for the instructions in S, in any order: they leave the block and
\* their operands forget them.
DeleteInstrs(ir, b, S) == RemoveUseOfOps([ir EXCEPT !.code[b] = Without(@, S)], S)

DeleteInstr(ir, b, x) == DeleteInstrs(ir, b, {x})

\* add_instruction: x is in the block again, its operands are not told.
AddInstruction(ir, b, x) == [ir EXCEPT !.code[b] = Append(@, x)]

\* add_operand for the values vs[x] of each x in the domain of vs.
AddOperands(ir, vs) ==
  LET uses(x, v) == {<<x, Len(ir.operands[x]) + use[2]>> : use \in UsesIn(x, vs[x], v)}
  IN  [ir EXCEPT
         !.operands = [x \in DOMAIN @ |-> IF x \in DOMAIN vs THEN @[x] \o vs[x] ELSE @[x]],
         !.use_list = [v \in DOMAIN @ |-> @[v] \cup UNION {uses(x, v) : x \in DOMAIN vs}]]
=============================================================================
