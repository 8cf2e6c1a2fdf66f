-------------------------------- MODULE Codegen --------------------------------
(***************************************************************************)
(* Codegen: the RISC-V text of a function of light IR whose values have    *)
(* registers or stack slots already.  Each method maps the state g of the  *)
(* generator to the next:                                                  *)
(*   reg_mapping, stack_mapping   what the register allocator decided      *)
(*   wide                 values whose Reg has d, a double word            *)
(*   free_regs, fresh     registers that may be a temporary; that hold     *)
(*                        what was last computed in them                   *)
(*   s0_offset            the slot of each register in the frame           *)
(*   stack_size                                                            *)
(*   text, label          the instructions; where the text of a block is   *)
(*   local_floats                                                          *)
(*   aborted              an exception was thrown or an assertion failed   *)
(***************************************************************************)
EXTENDS IRBuilder

VARIABLE f_   \* the function: its args, blocks, code and the globals

(***************************************************************************)
(* A Reg is a number, a class, and whether it is used as a double word; it *)
(* is compared by number and class.  Reg(-1) is none: it has no name.      *)
(***************************************************************************)
Reg(id, f, d) == [id |-> id, f |-> f, d |-> d]
Key(r) == [id |-> r.id, f |-> r.f]

sp   == Reg(2, FALSE, TRUE)
s0   == Reg(8, FALSE, TRUE)
ra   == Reg(1, FALSE, TRUE)
zero == Reg(0, FALSE, FALSE)
a0   == Reg(10, FALSE, FALSE)
fa0  == Reg(10, TRUE, FALSE)

args  == [k \in 1..8 |-> 9 + k]
temps == {5, 6, 7, 28, 29, 30, 31}
caller_saved_regs == {[id |-> n, f |-> c] : n \in {1} \cup temps \cup Range(args), c \in BOOLEAN}

\* The order of operator<: by number, and then int before float.
Ordered == [k \in 1..64 |-> [id |-> (k - 1) \div 2, f |-> k % 2 = 0]]

IMM_MIN == -2048
IMM_MAX == 2047

has_fcalls == \E bb \in Range(f_.blocks) : \E k \in DOMAIN f_.code[bb] : f_.code[bb][k].op = "call"

Def(v) ==
  LET bb == CHOOSE b \in Range(f_.blocks) : \E k \in DOMAIN f_.code[b] : f_.code[b][k].value = v
  IN  f_.code[bb][CHOOSE k \in DOMAIN f_.code[bb] : f_.code[bb][k].value = v]
is_gep(v)   == v[1] = "instr" /\ Def(v).op = "getelementptr"
gep_base(v) == Def(v).operands[1]
gep_index(v) == Last(Def(v).operands)
is_const(v) == v[1] = "const"
-----------------------------------------------------------------------------
\* The classes an instruction asserts of its registers: TRUE is float.
Classes(op) ==
  CASE op \in {"sd", "sw", "ld", "lw", "mv", "seqz", "snez", "xori", "sext.w", "andi", "slli"} -> <<FALSE, FALSE>>
    [] op \in {"flw", "fsw", "fcvt.s.w"} -> <<TRUE, FALSE>>
    [] op = "fcvt.w.s" -> <<FALSE, TRUE>>
    [] op = "fmv.s"    -> <<TRUE, TRUE>>
    [] op \in {"sub", "mul", "div", "slt", "sgt"} -> <<FALSE, FALSE, FALSE>>
    [] op \in {"fadd.s", "fsub.s", "fmul.s", "fdiv.s"} -> <<TRUE, TRUE, TRUE>>
    [] op \in {"feq.s", "fge.s", "fgt.s", "fle.s", "flt.s"} -> <<FALSE, TRUE, TRUE>>
    [] op \in {"lui", "la", "bnez"} -> <<FALSE>>

\* A double word is stored and loaded with sd and ld, a word with sw and lw.
Widths(op, rs) ==
  CASE op \in {"sd", "ld"} -> rs[1].d /\ rs[2].d
    [] op \in {"sw", "lw"} -> ~rs[1].d /\ rs[2].d
    [] OTHER -> TRUE

\* An instruction of the text: its registers, and its immediate, label or symbol.
Emit(g, op, rs, x) ==
  LET classes == [k \in DOMAIN rs |-> rs[k].f]
      named   == \A k \in DOMAIN rs : rs[k].id # -1
      checked == op \notin {"add", "addi", "call", "j", "jr", "lla"}
  IN  [Assert_(g, named /\ (checked => classes = Classes(op) /\ Widths(op, rs)))
         EXCEPT !.text = Append(@, [op |-> op, rs |-> [k \in DOMAIN rs |-> Key(rs[k])], x |-> x])]

InReg(g, v) == v \in DOMAIN g.reg_mapping
mapped(g, v) ==
  IF InReg(g, v) THEN Reg(g.reg_mapping[v].id, g.reg_mapping[v].f, v \in g.wide) ELSE Reg(-1, FALSE, FALSE)

Erase(g, r) == [g EXCEPT !.free_regs = @ \ {Key(r)}]
Slot(g, r)  == IF Key(r) \in DOMAIN g.s0_offset THEN g.s0_offset[Key(r)] ELSE 0

\* The first free register of the class; there may be none.
get_temp(g, f, d) ==
  LET ids == {r.id : r \in {q \in g.free_regs : q.f = f}}
  IN  Reg(IF ids = {} THEN -1 ELSE Min(ids), f, d)
OrTemp(g, v) == IF InReg(g, v) THEN mapped(g, v) ELSE get_temp(g, is_float_type(get_type(v)), FALSE)

\* A definition named Bad... is what a slip in the code would make of the one
\* after it; no other definition refers to it.
BadSave(g, r) == [Erase(g, r) EXCEPT !.fresh = @ \cup {Key(r)}]
\* r holds a new value, which goes to its slot if calls may overwrite it.
save(g, r) ==
  LET g1 == Erase(Assert_(g, Key(r) \in DOMAIN g.s0_offset \/ ~has_fcalls), r)
      g2 == [g1 EXCEPT !.fresh = @ \cup {Key(r)}]
  IN  IF has_fcalls THEN Emit(g2, IF r.f THEN "fsw" ELSE "sw", <<r, s0>>, Slot(g, r)) ELSE g2

(***************************************************************************)
(* assign: v in register dst.                                              *)
(***************************************************************************)
AssignInt(g, dst, n) ==
  LET low   == n % 4096
      carry == IF low >= 2048 THEN 1 ELSE 0
  IN  IF n \in IMM_MIN..IMM_MAX THEN Emit(g, "addi", <<dst, zero>>, n)
      ELSE Emit(Emit(g, "lui", <<dst>>, n \div 4096 + carry), "addi", <<dst, dst>>, low - 4096 * carry)

AssignFloat(g, dst, h) ==
  LET temp == get_temp(g, FALSE, FALSE)
      g1 == [g EXCEPT !.local_floats = Append(@, h)]
  IN  Emit(Emit(g1, "lla", <<temp>>, Len(g1.local_floats)), "flw", <<dst, temp>>, 0)

\* A gep is taken to be that of the first element; an unknown base gets offset 0.
AssignGep(g, dst, base) ==
  LET g1 == [g EXCEPT !.stack_mapping = @ @@ (base :> 0)]
  IN  IF base[1] = "global" THEN Emit(g, "la", <<dst>>, base)
      ELSE Emit(g1, "addi", <<dst, s0>>, g1.stack_mapping[base])

AssignRegister(g, dst, v) ==
  LET src  == mapped(g, v)
      kept == Key(src) \in g.fresh /\ ~has_fcalls
      bit  == get_size(get_type(v)) = 1 /\ ~dst.f /\ ~dst.d
  IN  IF Key(src) = Key(dst) /\ kept THEN g
      ELSE IF kept \/ bit THEN Emit(g, IF dst.f THEN "fmv.s" ELSE "mv", <<dst, src>>, 0)
      ELSE Emit(g, IF dst.f THEN "flw" ELSE IF dst.d THEN "ld" ELSE "lw", <<dst, s0>>, Slot(g, src))

assign(g, dst, v) ==
  CASE v[1] = "const"  -> AssignInt(g, dst, v[2])
    [] v[1] = "fconst" -> AssignFloat(g, dst, v[2])
    [] is_gep(v)       -> AssignGep(g, dst, gep_base(v))
    [] InReg(g, v) /\ ~is_gep(v) -> AssignRegister(g, dst, v)
    [] OTHER           -> Assert_(g, FALSE)

(***************************************************************************)
(* load and store.  An address is the slot of an alloca, a global, or a    *)
(* gep of one of them or of a pointer in a register; the instructions of a *)
(* gep with a variable index are followed by those of Element.             *)
(***************************************************************************)
Constant(ptr) == ~is_gep(ptr) \/ is_const(gep_index(ptr))
Base(ptr)     == IF is_gep(ptr) THEN gep_base(ptr) ELSE ptr
Offset(ptr)   == IF is_gep(ptr) THEN 4 * gep_index(ptr)[2] ELSE 0

\* r + 4 * index, in r; r and the register of the index are overwritten.
Element(g, r, ptr, index) ==
  LET n  == mapped(g, index)
      g1 == assign(assign(g, r, ptr), n, index)
  IN  Emit(Emit(g1, "slli", <<n, n>>, 2), "add", <<r, r, n>>, 0)

Stale(g, v) == [g EXCEPT !.fresh = @ \ {Key(mapped(g, v))}]

load(g, i) ==
  LET ptr   == i.operands[1]
      base  == Base(ptr)
      dest  == mapped(g, i.value)
      addr  == get_temp(g, FALSE, TRUE)
      Read(g1, r, offset) == Emit(g1, IF is_float_type(get_type(i.value)) THEN "flw" ELSE "lw", <<dest, r>>, offset)
      onStack == base \in DOMAIN g.stack_mapping
  IN  CASE Constant(ptr) /\ onStack -> save(Read(g, s0, Offset(ptr) + g.stack_mapping[base]), dest)
        [] Constant(ptr) /\ ~onStack /\ base[1] = "global" ->
             save(Read(Emit(g, "la", <<addr>>, base), addr, Offset(ptr)), dest)
        [] Constant(ptr) /\ is_gep(ptr) /\ ~onStack /\ InReg(g, base) ->
             save(Read(g, mapped(g, base), Offset(ptr)), dest)
        [] ~Constant(ptr) /\ onStack -> save(Read(g, mapped(g, ptr), g.stack_mapping[base] + 16), dest)
        [] ~Constant(ptr) /\ ~onStack /\ InReg(g, base) ->
             LET g1 == Read(Element(g, mapped(g, base), base, gep_index(ptr)), mapped(g, base), 0)
             IN  save(Stale(Stale(g1, base), gep_index(ptr)), dest)
        [] ~Constant(ptr) /\ ~onStack /\ ~InReg(g, base) ->
             save(Stale(Read(Element(g, addr, ptr, gep_index(ptr)), addr, 0), gep_index(ptr)), dest)
        [] OTHER -> Assert_(g, FALSE)

\* rval, which is in reg, goes to lval.
Stored(g, reg, rval, lval) ==
  LET base  == Base(lval)
      addr  == get_temp(g, FALSE, TRUE)
      Write(g1, r, offset) == Emit(g1, IF is_float_type(get_type(rval)) THEN "fsw" ELSE "sw", <<reg, r>>, offset)
      onStack == base \in DOMAIN g.stack_mapping
  IN  CASE Constant(lval) /\ onStack -> Write(g, s0, Offset(lval) + g.stack_mapping[base])
        [] Constant(lval) /\ ~onStack /\ base[1] = "global" -> Write(Emit(g, "la", <<addr>>, base), addr, Offset(lval))
        [] ~Constant(lval) /\ onStack -> Write(g, mapped(g, lval), g.stack_mapping[base] + 16)
        [] ~Constant(lval) /\ ~onStack /\ InReg(g, base) ->
             LET g1 == assign(Element(g, mapped(g, base), base, gep_index(lval)), reg, rval)
             IN  Stale(Stale(Write(g1, mapped(g, base), 0), base), gep_index(lval))
        [] ~Constant(lval) /\ ~onStack /\ ~InReg(g, base) ->
             Write(Element(g, addr, lval, gep_index(lval)), addr, 0)
        [] OTHER -> Assert_(g, FALSE)

\* The register of the value is free again.
store(g, i) ==
  LET rval == i.operands[1]
      reg  == OrTemp(g, rval)
  IN  [Stored(Erase(assign(g, reg, rval), reg), reg, rval, i.operands[2]) EXCEPT !.free_regs = @ \cup {Key(reg)}]

\* With a variable index, s0 - 16 + 4 * index: the base is left to the access.
gep(g, i) ==
  LET n    == mapped(g, Last(i.operands))
      g1   == [assign(g, n, Last(i.operands)) EXCEPT !.wide = @ \cup {i.value}]
      dest == [mapped(g, i.value) EXCEPT !.d = TRUE]
      temp == get_temp(g, FALSE, FALSE)
      g2   == Emit(Emit(g1, "slli", <<dest, n>>, 2), "addi", <<temp, s0>>, -16)
  IN  IF is_const(Last(i.operands)) THEN g
      ELSE IF n.id = -1 THEN Assert_(g, FALSE)
      ELSE Emit(g2, "add", <<dest, dest, temp>>, 0)

branch(g, i) ==
  LET cond == i.operands[1]
  IN  IF Len(i.operands) = 1 THEN Emit(g, "j", << >>, i.operands[1])
      ELSE Emit(Emit(g, "bnez", <<mapped(g, cond)>>, i.operands[2]), "j", << >>, i.operands[3])

sext(g, i) ==
  LET dest == mapped(g, i.value)
      g1 == assign(Erase(g, dest), dest, i.operands[1])
  IN  save(Emit(Emit(g1, "andi", <<dest, dest>>, 255), "sext.w", <<dest, dest>>, 0), dest)

\* The second operand of a comparison, and what follows; the result of icmp is not saved.
Compared_(g, i, dest) ==
  LET r  == OrTemp(g, i.operands[2])
      Two(op)         == Emit(assign(g, r, i.operands[2]), op, <<dest, dest, r>>, 0)
      Then(g1, op, x) == Emit(g1, op, <<dest, dest>>, x)
  IN  CASE i.op = "eq" -> Then(Two("sub"), "seqz", 0)
        [] i.op = "ne" -> Then(Two("sub"), "snez", 0)
        [] i.op = "ge" -> Then(Two("slt"), "xori", 1)
        [] i.op = "le" -> Then(Two("sgt"), "xori", 1)
        [] i.op = "gt" -> Two("sgt")
        [] i.op = "lt" -> Two("slt")
icmp(g, i) ==
  LET dest == mapped(g, i.value)
  IN  Compared_(assign(Erase(g, dest), dest, i.operands[1]), i, dest)

FCompared(g, i, dest, l) ==
  LET r  == OrTemp(g, i.operands[2])
      g1 == [assign(g, r, i.operands[2]) EXCEPT !.free_regs = @ \cup {Key(l)}]
      op == [feq |-> "feq.s", fne |-> "feq.s", fge |-> "fge.s", fgt |-> "fgt.s", fle |-> "fle.s", flt |-> "flt.s"]
      g2 == Emit(g1, op[i.op], <<dest, l, r>>, 0)
  IN  save(Emit(g2, IF i.op = "fne" THEN "seqz" ELSE "snez", <<dest, dest>>, 0), dest)
fcmp(g, i) ==
  LET dest == mapped(g, i.value)
      g1 == Erase(g, dest)
      l  == OrTemp(g1, i.operands[1])
  IN  FCompared(Erase(assign(g1, l, i.operands[1]), l), i, dest, l)

\* dest = v + n for add and v - n for sub.
bin_inst_imm(g, i, v, n) ==
  LET dest == mapped(g, i.value)
      g1 == assign(Erase(g, dest), dest, v)
  IN  save(Emit(g1, "addi", <<dest, dest>>, IF i.op = "add" THEN n ELSE -n), dest)

Opcode == [add |-> "add", sub |-> "sub", mul |-> "mul", sdiv |-> "div",
           fadd |-> "fadd.s", fsub |-> "fsub.s", fmul |-> "fmul.s", fdiv |-> "fdiv.s"]
BadShort(v) == is_const(v)
Short(v) == is_const(v) /\ v[2] \in IMM_MIN..IMM_MAX
bin_inst(g, i) ==
  LET l == i.operands[1]
      r == i.operands[2]
      dest == mapped(g, i.value)
      g1 == assign(Erase(g, dest), dest, l)
      rhs == OrTemp(g1, r)
  IN  IF i.op \in {"add", "sub"} /\ Short(r) THEN bin_inst_imm(g, i, l, r[2])
      ELSE IF i.op = "add" /\ Short(l) THEN bin_inst_imm(g, i, r, l[2])
      ELSE save(Emit(assign(g1, rhs, r), Opcode[i.op], <<dest, dest, rhs>>, 0), dest)

fptosi(g, i) ==
  LET r    == OrTemp(g, i.operands[1])
      dest == mapped(g, i.value)
      g1   == Emit(assign(g, r, i.operands[1]), "fcvt.w.s", <<dest, r>>, 0)
  IN  save(Emit(g1, "sext.w", <<dest, dest>>, 0), dest)

\* The operand is taken to be in its register.
sitofp(g, i) ==
  LET v    == i.operands[1]
      r    == IF is_const(v) THEN get_temp(g, FALSE, FALSE) ELSE mapped(g, v)
      g1   == IF is_const(v) THEN assign(g, r, v) ELSE g
      dest == mapped(g, i.value)
  IN  Erase(save(Emit(g1, "fcvt.s.w", <<dest, r>>, 0), dest), dest)

(***************************************************************************)
(* call: the arguments in the argument registers, from the slots; what a   *)
(* caller-saved register held is in its slot only.                         *)
(***************************************************************************)
Argument(c, k) ==
  LET Float(j) == is_float_type(get_type(c.operands[j]))
      same == {j \in 2..k : Float(j) = Float(k)}
  IN  Reg(args[Cardinality(same)], Float(k), is_pointer_type(get_type(c.operands[k])))

Pass(g, c, k) ==
  LET r  == Argument(c, k)
      g1 == Erase(g, r)
  IN  [assign(g1, r, c.operands[k]) EXCEPT !.fresh = @ \ {Key(r)}]

\* The result goes to its register or its slot.
Returned_(g, v) ==
  LET r  == mapped(g, v)
      g1 == IF r.f THEN Emit(g, "fmv.s", <<r, fa0>>, 0) ELSE Emit(g, "mv", <<r, a0>>, 0)
  IN  CASE get_type(v) = VoidType -> g
        [] get_type(v) # VoidType /\ InReg(g, v) -> save(g1, r)
        [] get_type(v) # VoidType /\ ~InReg(g, v) /\ v \in DOMAIN g.stack_mapping ->
             Emit(g, "sw", <<a0, sp>>, g.stack_mapping[v])
        [] OTHER -> Assert_(g, FALSE)
call(g, c) ==
  LET passed == FoldLeft(LAMBDA g1, k : Pass(g1, c, k), g, [j \in 1..(Len(c.operands) - 1) |-> j + 1])
  IN  Returned_([Emit(passed, "call", << >>, c.operands[1]) EXCEPT !.fresh = @ \ caller_saved_regs], c.value)
-----------------------------------------------------------------------------
SizeOf(t) == IF is_pointer_type(t) THEN 8 ELSE 4

BadSaved(g, v) == [g EXCEPT !.s0_offset = (g.reg_mapping[v] :> -g.stack_size) @@ @,
                            !.stack_size = @ + SizeOf(get_type(v))]
\* A slot for the register of v; the slot of the last value of a register is its slot.
Saved(g, v) ==
  LET size == g.stack_size + SizeOf(get_type(v))
  IN  [g EXCEPT !.stack_size = size, !.s0_offset = (g.reg_mapping[v] :> -size) @@ @]

\* The values are visited in the order of their addresses.
allocate_stack(g, addresses) ==
  LET visited == SelectSeq(addresses, LAMBDA v : InReg(g, v) /\ g.reg_mapping[v] \in caller_saved_regs)
  IN  IF has_fcalls THEN FoldLeft(Saved, g, visited) ELSE g

\* Registers that hold an argument go to their slots.
push_caller_saved_regs(g) ==
  LET pushed == {r \in DOMAIN g.s0_offset : r \in g.fresh}
      Push1(g1, r) ==
        LET d == \E v \in g.wide : g.reg_mapping[v] = r
        IN  Emit(g1, IF r.f THEN "fsw" ELSE IF d THEN "sd" ELSE "sw", <<Reg(r.id, r.f, d), s0>>, g.s0_offset[r])
  IN  FoldLeft(Push1, g, SelectSeq(Ordered, LAMBDA r : r \in pushed))

\* What is saved at the top of the frame, from the top down.
Header == IF has_fcalls THEN <<ra, s0>> ELSE <<s0>>
Headers(g, op) ==
  FoldLeft(LAMBDA g1, k : Emit(g1, op, <<Header[k], sp>>, g.stack_size - 8 * k), g, [k \in DOMAIN Header |-> k])

fun_prologue(g) ==
  LET g1 == Headers(Emit(g, "addi", <<sp, sp>>, -g.stack_size), "sd")
      g2 == Emit(g1, "addi", <<s0, sp>>, g.stack_size)
  IN  IF has_fcalls THEN push_caller_saved_regs(g2) ELSE g2

fun_epilogue(g, i) ==
  LET v  == i.operands[1]
      r  == OrTemp(g, v)
      g1 == assign(g, r, v)
      g2 == IF i.operands = << >> THEN g
            ELSE IF is_float_type(get_type(v)) THEN Emit(g1, "fmv.s", <<fa0, r>>, 0) ELSE Emit(g1, "mv", <<a0, r>>, 0)
  IN  Emit(Emit(Headers(g2, "ld"), "addi", <<sp, sp>>, g.stack_size), "jr", <<ra>>, 0)

\* A parameter the allocator passed over is mapped to no register by looking it up.
gen_function(reg_mappings, stack_mappings, size, addresses) ==
  LET params   == Range(f_.args)
      mappings == reg_mappings @@ [v \in params |-> Key(Reg(-1, FALSE, FALSE))]
      fresh    == {mappings[v] : v \in params}
      all      == {[id |-> n, f |-> c] : n \in temps \cup Range(args), c \in BOOLEAN}
      g == [reg_mapping |-> mappings, stack_mapping |-> stack_mappings,
            wide |-> {v \in params : is_pointer_type(get_type(v))},
            free_regs |-> all \ fresh, fresh |-> fresh, s0_offset |-> << >>, stack_size |-> size,
            text |-> << >>, label |-> << >>, local_floats |-> << >>, aborted |-> FALSE]
  IN  fun_prologue(allocate_stack(g, addresses))

gen_instr(g, i) ==
  CASE i.op = "ret"  -> fun_epilogue(g, i)
    [] i.op = "call" -> call(g, i)
    [] i.op \in {"alloca", "phi"} -> g
    [] i.op \in BinaryOps \cup FBinaryOps -> bin_inst(g, i)
    [] i.op = "fptosi" -> fptosi(g, i)
    [] i.op = "sitofp" -> sitofp(g, i)
    [] i.op \in CmpOps  -> icmp(g, i)
    [] i.op \in FCmpOps -> fcmp(g, i)
    [] i.op = "zext" -> sext(g, i)
    [] i.op = "br"   -> branch(g, i)
    [] i.op = "getelementptr" -> gep(g, i)
    [] i.op = "store" -> store(g, i)
    [] i.op = "load"  -> load(g, i)
=============================================================================
