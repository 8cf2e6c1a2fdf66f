------------------------------- MODULE IRBuilder -------------------------------
(***************************************************************************)
(* Types and values of the light IR, and the constructors of instructions, *)
(* which append to the block the builder inserts into.                     *)
(*                                                                         *)
(* A value is a triple of its kind, its name or number and its type.  The  *)
(* state s of the builder is a record:                                     *)
(*   globals, blocks      global variables; the blocks of each function    *)
(*   code, pre, succ      instructions of each block, and its neighbours   *)
(*   function, insert     the function and block being filled              *)
(*   fresh, new           the next number, and the value made last         *)
(*   aborted              an assertion failed                              *)
(* and what the visitor keeps (module CminusfBuilder).                     *)
(***************************************************************************)
EXTENDS Integers, TLC, SequencesExt

VoidType  == <<"void">>
LabelType == <<"label">>
Int1      == <<"i1">>
Int32     == <<"i32">>
FloatType == <<"float">>
PointerType(t)  == <<"pointer", t>>
ArrayType(t, n) == <<"array", t, n>>
FunctionType(result, params) == <<"function", result, params>>

is_integer_type(t) == t \in {Int1, Int32}
is_float_type(t)   == t = FloatType
is_pointer_type(t) == t[1] = "pointer"
is_array_type(t)   == t[1] = "array"
element_type(t)    == t[2]

\* As far as the builder asks: what can be a condition.
get_size(t) == IF t = VoidType THEN 0 ELSE IF t = Int1 THEN 1 ELSE 4

ConstInt(n) == <<"const", n, Int32>>
ConstFP(h)  == <<"fconst", h, FloatType>>
get_type(v) == v[3]

Assert_(s, b) == IF b THEN s ELSE [s EXCEPT !.aborted = TRUE]

\* An instruction at the end of the block; its value is new.
AddInstruction(s, op, operands, type) ==
  LET v == <<"instr", s.fresh, type>>
  IN  [s EXCEPT !.fresh = @ + 1, !.new = v,
                !.code[s.insert] = Append(@, [value |-> v, op |-> op, operands |-> operands])]

set_insert_point(s, bb) == [s EXCEPT !.insert = bb]

\* A block at the end of the function; it is new.
CreateBasicBlock(s) ==
  LET bb == <<"bb", s.fresh, LabelType>>
  IN  [s EXCEPT !.fresh = @ + 1, !.new = bb,
                !.blocks[s.function] = Append(@, bb),
                !.code = @ @@ (bb :> << >>), !.pre = @ @@ (bb :> << >>), !.succ = @ @@ (bb :> << >>)]

has_terminator(s, bb) == s.code[bb] # << >> /\ Last(s.code[bb]).op \in {"br", "ret"}

BinaryOps  == {"add", "sub", "mul", "sdiv"}
FBinaryOps == {"fadd", "fsub", "fmul", "fdiv"}
create_binary(s, op, l, r) ==
  AddInstruction(s, op, <<l, r>>, IF op \in BinaryOps THEN Int32 ELSE FloatType)

CmpOps  == {"eq", "ne", "gt", "ge", "lt", "le"}
FCmpOps == {"feq", "fne", "fgt", "fge", "flt", "fle"}
create_cmp(s, op, l, r)  == AddInstruction(s, op, <<l, r>>, Int1)
create_fcmp(s, op, l, r) == AddInstruction(s, op, <<l, r>>, Int1)

create_call(s, func, args) ==
  AddInstruction(Assert_(s, Len(args) = Len(get_type(func)[3])), "call", <<func>> \o args, get_type(func)[2])

Edge(s, to) ==
  [s EXCEPT !.pre[to] = Append(@, s.insert), !.succ[s.insert] = Append(@, to)]
create_br(s, to) == AddInstruction(Edge(s, to), "br", <<to>>, VoidType)
create_cond_br(s, cond, if_true, if_false) ==
  AddInstruction(Edge(Edge(s, if_false), if_true), "br", <<cond, if_true, if_false>>, VoidType)

create_ret(s, v)   == AddInstruction(s, "ret", <<v>>, VoidType)
create_void_ret(s) == AddInstruction(s, "ret", << >>, VoidType)

\* What the indices after the first lead to.
GepType(ptr, idxs) ==
  LET t == element_type(get_type(ptr))
  IN  IF is_array_type(t) /\ Len(idxs) > 1 THEN element_type(t) ELSE t
create_gep(s, ptr, idxs) ==
  LET t == element_type(get_type(ptr))
  IN  AddInstruction(Assert_(s, is_array_type(t) \/ is_integer_type(t) \/ is_float_type(t)),
                     "getelementptr", <<ptr>> \o idxs, PointerType(GepType(ptr, idxs)))

create_store(s, v, ptr) == AddInstruction(s, "store", <<v, ptr>>, VoidType)
create_load(s, ptr) ==
  LET s1 == Assert_(s, is_pointer_type(get_type(ptr)))
  IN  AddInstruction(s1, "load", <<ptr>>, element_type(get_type(ptr)))
create_alloca(s, t) == AddInstruction(s, "alloca", << >>, PointerType(t))

create_zext(s, v, t)   == AddInstruction(s, "zext", <<v>>, t)
create_sitofp(s, v, t) == AddInstruction(s, "sitofp", <<v>>, t)
create_fptosi(s, v, t) == AddInstruction(s, "fptosi", <<v>>, t)
=============================================================================
