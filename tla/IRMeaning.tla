------------------------------- MODULE IRMeaning -------------------------------
(***************************************************************************)
(* What a function of light IR without phis does: the reference generated  *)
(* code is compared with.  A function f has its args, blocks and code as   *)
(* module IRBuilder makes them, and the sizes of the globals.              *)
(*                                                                         *)
(* The execution m is a record: block, line and env; the cells mem and how *)
(* many there are; in and out, what is left to be read and the calls made; *)
(* result, and running.                                                    *)
(***************************************************************************)
EXTENDS Numbers, IRBuilder

Symbol ==
  [add |-> "+", sub |-> "-", mul |-> "*", sdiv |-> "/", fadd |-> "+", fsub |-> "-", fmul |-> "*", fdiv |-> "/",
   eq |-> "==", ne |-> "!=", gt |-> ">", ge |-> ">=", lt |-> "<", le |-> "<=",
   feq |-> "==", fne |-> "!=", fgt |-> ">", fge |-> ">=", flt |-> "<", fle |-> "<="]

Words(t) == IF is_array_type(t) THEN t[3] ELSE 1

\* A bit that is set is minus one to sitofp.
Computed(op, x, bit) ==
  CASE op \in BinaryOps  -> IntArithmetic(Symbol[op], x[1], x[2])
    [] op \in FBinaryOps -> FloatArithmetic(Symbol[op], x[1], x[2])
    [] op \in CmpOps \cup FCmpOps -> Compare(Symbol[op], x[1], x[2])
    [] op = "zext"   -> x[1]
    [] op = "sitofp" -> ToFloat(IF bit THEN -x[1] ELSE x[1])
    [] op = "fptosi" -> ToInt(x[1])
    [] op = "getelementptr" -> x[1] + Last(x)

\* What an observer sees of a call: an array by what it holds.
Shown(name, x, mem) ==
  IF name = "outputArray" THEN <<name, [i \in 1..x[2] |-> mem[x[1] + i - 1]]>> ELSE <<name, x>>

Execute(f, i, m) ==
  LET Value(v) == IF v[1] \in {"const", "fconst"} THEN v[2] ELSE IF v \in DOMAIN m.env THEN m.env[v] ELSE 0
      x    == [k \in DOMAIN i.operands |-> Value(i.operands[k])]
      Step(n) == [n EXCEPT !.line = @ + 1]
      Give(r) == Step([m EXCEPT !.env = (i.value :> r) @@ @])
      Goto(bb) == [m EXCEPT !.block = bb, !.line = 1]
      void == get_type(i.value) = VoidType
      name == i.operands[1][2]
      called == [m EXCEPT !.out = Append(@, Shown(name, Tail(x), m.mem))]
  IN  CASE i.op = "alloca" ->
             [Give(Len(m.mem) + 1) EXCEPT !.mem = @ \o [k \in 1..Words(element_type(get_type(i.value))) |-> 0]]
        [] i.op = "load"  -> Give(m.mem[x[1]])
        [] i.op = "store" -> Step([m EXCEPT !.mem[x[2]] = x[1]])
        [] i.op = "br"    -> Goto(IF Len(x) = 1 THEN i.operands[1] ELSE i.operands[IF x[1] # 0 THEN 2 ELSE 3])
        [] i.op = "ret"   -> [m EXCEPT !.running = FALSE, !.result = IF x = << >> THEN 0 ELSE x[1]]
        [] i.op = "call" /\ name = "neg_idx_except" -> [called EXCEPT !.running = FALSE]
        [] i.op = "call" /\ name # "neg_idx_except" /\ void  -> Step(called)
        [] i.op = "call" /\ ~void ->
             Step([called EXCEPT !.env = (i.value :> Head(m.in)) @@ @, !.in = Tail(@)])
        [] OTHER -> Give(Computed(i.op, x, get_type(i.operands[1]) = Int1))

RECURSIVE Run(_, _)
Run(f, m) == IF m.running THEN Run(f, Execute(f, f.code[m.block][m.line], m)) ELSE m

\* The globals come first, in the order of f.globals, then what arguments point to.
Meaning(f, args, pointed, input) ==
  LET Cell(k) == 1 + FoldLeft(LAMBDA n, g : n + Words(element_type(get_type(g))), 0, SubSeq(f.globals, 1, k - 1))
      globals == [i \in 1..(Cell(Len(f.globals) + 1) - 1) |-> 0]
      ArgValue(k) == IF is_pointer_type(get_type(f.args[k])) THEN Len(globals) + 1 ELSE args[k]
      env == [v \in Range(f.globals) |-> Cell(CHOOSE k \in DOMAIN f.globals : f.globals[k] = v)]
             @@ [v \in Range(f.args) |-> ArgValue(CHOOSE k \in DOMAIN f.args : f.args[k] = v)]
      end == Run(f, [block |-> f.blocks[1], line |-> 1, env |-> env, mem |-> globals \o pointed,
                     in |-> input, out |-> << >>, result |-> 0, running |-> TRUE])
  IN  [out |-> end.out, result |-> end.result, mem |-> SubSeq(end.mem, 1, Len(globals) + Len(pointed))]
=============================================================================
