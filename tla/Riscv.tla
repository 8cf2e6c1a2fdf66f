---------------------------------- MODULE Riscv ---------------------------------
(***************************************************************************)
(* A processor that executes the text of a function, instruction by        *)
(* instruction.  Registers hold integers, floats included, in halves;      *)
(* memory has cells of four bytes, addressed by their lowest byte, and a   *)
(* double word takes two.  What nothing has written reads as junk.         *)
(*                                                                         *)
(* The state p is a record: x and mem, what was written to registers and   *)
(* memory; ip; in and out, what is left to be read and the calls made;     *)
(* running.                                                                *)
(***************************************************************************)
EXTENDS IRMeaning

GlobalsAt == 1000
PointedAt == 2000
StackAt   == 5000
FloatsAt  == 9000
ReturnTo  == 77
FrameOf   == 66

Held(p, k, junk) == IF k.id = 0 /\ ~k.f THEN 0 ELSE IF k \in DOMAIN p.x THEN p.x[k] ELSE junk
Cell(p, a, junk) == IF a \in DOMAIN p.mem THEN p.mem[a] ELSE junk
Forgotten(h, S) == [k \in DOMAIN h \ S |-> h[k]]

\* The upper half of a double word.
Sign(n) == IF n < 0 THEN -1 ELSE 0

Int3 == [add |-> "+", sub |-> "-", mul |-> "*", div |-> "/"]
Float3 == ("fadd.s" :> "+") @@ ("fsub.s" :> "-") @@ ("fmul.s" :> "*") @@ ("fdiv.s" :> "/")
Test3 == ("slt" :> "<") @@ ("sgt" :> ">") @@ ("feq.s" :> "==") @@ ("fge.s" :> ">=") @@ ("fgt.s" :> ">")
         @@ ("fle.s" :> "<=") @@ ("flt.s" :> "<")

\* What an instruction that only computes leaves in its first register; a and b are the others.
Result(op, a, b, n) ==
  CASE op \in DOMAIN Int3   -> IntArithmetic(Int3[op], a, b)
    [] op \in DOMAIN Float3 -> FloatArithmetic(Float3[op], a, b)
    [] op \in DOMAIN Test3  -> Compare(Test3[op], a, b)
    [] op = "addi" -> a + n
    [] op = "lui"  -> 4096 * n
    [] op \in {"mv", "fmv.s", "sext.w"} -> a
    [] op = "andi" -> a % (n + 1)
    [] op = "xori" -> IF a % 2 = 0 THEN a + 1 ELSE a - 1
    [] op = "slli" -> a * 2 ^ n
    [] op = "seqz" -> Compare("==", a, 0)
    [] op = "snez" -> Compare("!=", a, 0)
    [] op = "fcvt.s.w" -> ToFloat(a)
    [] op = "fcvt.w.s" -> ToInt(a)
    [] op = "lla"  -> FloatsAt + 4 * n

\* The address of a global, which follow each other.
GlobalAddress(globals, v) ==
  LET k == CHOOSE j \in DOMAIN globals : globals[j] = v
  IN  GlobalsAt + 4 * FoldLeft(LAMBDA n, g : n + Words(element_type(get_type(g))), 0, SubSeq(globals, 1, k - 1))

\* The arguments of a call: of each class in order.
Passed(p, types, junk) ==
  [k \in DOMAIN types |->
     LET same == {j \in 1..k : is_float_type(types[j]) = is_float_type(types[k])}
     IN  Held(p, [id |-> 9 + Cardinality(same), f |-> is_float_type(types[k])], junk)]

\* A call may change every caller-saved register and what lies below the stack pointer.
Called(p, func, clobbered, junk) ==
  LET t     == get_type(func)
      name  == func[2]
      x     == Passed(p, t[3], junk)
      shown == IF name = "outputArray" THEN <<name, [i \in 1..x[2] |-> Cell(p, x[1] + 4 * (i - 1), junk)]>>
               ELSE <<name, x>>
      top   == Held(p, [id |-> 2, f |-> FALSE], junk)
      after == [p EXCEPT !.ip = @ + 1, !.out = Append(@, shown), !.x = Forgotten(@, clobbered),
                         !.mem = Forgotten(@, {a \in DOMAIN @ : a \in (StackAt - 1000)..(top - 1)})]
  IN  IF name = "neg_idx_except" THEN [after EXCEPT !.running = FALSE]
      ELSE IF t[2] = VoidType THEN after
      ELSE [after EXCEPT !.x = ([id |-> 10, f |-> is_float_type(t[2])] :> Head(p.in)) @@ @, !.in = Tail(@)]

\* The instruction at ip, in a text with its labels.
Step(p, text, label, globals, clobbered, junk) ==
  LET i    == text[p.ip]
      V(k) == Held(p, i.rs[k], junk)
      a    == V(2) + i.x
      low  == Cell(p, a, junk)
      next == [p EXCEPT !.ip = @ + 1]
      Gets(n) == [next EXCEPT !.x = (i.rs[1] :> n) @@ @]
      Holds(h) == [next EXCEPT !.mem = h @@ @]
  IN  CASE i.op \in {"sw", "fsw"} -> Holds(a :> V(1))
        [] i.op = "sd" -> Holds((a :> V(1)) @@ ((a + 4) :> Sign(V(1))))
        [] i.op \in {"lw", "flw"} -> Gets(low)
        [] i.op = "ld" -> Gets(IF Cell(p, a + 4, junk) = Sign(low) THEN low ELSE junk)
        [] i.op = "la" -> Gets(GlobalAddress(globals, i.x))
        [] i.op = "j"  -> [p EXCEPT !.ip = label[i.x]]
        [] i.op = "bnez" -> IF V(1) # 0 THEN [p EXCEPT !.ip = label[i.x]] ELSE next
        [] i.op = "jr"   -> [p EXCEPT !.running = FALSE]
        [] i.op = "call" -> Called(p, i.x, clobbered, junk)
        [] OTHER -> Gets(Result(i.op, IF Len(i.rs) > 1 THEN V(2) ELSE 0, IF Len(i.rs) > 2 THEN V(3) ELSE 0, i.x))
=============================================================================
