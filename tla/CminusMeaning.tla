----------------------------- MODULE CminusMeaning -----------------------------
(***************************************************************************)
(* What a program means: the reference the compiled program is compared    *)
(* with.  It is the semantics of Documentations/common/cminusf.md, stated  *)
(* on the program as module SyntaxAnalyzer is given it.  Operands and      *)
(* arguments are evaluated from left to right.                             *)
(*                                                                         *)
(* The memory m of an execution is a record:                               *)
(*   program, scopes      what names stand for, the global scope first     *)
(*   mem                  the cells                                        *)
(*   in, out              what is left to read, and what was printed       *)
(*   result, returned     of the function being executed                   *)
(*   halted               a negative index has ended the program           *)
(* A name stands for a type, its first cell and whether it is an array.    *)
(***************************************************************************)
EXTENDS Numbers, SequencesExt

Lookup(m, x) ==
  LET i == CHOOSE j \in DOMAIN m.scopes : /\ x \in DOMAIN m.scopes[j]
                                          /\ \A k \in (j + 1)..Len(m.scopes) : x \notin DOMAIN m.scopes[k]
  IN  m.scopes[i][x]

Name(m, x, meaning) == [m EXCEPT !.scopes[Len(m.scopes)] = (x :> meaning) @@ @]
Allocate(m, x, t, n, array) ==
  [Name(m, x, [type |-> t, cell |-> Len(m.mem) + 1, array |-> array]) EXCEPT
     !.mem = @ \o [i \in 1..n |-> 0]]
Declare(m, d) == IF Len(d) = 4 THEN Allocate(m, d[3], d[2], d[4], TRUE) ELSE Allocate(m, d[3], d[2], 1, FALSE)

\* The value v of type t as a value of type u.
As(v, t, u) == IF t = u THEN v ELSE IF u = "float" THEN ToFloat(v) ELSE ToInt(v)

Give(m, v, t) == [m |-> m, v |-> v, t |-> t]
Put(m, x) == IF m.halted THEN m ELSE [m EXCEPT !.out = Append(@, x)]
Halt(m) == [Put(m, <<"negative index">>) EXCEPT !.halted = TRUE]

RECURSIVE Eval(_, _), Evals(_, _, _), Exec(_, _), Run(_, _)

\* The cell an assignable expression names, as a value; i is the index.
ElementAt(a, i) ==
  LET index == As(i.v, i.t, "int")
  IN  IF index < 0 THEN Give(Halt(i.m), a.cell, a.type) ELSE Give(i.m, a.cell + index, a.type)
Locate(e, m) ==
  LET a == Lookup(m, e[2])
  IN  IF e[1] = "var" THEN Give(m, a.cell, a.type) ELSE ElementAt(a, Eval(e[3], m))

Write(m, cell, v) == IF m.halted THEN m ELSE [m EXCEPT !.mem[cell] = v]

Operate(op, l, r) ==
  LET t == IF l.t = "int" /\ r.t = "int" THEN "int" ELSE "float"
      a == As(l.v, l.t, t)
      b == As(r.v, r.t, t)
  IN  CASE op \in {"+", "-", "*", "/"} /\ t = "int" -> Give(r.m, IntArithmetic(op, a, b), "int")
        [] op \in {"+", "-", "*", "/"} /\ t = "float" -> Give(r.m, FloatArithmetic(op, a, b), "float")
        [] OTHER -> Give(r.m, Compare(op, a, b), "int")

Array(e, m) == e[1] = "var" /\ Lookup(m, e[2]).array

\* The values of the expressions es, in order.
Evals(es, m, given) ==
  LET Rest(r) == Evals(Tail(es), r.m, Append(given, r))
  IN  IF es = << >> THEN [m |-> m, given |-> given]
      ELSE IF Array(Head(es), m) THEN Rest(Give(m, Lookup(m, Head(es)[2]).cell, "array"))
      ELSE Rest(Eval(Head(es), m))

\* A parameter is a variable of its own; an array parameter names the caller's cells.
Bind(m, param, r) ==
  IF Len(param) = 3 THEN Name(m, param[2], [type |-> param[1], cell |-> r.v, array |-> TRUE])
  ELSE LET m1 == Allocate(m, param[2], param[1], 1, FALSE)
       IN  Write(m1, Len(m1.mem), As(r.v, r.t, param[1]))

Enter(f, given, m) ==
  FoldLeft(LAMBDA n, i : Bind(n, f[4][i], given[i]),
           [m EXCEPT !.scopes = <<Head(m.scopes), << >>>>, !.returned = FALSE], [i \in DOMAIN given |-> i])

CallOf(f, given, m) ==
  LET Back(n) == Give([n EXCEPT !.scopes = m.scopes, !.returned = FALSE],
                      IF f[2] = "void" THEN 0 ELSE As(n.result.v, n.result.t, f[2]), f[2])
  IN  Back(Run(<<f[5]>>, Enter(f, given, m)))

CallRuntime(name, given, m) ==
  CASE name = "input" -> Give([m EXCEPT !.in = Tail(@)], Head(m.in), "int")
    [] name = "output" -> Give(Put(m, <<"int", As(given[1].v, given[1].t, "int")>>), 0, "void")
    [] name = "outputFloat" -> Give(Put(m, <<"float", As(given[1].v, given[1].t, "float")>>), 0, "void")
    [] name = "outputArray" ->
         Give(Put(m, <<"array", SubSeq(m.mem, given[1].v, given[1].v + given[2].v - 1)>>), 0, "void")

FunctionsNamed(m, x) == {d \in Range(m.program) : d[1] = "fun" /\ d[3] = x}

CallAny(x, r) ==
  LET functions == FunctionsNamed(r.m, x)
  IN  IF functions = {} THEN CallRuntime(x, r.given, r.m) ELSE CallOf(CHOOSE f \in functions : TRUE, r.given, r.m)

Read(l) == Give(l.m, l.m.mem[l.v], l.t)
Assign(l, r) == LET v == As(r.v, r.t, l.t) IN Give(Write(r.m, l.v, v), v, l.t)

Eval(e, m) ==
  LET Assigned(l) == Assign(l, Eval(e[3], l.m))
      Operated(l) == Operate(e[1], l, Eval(e[3], l.m))
  IN  CASE e[1] = "num"   -> Give(m, e[2], "int")
        [] e[1] = "float" -> Give(m, e[2], "float")
        [] e[1] = "paren" -> Eval(e[2], m)
        [] e[1] \in {"var", "elem"} -> Read(Locate(e, m))
        [] e[1] = "="    -> Assigned(Locate(e[2], m))
        [] e[1] = "call" -> CallAny(e[2], Evals(e[3], m, << >>))
        [] OTHER         -> Operated(Eval(e[2], m))

\* The statements for what c is, if it is not zero, or the others.
Choose(c, yes, no) == Run(IF c.v # 0 THEN yes ELSE no, c.m)
Result(r) == [r.m EXCEPT !.result = [v |-> r.v, t |-> r.t], !.returned = TRUE]

Exec(s, m) ==
  CASE s[1] = "expr"  -> Eval(s[2], m).m
    [] s[1] = "empty" -> m
    [] s[1] = "block" ->
         LET inside == FoldLeft(Declare, [m EXCEPT !.scopes = Append(@, << >>)], s[2])
         IN  [Run(s[3], inside) EXCEPT !.scopes = m.scopes]
    [] s[1] = "if"    -> Choose(Eval(s[2], m), <<s[3]>>, IF Len(s) = 4 THEN <<s[4]>> ELSE << >>)
    [] s[1] = "while" -> Choose(Eval(s[2], m), <<s[3], s>>, << >>)
    [] s[1] = "return" -> IF Len(s) = 1 THEN [m EXCEPT !.returned = TRUE] ELSE Result(Eval(s[2], m))

\* Statements until one of them returns or halts.
Run(stmts, m) ==
  IF stmts = << >> \/ m.returned \/ m.halted THEN m ELSE Run(Tail(stmts), Exec(Head(stmts), m))

Meaning(program, input) ==
  LET empty == [program |-> program, scopes |-> << << >> >>, mem |-> << >>, in |-> input, out |-> << >>,
                result |-> [v |-> 0, t |-> "int"], returned |-> FALSE, halted |-> FALSE]
      IsVariable(d) == d[1] = "vardecl"
      main == CHOOSE d \in Range(program) : d[1] = "fun" /\ d[3] = "main"
      Observed(end) == [out |-> end.m.out, result |-> IF end.m.halted THEN 0 ELSE end.v]
  IN  Observed(CallOf(main, << >>, FoldLeft(Declare, empty, SelectSeq(program, IsVariable))))
=============================================================================
