------------------------------ MODULE MCFrontEnd ------------------------------
(***************************************************************************)
(* Programs for the front end: precedences and conversions, names that     *)
(* shadow each other, arrays, branches, loops and returns, calls.          *)
(***************************************************************************)
EXTENDS FrontEnd, SourcePrograms

a == V("a")   b == V("b")   i == V("i")   x == V("x")   y == V("y")

\* Operators of every level, on integers, floats, comparisons and both.
Expressions == <<Main(<<IntV("a"), IntV("b"), FltV("x")>>, <<
  Do(a, Input), Do(b, Input), Do(x, F(3)),
  Show(a -- b -- N(1) ++ a ** P(b ++ N(2))), Show(((a ++ b) // P(N(2))) ** N(3)),
  Show((a \prec b) ++ (b \prec a) ** N(2)), Show(<<"==", P(Set(a, b)), b>>),
  ShowF(x ** a -- F(1)), Show(a // x), ShowF(x // F(4)), Show(<<">=", x, a>>), Show(<<"!=", x, F(3)>>),
  Show(<<"<=", a, N(0)>>), Show(<<">", a, b>>), Do(x, a), ShowF(x), Do(a, F(5)), Show(a),
  R(x ++ F(1))>>)>>

\* A name is that of the innermost scope, a function that of the global one.
Names == <<IntV("a"), FltV("x"),
  Fun("int", "f", <<IntP("a"), <<"float", "x">>>>, <<IntV("b")>>, <<
    Do(b, a ++ x), Block(<<IntV("a"), FltV("b")>>, <<Do(a, N(7)), Do(b, F(1)), Show(a), ShowF(b)>>),
    <<"empty">>, Show(a), R(b)>>),
  Main(<<IntV("f"), IntV("b")>>, <<
    Do(a, N(1)), Do(x, Input), Do(V("f"), C("f", <<F(5), N(2)>>)), Show(V("f")),
    Block(<<IntV("a")>>, <<Do(a, Input), Do(b, a), Block(<< >>, << >>)>>),
    Show(a), ShowF(x), R(b)>>)>>

\* Arrays of both kinds, passed on, indexed by calls, elements and floats.
Arrays == <<IntsV("g", 3), FltsV("h", 2),
  Fun("int", "get", <<ArrP("v"), IntP("k")>>, << >>, <<R(E("v", V("k")))>>),
  Fun("void", "put", <<ArrP("v"), IntP("k"), <<"float", "e">>>>, << >>, <<
    Do(E("v", V("k")), V("e")), X(C("output", <<C("get", <<V("v"), V("k")>>)>>))>>),
  Main(<<IntsV("v", 3), IntV("i")>>, <<
    Do(i, Input), Do(E("g", N(0)), N(2)), Do(E("v", F(3)), i), Do(E("v", E("g", N(0))), N(1)),
    X(C("put", <<V("g"), E("v", N(2)), F(9)>>)), X(C("put", <<V("v"), C("get", <<V("v"), N(2)>>) -- N(1), i>>)),
    Do(E("h", N(1)), i ++ F(1)), ShowF(E("h", N(1))), X(C("outputArray", <<V("v"), N(3)>>)),
    X(C("outputArray", <<V("g"), N(2)>>)),
    Show(E("v", Set(i, N(1)))), Show(E("v", Input)), R(i)>>)>>

\* Branches that return and branches that do not.
Returns == <<
  Fun("int", "sign", <<IntP("a")>>, << >>, <<
    If(a \prec N(0), R(N(0) -- N(1))), If(a, B(<<Show(a), R(F(2))>>)), R(N(0))>>),
  Fun("float", "both", <<IntP("a")>>, << >>, <<
    IfElse(a \prec N(1), R(a), B(<<Do(a, a ++ N(1)), R(F(3))>>))>>),
  Fun("void", "maybe", <<IntP("a")>>, << >>, <<
    IfElse(a, B(<<If(N(1) \prec a, Leave)>>), Show(N(5))), IfElse(a \prec N(2), Show(a), Leave), Show(N(6))>>),
  Fun("void", "neither", <<<<"float", "x">>>>, << >>, <<IfElse(x, Leave, Leave)>>),
  Fun("int", "nested", <<IntP("a")>>, <<IntV("b")>>, <<
    Do(b, N(0)),
    If(a, B(<<If(N(1) \prec a, B(<<Do(b, a), R(N(9))>>)), Do(b, N(4))>>)),
    IfElse(b, Do(b, b ++ N(1)), R(N(8))), R(b)>>),
  Fun("int", "pick", <<ArrP("v"), IntP("a")>>, << >>, <<
    If(N(0) \prec a, R(E("v", a))), If(E("v", N(0)), Do(E("v", N(0)), a)), R(E("v", N(0)))>>),
  VoidMain(<<IntV("a"), IntsV("v", 3)>>, <<
    Do(a, Input), Do(E("v", N(0)), N(1)), Do(E("v", N(1)), N(4)), Do(E("v", N(2)), N(6)),
    Show(C("pick", <<V("v"), a>>)), Show(C("sign", <<a>>)), ShowF(C("both", <<a>>)), X(C("maybe", <<a>>)),
    X(C("neither", <<a>>)), Show(C("nested", <<a>>)), If(a, B(<< >>))>>)>>

\* Loops in loops, with branches that return, and conditions of every type.
Loops == <<
  Fun("int", "first", <<IntP("a")>>, <<IntV("i")>>, <<
    Do(i, N(0)),
    While(i \prec N(3), B(<<If(<<"==", i, a>>, R(i ** N(2))), Do(i, i ++ N(1))>>)),
    R(N(9))>>),
  Main(<<IntV("i"), IntV("a"), FltV("x")>>, <<
    Do(a, Input), Show(C("first", <<a>>)), Do(x, F(4)),
    While(x, Block(<<IntV("b")>>, <<
      Do(x, x -- N(1)), Do(b, N(2)),
      While(b, B(<<Do(b, b -- N(1)), IfElse(b, Show(a), If(x, Show(b)))>>))>>)),
    Do(i, N(2)), While(N(0), Show(N(1))), While(i, Do(i, i -- N(1))), R(i)>>)>>

\* Recursion, an array of each call, and calls as arguments.
Recursion == <<
  Fun("int", "fact", <<IntP("n"), ArrP("up")>>, <<IntsV("v", 2)>>, <<
    If(V("n") \prec N(1), R(N(1))),
    Do(E("v", N(0)), V("n")), Do(E("v", N(1)), C("fact", <<V("n") -- N(1), V("v")>>)),
    Do(E("up", N(0)), E("up", N(0)) ++ N(1)), R(E("v", N(0)) ** E("v", N(1)))>>),
  Main(<<IntsV("w", 1)>>, <<
    Do(E("w", N(0)), N(0)), Show(C("fact", <<C("fact", <<N(2), V("w")>>), V("w")>>)),
    Show(C("fact", <<Input, V("w")>>)), R(E("w", N(0)))>>)>>

MCPrograms == {Expressions, Names, Arrays, Returns, Loops, Recursion}
MCInputs == {<<2, 1, 0>>, <<0, -1, 2>>, <<-1, 2, -1>>, <<1, 0, 1>>}

\* An assignment has the value of its right-hand side, unconverted.
Stored == <<VoidMain(<<IntV("a"), FltV("x")>>, <<Do(x, Set(a, F(3))), ShowF(x)>>)>>
\* The right-hand side is evaluated before the index.
Order == <<VoidMain(<<IntsV("v", 2), IntV("a")>>, <<
  Do(E("v", N(0)), N(5)), Do(E("v", N(1)), N(5)), Do(a, N(0)), Do(E("v", Set(a, N(1))), a), Show(E("v", N(1)))>>)>>
\* A comparison that holds is made the float -1.
Bit == <<VoidMain(<<FltV("x")>>, <<Do(x, N(0) \prec N(1)), ShowF(x)>>)>>
\* A return in a loop, then a branch that returns nothing.
LoopReturn == <<Main(<<IntV("a")>>, <<
  Do(a, N(0)), While(a, R(N(1))), If(N(1), Show(N(2))), Show(N(3)), R(N(4))>>)>>
\* A return after a branch, in a branch.
InnerReturn == <<Main(<<IntV("a")>>, <<
  Do(a, N(0)), If(a, B(<<If(a, R(N(1))), R(N(2))>>)), Show(N(3)), R(N(4))>>)>>
Unsafe == {Stored, Order, Bit, LoopReturn, InnerReturn}
=============================================================================
