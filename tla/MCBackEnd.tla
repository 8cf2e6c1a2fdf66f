------------------------------ MODULE MCBackEnd ------------------------------
(***************************************************************************)
(* Functions for the back end: lowered from a source program, or written   *)
(* as the passes before it leave them, with values that live across blocks *)
(* and, for a phi, an alloca that is stored to at the end of blocks.       *)
(***************************************************************************)
EXTENDS BackEnd, CminusfBuilder, SourcePrograms

Parser == INSTANCE SyntaxAnalyzer

\* A function of a program, as the builder lowers it.
Function(s, name) ==
  LET params == get_type(s.scope[1][name])[3]
      own(h) == [bk \in Range(s.blocks[name]) |-> h[bk]]
  IN  [args |-> [k \in DOMAIN params |-> <<"arg", k, params[k]>>], globals |-> s.globals,
       blocks |-> s.blocks[name], code |-> own(s.code), succ |-> own(s.succ)]
Lowered(program, name) ==
  Function(VisitAll(transform_node_iter(Parser!Program(program)).declarations, InitBuilder), name)

a == V("a")   b == V("b")   i == V("i")   x == V("x")   y == V("y")

\* Integers of every size and all that is done with them, in a function that calls.
Integers_ == <<IntV("g"), Main(<<IntV("a"), IntV("b")>>, <<
  Do(a, Input), Do(b, Input ++ N(5000)), Do(V("g"), a -- N(2047)),
  Show(a ** b -- V("g") // N(3)), Show((a \prec b) ++ N(1)),
  If(<<">=", a, N(1)>>, B(<<Show(N(4095)), Do(a, N(2048) ++ a)>>)),
  IfElse(<<"==", a, b>>, Show(a), Show(N(1) -- a)),
  While(N(2040) \prec a, Do(a, a -- N(6))), Show(<<"!=", a, N(3)>>), Show(<<"<=", a, V("g")>>), Show(<<">", a, N(2)>>),
  R(a ++ V("g"))>>)>>

\* The same of floats and of both.
Floats == <<FltV("h"), Main(<<FltV("x"), IntV("a")>>, <<
  Do(a, Input), Do(x, a), Do(V("h"), x ** F(3) ++ F(1)), ShowF(V("h") // F(4) -- x), Do(a, x ** F(5)), Show(a),
  Show(x \prec V("h")), Show(<<">=", x, F(3)>>), Show(<<"==", x, a>>), Show(<<"!=", F(2), x>>),
  Show(<<">", x, N(1)>>), Show(<<"<=", V("h"), x>>), Do(x, N(3)), Do(a, F(7)),
  While(x, Do(x, x -- F(2))), ShowF(V("h")), R(a)>>)>>

\* Arrays, local and global, with indices of every kind.
Arrays == <<IntsV("g", 3), FltsV("h", 3), Main(<<IntsV("v", 3), FltsV("w", 3), IntV("i")>>, <<
  Do(i, Input), Do(E("w", N(1)), F(5)), Do(E("v", N(0)), N(4)), Do(E("v", N(1)), N(1)), Do(E("v", i), N(9)), Do(E("v", N(2)), E("v", i) ++ E("v", N(0))),
  Do(E("g", N(1)), E("v", N(2))), Do(E("g", i), i), Do(E("w", i), F(3)), Do(E("h", N(1)), E("w", i)),
  Do(E("h", i), E("h", N(1)) ++ F(1)), Show(E("g", i)), ShowF(E("h", N(0))),
  X(C("outputArray", <<V("v"), N(3)>>)), X(C("outputArray", <<V("g"), N(2)>>)),
  Show(E("v", Input)), R(E("v", N(1)))>>)>>

\* A frame that immediates hardly reach.
Wide == <<VoidMain(<<IntsV("v", 492)>>, <<
  Do(E("v", N(0)), N(6)), Do(E("v", N(491)), E("v", N(0)) ++ N(1)), Show(E("v", N(491)))>>)>>

\* Arguments of both classes, without and with calls.
Params == <<IntP("a"), <<"float", "x">>, IntP("b"), <<"float", "y">>>>
Leaf == <<IntV("g"), Fun("int", "f", Params, <<IntV("i")>>, <<
  Do(i, a ** b ++ N(3000)), Do(V("g"), i), If(x \prec y, Do(i, V("g") -- a)), R(i // N(2) ++ x ** y)>>)>>
Caller == <<Fun("float", "f", Params, << >>, <<
  If(<<"==", a, N(0)>>, R(x)),
  R(C("f", <<a -- N(1), y, b, x ++ C("f", <<b, F(1), a, x>>)>>) ++ y)>>)>>

\* Instructions of functions that other passes have changed.
Get(n, t) == <<"instr", n, t>>
Ins(n, t, op, rands) == [value |-> Get(n, t), op |-> op, operands |-> rands]
Do_(op, rands) == Ins(0, VoidType, op, rands)
BB(n) == <<"bb", n, LabelType>>
Jump(n) == Do_("br", <<BB(n)>>)
Fork(v, m, n) == Do_("br", <<v, BB(m), BB(n)>>)
Arg(k, t) == <<"arg", k, t>>
Global(name, t) == <<"global", name, PointerType(t)>>
Lib(name) == InitBuilder.scope[1][name]
Written(as, gs, code, succ) ==
  [args |-> as, globals |-> gs, blocks |-> [k \in DOMAIN code |-> BB(k)],
   code |-> [bk \in {BB(k) : k \in DOMAIN code} |-> code[bk[2]]],
   succ |-> [bk \in {BB(k) : k \in DOMAIN code} |-> [k \in DOMAIN succ[bk[2]] |-> BB(succ[bk[2]][k])]]]

P32 == PointerType(Int32)
i0 == Arg(1, Int32)
\* The sum of the numbers below the argument: two phis in a loop.
Sum == Written(<<i0>>, << >>,
  <<<<Ins(10, P32, "alloca", << >>), Ins(11, P32, "alloca", << >>),
      Do_("store", <<ConstInt(0), Get(10, P32)>>), Do_("store", <<ConstInt(0), Get(11, P32)>>), Jump(2)>>,
    <<Ins(12, Int32, "load", <<Get(10, P32)>>), Ins(13, Int32, "load", <<Get(11, P32)>>),
      Ins(14, Int1, "lt", <<Get(12, Int32), i0>>), Fork(Get(14, Int1), 3, 4)>>,
    <<Ins(15, Int32, "add", <<Get(13, Int32), Get(12, Int32)>>), Ins(16, Int32, "add", <<Get(12, Int32), ConstInt(1)>>),
      Do_("store", <<Get(16, Int32), Get(10, P32)>>), Do_("store", <<Get(15, Int32), Get(11, P32)>>), Jump(2)>>,
    <<Do_("ret", <<Get(13, Int32)>>)>>>>,
  <<<<2>>, <<4, 3>>, <<2>>, << >>>>)

\* An element of an array parameter, read, written and read again.
ptr == Arg(1, P32)
k0  == Arg(2, Int32)
Pointer == Written(<<ptr, k0>>, << >>,
  <<<<Ins(10, Int1, "ge", <<k0, ConstInt(0)>>), Fork(Get(10, Int1), 3, 2)>>,
    <<Ins(0, VoidType, "call", <<Lib("neg_idx_except")>>), Jump(3)>>,
    <<Ins(11, P32, "getelementptr", <<ptr, k0>>), Ins(12, Int32, "load", <<Get(11, P32)>>),
      Ins(0, VoidType, "call", <<Lib("output"), Get(12, Int32)>>),
      Ins(13, Int32, "add", <<Get(12, Int32), k0>>), Ins(14, P32, "getelementptr", <<ptr, k0>>),
      Do_("store", <<Get(13, Int32), Get(14, P32)>>), Ins(0, VoidType, "call", <<Lib("outputArray"), ptr, ConstInt(3)>>),
      Do_("ret", <<Get(12, Int32)>>)>>>>,
  <<<<2, 3>>, <<3>>, << >>>>)
\* An element with a constant index.
Second == <<Ins(15, P32, "getelementptr", <<ptr, ConstInt(2)>>), Ins(16, Int32, "load", <<Get(15, P32)>>), Do_("ret", <<Get(16, Int32)>>)>>
Fixed  == Written(<<ptr>>, << >>, <<Second>>, <<<< >>>>)

f0 == Arg(1, FloatType)
PF == PointerType(FloatType)
Fl(n) == Get(n, FloatType)
\* A phi after a branch.
Join == Written(<<f0>>, << >>,
  <<<<Ins(10, PF, "alloca", << >>), Ins(11, Int1, "fgt", <<f0, ConstFP(2)>>), Do_("store", <<f0, Get(10, PF)>>), Fork(Get(11, Int1), 2, 3)>>,
    <<Ins(12, FloatType, "fmul", <<f0, ConstFP(3)>>), Ins(13, Int32, "fptosi", <<Fl(12)>>), Ins(14, FloatType, "sitofp", <<Get(13, Int32)>>),
      Do_("store", <<Fl(14), Get(10, PF)>>), Jump(3)>>,
    <<Ins(15, FloatType, "load", <<Get(10, PF)>>), Ins(16, FloatType, "fsub", <<Fl(15), f0>>), Ins(17, Int32, "fptosi", <<Fl(16)>>),
      Do_("ret", <<Get(17, Int32)>>)>>>>,
  <<<<3, 2>>, <<3>>, << >>>>)

\* The register of a stored value is free again, though the value is returned.
Freed == Written(<<i0>>, <<Global("g", Int32), Global("h", Int32)>>,
  <<<<Ins(10, Int32, "add", <<i0, ConstInt(1)>>), Do_("store", <<Get(10, Int32), Global("g", Int32)>>),
      Do_("store", <<ConstInt(7), Global("h", Int32)>>), Do_("ret", <<Get(10, Int32)>>)>>>>, <<<< >>>>)
\* An int that becomes a float is read from its register, after a call.
Converted == <<VoidMain(<< >>, <<ShowF(Input ++ Input ** F(2))>>)>>
\* A comparison has no slot.
Compared == <<VoidMain(<<IntV("a")>>, <<Do(a, N(1)), Show((N(0) \prec a) ++ Input)>>)>>
\* The pointer is read from its register, after a call.
Kept == Written(<<ptr>>, << >>, <<<<Ins(0, VoidType, "call", <<Lib("output"), ConstInt(1)>>)>> \o Second>>, <<<< >>>>)
\* An element of an array parameter with a constant index is stored to.
First == Written(<<ptr>>, << >>,
  <<<<Ins(10, P32, "getelementptr", <<ptr, ConstInt(0)>>), Do_("store", <<ConstInt(1), Get(10, P32)>>), Do_("ret", << >>)>>>>, <<<< >>>>)
\* An array parameter that still has its alloca.
Parameter == <<Fun("int", "f", <<ArrP("v")>>, << >>, <<R(E("v", N(0)))>>)>>
\* The register of an index is that of the converted value.
Reused == <<IntsV("g", 3), VoidMain(<<IntV("i")>>, <<Do(i, Input), Do(E("g", i), F(3))>>)>>
\* The interval of a value ends at its last read in the text, in a loop that reads it again.
Carried == Written(<<i0>>, << >>,
  <<<<Ins(10, P32, "alloca", << >>), Ins(11, Int32, "add", <<i0, ConstInt(5)>>), Do_("store", <<i0, Get(10, P32)>>), Jump(2)>>,
    <<Ins(12, Int32, "load", <<Get(10, P32)>>), Ins(13, Int32, "add", <<Get(11, Int32), Get(12, Int32)>>),
      Do_("store", <<Get(13, Int32), Get(10, P32)>>), Ins(14, Int1, "lt", <<Get(13, Int32), ConstInt(20)>>), Fork(Get(14, Int1), 2, 3)>>,
    <<Do_("ret", <<Get(13, Int32)>>)>>>>,
  <<<<2>>, <<3, 2>>, << >>>>)
\* An argument that only the terminator of the entry block reads.
Unread == Written(<<i0>>, << >>, <<<<Do_("ret", <<i0>>)>>>>, <<<< >>>>)
\* More values are live at once than the allocator has registers.
Spilled == Written(<<i0>>, << >>,
  <<[k \in 1..16 |-> Ins(10 + k, Int32, "add", <<i0, ConstInt(k)>>)] \o [k \in 1..16 |-> Ins(30 + k, Int32, "mul", <<i0, Get(10 + k, Int32)>>)]
    \o <<Do_("ret", <<Get(46, Int32)>>)>>>>, <<<< >>>>)

-----------------------------------------------------------------------------
Case(f, as, cells, in) == [f |-> f, args |-> as, pointed |-> cells, input |-> in]
Of(program, name, as, cells, in) == [program |-> program, name |-> name, args |-> as, pointed |-> cells, input |-> in]
Compiled(S) == {Case(Lowered(k.program, k.name), k.args, k.pointed, k.input) : k \in S}

Three == {<<2, 1, 0>>, <<0, -1, 2>>, <<1, 0, 3>>}
MCCases ==
  Compiled(
    {Of(program, "main", << >>, << >>, in) : program \in {Integers_, Floats, Arrays}, in \in Three}
    \cup {Of(Wide, "main", << >>, << >>, << >>)}
    \cup {Of(Leaf, "f", as, << >>, << >>) : as \in {<<3, 1, 5, 4>>, <<-2, 6, 7, 3>>}}
    \cup {Of(Caller, "f", as, << >>, <<8, -5, 2>>) : as \in {<<3, 1, 5, 4>>, <<0, 6, 7, 3>>}})
  \cup {Case(Sum, <<n>>, << >>, << >>) : n \in {0, 3}} \cup {Case(Join, <<h>>, << >>, << >>) : h \in {2, 5}}
  \cup {Case(Pointer, <<0, k>>, <<5, 3, 8>>, << >>) : k \in {0, 2, -1}} \cup {Case(Fixed, <<0>>, <<5, 3, 8>>, << >>)}
Unsafe ==
  Compiled({Of(Converted, "main", << >>, << >>, <<4, 2>>), Of(Compared, "main", << >>, << >>, <<5>>),
            Of(Parameter, "f", <<0>>, <<5>>, << >>), Of(Reused, "main", << >>, << >>, <<2>>)})
  \cup {Case(Kept, <<0>>, <<5, 3, 8>>, << >>), Case(Freed, <<3>>, << >>, << >>), Case(First, <<0>>, <<5>>, << >>),
        Case(Carried, <<3>>, << >>, << >>), Case(Spilled, <<3>>, << >>, << >>), Case(Unread, <<3>>, << >>, << >>)}
MCJunks == {0, 131}
=============================================================================
