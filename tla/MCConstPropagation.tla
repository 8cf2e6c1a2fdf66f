-------------------------- MODULE MCConstPropagation --------------------------
(***************************************************************************)
(* Functions for ConstPropagation: every operation on the constants at the *)
(* edges of the integers, conversions and comparisons in chains, constants *)
(* that meet in phis, and globals stored and loaded in one block and in    *)
(* two.                                                                    *)
(***************************************************************************)
EXTENDS ConstSemantics

B(n) == <<"bb", n>>
MCBlock == {B(n) : n \in 1..7}
MCWidth == 4
MCData == {-8, 0, 3}

arg  == <<"arg", 1>>
C(n) == <<"const", n>>
F(n) == <<"fconst", n>>
X(n) == <<"op", n>>
L(n) == <<"load", n>>
P(n) == <<"phi", n>>
call == <<"call", 1>>
g    == <<"global", "g">>
h    == <<"global", "h">>
cell(k) == <<"cell", k>>

\* Lines of code: an instruction, its opcode and its operands.
Do(n, o, v)      == <<X(n), o, v>>
Load(n, a)       == <<L(n), "load", <<a>>>>
Store(n, v, a)   == <<<<"store", n>>, "store", <<v, a>>>>
CallOf(v)        == <<call, "call", <<v>>>>
Merge(n, v, m, w, k) == <<P(n), "phi", <<v, B(m), w, B(k)>>>>
Goto(n, m)       == <<<<"br", n>>, "br", <<B(m)>>>>
If(n, v, m, k)   == <<<<"br", n>>, "br", <<v, B(m), B(k)>>>>
Ret(n, v)        == <<<<"ret", n>>, "ret", <<v>>>>

Fun(first, main, body) ==
  LET all == UNION {Range(body[n]) : n \in DOMAIN body}
      of(x) == CHOOSE l \in all : l[1] = x
      IsBlock(v) == v[1] = "bb"
  IN  [first    |-> first, main |-> main,
       bbs      |-> [n \in DOMAIN body |-> B(n)],
       code     |-> [x \in MCBlock |-> IF x[2] \notin DOMAIN body THEN << >>
                                       ELSE [j \in DOMAIN body[x[2]] |-> body[x[2]][j][1]]],
       opcode   |-> [x \in {l[1] : l \in all} |-> of(x)[2]],
       operands |-> [x \in {l[1] : l \in all} |-> of(x)[3]],
       succ     |-> [x \in MCBlock |-> IF x[2] \notin DOMAIN body THEN << >>
                                       ELSE SelectSeq(Last(body[x[2]])[3], IsBlock)]]
Later(body) == Fun(FALSE, FALSE, body)

Edges == {-8, -3, -1, 0, 2, 7}
FEdges == {-14, -3, 0, 1, 7}
\* return (a o b) + arg, as an integer
Integer == {Later(<<<<Do(1, o, <<C(x), C(y)>>), Do(2, "add", <<X(1), arg>>), Ret(1, X(2))>>>>) :
              o \in {"add", "sub", "mul"} \cup Compares, x \in Edges, y \in Edges}
Division == {Later(<<<<Do(1, "sdiv", <<C(x), C(y)>>), Do(2, "sub", <<X(1), C(1)>>), Ret(1, X(2))>>>>) :
               x \in Edges, y \in Edges}
Float == {Later(<<<<Do(1, o, <<F(x), F(y)>>), Do(2, "fptosi", <<X(1)>>), Ret(1, X(2))>>>>) :
            o \in FloatOps, x \in FEdges, y \in FEdges}
Mixed == {Later(<<<<Do(1, "sitofp", <<C(x)>>), Do(2, o, <<X(1), F(y)>>), Do(3, "zext", <<X(2)>>),
                    Do(4, "sub", <<X(3), arg>>), Ret(1, X(4))>>>>) :
            o \in FCompares, x \in Edges, y \in FEdges}

\* The bit of a comparison as a float, and the float compared: the first comparison is
\* folded or reads the argument.
Bits == {Later(<<<<Do(1, o, <<x, C(3)>>), Do(2, "sitofp", <<X(1)>>), Do(3, "flt", <<X(2), F(0)>>),
                   Do(4, "zext", <<X(3)>>), Ret(1, X(4))>>>>) : o \in Compares, x \in {C(3), C(7), arg}}

\* if (arg) x = 1 + 1; else x = 3; g = x; return g * (2 - 2)
Meet == Later(<<
  <<If(1, arg, 2, 3)>>,
  <<Do(1, "add", <<C(1), C(1)>>), Goto(2, 4)>>,
  <<Goto(3, 4)>>,
  <<Merge(1, X(1), 2, C(3), 3), Store(1, P(1), g), Load(1, g), Do(2, "sub", <<C(2), C(2)>>),
    Do(3, "mul", <<L(1), X(2)>>), Do(4, "add", <<X(3), L(1)>>), Ret(4, X(4))>>>>)

\* i = 0; while (i < 1 + 2) i = i + (2 - 1); return i
Loop == Later(<<
  <<Goto(1, 2)>>,
  <<Merge(1, C(0), 1, X(4), 3), Do(1, "add", <<C(1), C(2)>>), Do(2, "lt", <<P(1), X(1)>>),
    If(2, X(2), 3, 4)>>,
  <<Do(3, "sub", <<C(2), C(1)>>), Do(4, "add", <<P(1), X(3)>>), Goto(3, 2)>>,
  <<Ret(4, P(1))>>>>)

\* A constant made in the loop reaches the phi at its head.
BackEdge == Later(<<
  <<Goto(1, 2)>>,
  <<Merge(1, arg, 1, X(1), 3), If(2, P(1), 3, 4)>>,
  <<Do(1, "sub", <<C(2), C(2)>>), Goto(3, 2)>>,
  <<Ret(4, P(1))>>>>)

\* if (arg) return 0; else { if (arg) use(arg); x = 1 + 2; } return x + 1;
\* The block behind the outer if is created before the one behind the inner if, in
\* which x is computed.
Backwards == Later(<<
  <<If(1, arg, 2, 3)>>,
  <<Goto(2, 7)>>,
  <<If(3, arg, 5, 6)>>,
  <<Do(2, "add", <<X(1), C(1)>>), Goto(4, 7)>>,
  <<CallOf(arg), Goto(5, 6)>>,
  <<Do(1, "add", <<C(1), C(2)>>), Goto(6, 4)>>,
  <<Merge(1, C(0), 2, X(2), 4), Ret(7, P(1))>>>>)

\* A global stored twice and loaded in between and in the next block, with a call.
Globals == {Later(<<
  <<Store(1, C(v), g), Load(1, g), Do(1, "add", <<L(1), C(2)>>), Store(2, X(1), g), Load(2, g),
    Store(3, L(2), h), Load(3, h), CallOf(L(3)), Goto(1, 2)>>,
  <<Load(4, g), Do(2, "sub", <<L(4), L(3)>>), Store(4, w, h), Load(5, h), Ret(2, X(2))>>>>) :
    v \in {0, 7}, w \in {arg, C(-8), call}}

\* main is the first function and begins with what the globals are set to.
Main == Fun(TRUE, TRUE, <<
  <<Load(1, g), Do(1, "add", <<L(1), C(1)>>), Store(1, X(1), g), Load(2, g),
    Do(2, "mul", <<L(2), C(3)>>), CallOf(X(2)), Goto(1, 2)>>,
  <<Load(3, g), Ret(2, L(3))>>>>)

\* An element of an array, stored and loaded.
Element == Later(<<<<Store(1, C(3), cell(1)), Load(1, cell(1)), Do(1, "add", <<L(1), C(1)>>), Goto(1, 2)>>,
                   <<Store(2, X(1), cell(2)), Goto(2, 3)>>,
                   <<Load(2, cell(1)), Ret(3, L(2))>>>>)

MCFunctions == Integer \cup Division \cup Float \cup Mixed \cup Bits \cup Globals
                 \cup {Meet, Loop, BackEdge, Backwards, Main, Element}
=============================================================================
