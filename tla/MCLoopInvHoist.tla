---------------------------- MODULE MCLoopInvHoist ----------------------------
(***************************************************************************)
(* Functions for LoopSearch and LoopInvHoist: the loops the builder lays   *)
(* out, alone, nested, one after the other and around an if, with          *)
(* computations in them that depend on the loop, on an outer loop or on    *)
(* arguments only; loops that load and store globals; and graphs without   *)
(* computations in which loops share blocks in ways the builder does not   *)
(* make.                                                                   *)
(***************************************************************************)
EXTENDS HoistSemantics

B(n) == <<"bb", n>>
MCBlock == {B(n) : n \in 1..8}
MCData == {0, 1}

arg == <<"arg", 1>>
Zero == <<"const", 0>>
X(n) == <<"op", n>>
L(n) == <<"load", n>>
g    == <<"global", "g">>
h    == <<"global", "h">>
Phi(n) == <<"phi", n>>

\* Lines of code: an instruction and its operands.
Do(n, ops)      == <<X(n), ops>>
Load(n, a)      == <<<<"load", n>>, <<a>>>>
Store(n, v, a)  == <<<<"store", n>>, <<v, a>>>>
Use(n, ops)     == <<<<"call", n>>, ops>>
Merge(n, v, p, w, q) == <<Phi(n), <<v, B(p), w, B(q)>>>>
Goto(n, m)      == <<<<"br", n>>, <<B(m)>>>>
If(n, v, m, l)  == <<<<"br", n>>, <<v, B(m), B(l)>>>>
Ret(n, v)       == <<<<"ret", n>>, <<v>>>>

Fun(body) ==
  LET all == UNION {Range(body[n]) : n \in DOMAIN body}
      IsBlock(v) == v[1] = "bb"
  IN  [bbs      |-> [n \in DOMAIN body |-> B(n)],
       code     |-> [x \in MCBlock |-> IF x[2] \notin DOMAIN body THEN << >>
                                       ELSE [j \in DOMAIN body[x[2]] |-> body[x[2]][j][1]]],
       operands |-> [x \in {l[1] : l \in all} |-> (CHOOSE l \in all : l[1] = x)[2]],
       succ     |-> [x \in MCBlock |-> IF x[2] \notin DOMAIN body THEN << >>
                                       ELSE SelectSeq(Last(body[x[2]])[2], IsBlock)]]

\* i = 0; while (i op arg) { k = f(arg); l = g(k); use(l); i = h(i, l) } return i
While == Fun(<<
  <<Goto(1, 2)>>,
  <<Merge(1, Zero, 1, X(4), 3), Do(1, <<Phi(1), arg>>), If(2, X(1), 3, 4)>>,
  <<Do(2, <<arg>>), Do(3, <<X(2)>>), Use(1, <<X(3)>>), Do(4, <<Phi(1), X(3)>>), Goto(3, 2)>>,
  <<Ret(4, Phi(1))>>>>)

\* The inner loop computes from the counter of the outer one and from arg.
Nested == Fun(<<
  <<Goto(1, 2)>>,
  <<Merge(1, arg, 1, X(5), 7), If(2, Phi(1), 3, 4)>>,
  <<Goto(3, 5)>>,
  <<Ret(4, Phi(1))>>,
  <<Merge(2, arg, 3, X(4), 6), If(5, Phi(2), 6, 7)>>,
  <<Do(1, <<arg>>), Do(2, <<Phi(1)>>), Do(3, <<X(1), X(2)>>), Do(4, <<Phi(2), X(3)>>), Goto(6, 5)>>,
  <<Do(5, <<Phi(1)>>), Goto(7, 2)>>>>)

\* What the second loop computes depends on what the first left.
TwoLoops == Fun(<<
  <<Goto(1, 2)>>,
  <<Merge(1, arg, 1, X(2), 3), If(2, Phi(1), 3, 4)>>,
  <<Do(1, <<arg>>), Do(2, <<Phi(1), X(1)>>), Goto(3, 2)>>,
  <<Goto(4, 5)>>,
  <<Merge(2, arg, 4, X(4), 6), If(5, Phi(2), 6, 7)>>,
  <<Do(3, <<Phi(1)>>), Do(4, <<Phi(2), X(3)>>), Use(1, <<X(4)>>), Goto(6, 5)>>,
  <<Ret(7, Phi(2))>>>>)

\* An if in the loop: what is computed in one branch does not depend on the loop.
IfInLoop == Fun(<<
  <<Goto(1, 2)>>,
  <<Merge(1, arg, 1, X(3), 6), If(2, Phi(1), 3, 7)>>,
  <<Do(1, <<arg>>), If(3, X(1), 4, 5)>>,
  <<Do(2, <<X(1)>>), Goto(4, 6)>>,
  <<Goto(5, 6)>>,
  <<Merge(2, X(2), 4, Phi(1), 5), Do(3, <<Phi(2)>>), Goto(6, 2)>>,
  <<Ret(7, Phi(1))>>>>)

\* A loop in a branch, of which a call is the only computation.
LoopInIf == Fun(<<
  <<If(1, arg, 2, 3)>>,
  <<Goto(2, 5)>>,
  <<Goto(3, 4)>>,
  <<Ret(4, arg)>>,
  <<If(5, arg, 6, 7)>>,
  <<Use(1, <<arg>>), Goto(6, 5)>>,
  <<Goto(7, 4)>>>>)

\* while (i) { h = f(i, g); i = h } where g is only read, and varies in no iteration
Reading == Fun(<<
  <<Goto(1, 2)>>,
  <<Merge(1, arg, 1, X(2), 3), If(2, Phi(1), 3, 4)>>,
  <<Load(1, g), Do(1, <<L(1)>>), Do(2, <<Phi(1), X(1)>>), Goto(3, 2)>>,
  <<Store(1, Phi(1), h), Ret(4, Phi(1))>>>>)

\* while (i) { while (j) j = f(j, g); h = j; i = k(i) }: g is loaded in the inner loop,
\* and the outer one stores to h what depends on it.
Writing == Fun(<<
  <<Goto(1, 2)>>,
  <<Merge(1, arg, 1, X(3), 5), If(2, Phi(1), 3, 6)>>,
  <<Merge(2, Phi(1), 2, X(2), 4), If(3, Phi(2), 4, 5)>>,
  <<Load(1, g), Do(1, <<L(1)>>), Do(2, <<Phi(2), X(1)>>), Goto(4, 3)>>,
  <<Store(1, Phi(2), h), Do(3, <<Phi(1)>>), Goto(5, 2)>>,
  <<Ret(6, arg)>>>>)

\* while (i) { g = f(arg); i = k(i) }: the pass moves the store.
StoreMoved == Fun(<<
  <<Goto(1, 2)>>,
  <<Merge(1, arg, 1, X(2), 3), If(2, Phi(1), 3, 4)>>,
  <<Do(1, <<arg>>), Store(1, X(1), g), Do(2, <<Phi(1)>>), Goto(3, 2)>>,
  <<Ret(4, Phi(1))>>>>)

\* Graphs only: a loop left into the base of the next, an inner base behind an outer
\* one, two branches back to one base, three loops in one another.
Jumps(s) == Fun([n \in DOMAIN s |->
              <<CASE Len(s[n]) = 0 -> Ret(n, arg) [] Len(s[n]) = 1 -> Goto(n, s[n][1])
                  [] OTHER -> If(n, arg, s[n][1], s[n][2])>>])
Odd == {Jumps(<< <<2>>, <<3, 4>>, <<2>>, <<5, 6>>, <<4>>, << >> >>),
        Jumps(<< <<2>>, <<3, 6>>, <<4, 5>>, <<3>>, <<2>>, << >> >>),
        Jumps(<< <<2>>, <<3, 6>>, <<4, 5>>, <<2>>, <<2>>, << >> >>),
        Jumps(<< <<2>>, <<3, 8>>, <<4, 7>>, <<5, 6>>, <<4>>, <<3>>, <<2>>, << >> >>)}

MCFunctions == {While, Nested, TwoLoops, IfInLoop, LoopInIf, Reading, Writing, StoreMoved} \cup Odd
=============================================================================
