------------------------------- MODULE MCPhiElim -------------------------------
(***************************************************************************)
(* Functions for PhiElim: the graphs the builder lays out for small        *)
(* statements, with phis whose operands are arguments, constants, results, *)
(* missing, themselves or each other.                                      *)
(***************************************************************************)
EXTENDS PhiSemantics

B(n) == <<"bb", n>>
MCBlock == {B(n) : n \in 1..6}

a == <<"arg", 1>>
c == <<"op", "c">>
d == <<"op", "d">>
x == <<"op", "x">>
p == <<"phi", "p">>
q == <<"phi", "q">>
r == <<"phi", "r">>
Zero   == <<"const", 0>>
Br(n)  == <<"br", n>>
Ret(n) == <<"ret", n>>

\* A pair of operands, or none.
Pair(v, n) == IF v = << >> THEN << >> ELSE <<v, B(n)>>

\* The function with code[n] in block n and the operands ops.
Fun(code, ops) ==
  [bbs      |-> [n \in DOMAIN code |-> B(n)],
   code     |-> [b \in MCBlock |-> IF b[2] \in DOMAIN code THEN code[b[2]] ELSE << >>],
   operands |-> [y \in {o[1] : o \in ops} |-> (CHOOSE o \in ops : o[1] = y)[2]]]

\* return a;
Return == Fun(<<<<Ret(1)>>>>, {<<Ret(1), <<a>>>>})

\* if (a) 2; 3 returns p.
IfThen ==
  {Fun(<<<<Br(1)>>, <<x, Br(2)>>, <<p, Ret(3)>>>>,
       {<<Br(1), <<a, B(2), B(3)>>>>, <<x, <<a>>>>, <<Br(2), <<B(3)>>>>,
        <<p, Pair(v, 1) \o Pair(w, 2)>>, <<Ret(3), <<p>>>>}) :
     v \in {<< >>, a}, w \in {x, Zero}}

\* while (c(p)) 3; 4 returns q: p and q read anything at the end of the body.
While ==
  {Fun(<<<<Br(1)>>, <<p, q, c, Br(2)>>, <<x, Br(3)>>, <<Ret(4)>>>>,
       {<<Br(1), <<B(2)>>>>,
        <<p, Pair(a, 1) \o Pair(v, 3)>>, <<q, Pair(u, 1) \o Pair(w, 3)>>,
        <<c, <<p>>>>, <<Br(2), <<c, B(3), B(4)>>>>,
        <<x, <<q, p>>>>, <<Br(3), <<B(2)>>>>, <<Ret(4), <<q>>>>}) :
     u \in {<< >>, Zero}, v \in {p, q, x}, w \in {p, q, x}}

\* while (c(p)) if (d) 5; 6 goes back to 2 and has a phi of its own; 4 returns.
WhileIf ==
  {Fun(<<<<Br(1)>>, <<p, q, c, Br(2)>>, <<d, Br(3)>>, <<Ret(4)>>, <<x, Br(5)>>, <<r, Br(6)>>>>,
       {<<Br(1), <<B(2)>>>>,
        <<p, Pair(a, 1) \o Pair(r, 6)>>, <<q, Pair(Zero, 1) \o Pair(w, 6)>>,
        <<c, <<p>>>>, <<Br(2), <<c, B(3), B(4)>>>>,
        <<d, <<q>>>>, <<Br(3), <<d, B(5), B(6)>>>>,
        <<x, <<p>>>>, <<Br(5), <<B(6)>>>>,
        <<r, Pair(v, 3) \o Pair(x, 5)>>, <<Br(6), <<B(2)>>>>, <<Ret(4), <<q>>>>}) :
     v \in {p, q}, w \in {p, r}}

MCFunctions == {Return} \cup IfThen \cup While \cup WhileIf
MCData      == {0, 1}
=============================================================================
