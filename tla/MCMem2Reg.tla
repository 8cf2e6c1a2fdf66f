------------------------------- MODULE MCMem2Reg -------------------------------
(***************************************************************************)
(* Functions for Mem2Reg: the blocks the builder lays out for small        *)
(* statements, each with assignments and uses of local variables.  A       *)
(* variable is declared where the builder puts its alloca, and may be      *)
(* without a value on some path.                                           *)
(***************************************************************************)
EXTENDS Mem2RegSemantics

B(n) == <<"bb", n>>
MCBlock == {B(n) : n \in 1..6}

arg  == <<"arg", 1>>
Zero == <<"const", 0>>
a == <<"alloca", "a">>
b == <<"alloca", "b">>
t == <<"alloca", "t">>
p == <<"alloca", "p">>

\* What is written in block n as statement k: its instructions in order, each
\* with its operands.
Op1(n, k)      == <<"op", n, k>>
Load1(n, k, v) == <<"load", n, k, v>>
Decl(v)        == [n \in 1..6, k \in 1..6 |-> <<<<v, << >>>>>>]
Set(v, val)    == [n \in 1..6, k \in 1..6 |-> <<<<<<"store", n, k>>, <<val, v>>>>>>]
Use(v)         == [n \in 1..6, k \in 1..6 |->
                     <<<<Load1(n, k, v), <<v>>>>, <<Op1(n, k), <<Load1(n, k, v)>>>>>>]
Drop(v)        == [n \in 1..6, k \in 1..6 |-> <<<<Load1(n, k, v), <<v>>>>>>]
Inc(v)         == [n \in 1..6, k \in 1..6 |->
                     <<<<Load1(n, k, v), <<v>>>>, <<Op1(n, k), <<Load1(n, k, v)>>>>,
                       <<<<"store", n, k>>, <<Op1(n, k), v>>>>>>]
Swap(v, w)     == [n \in 1..6, k \in 1..6 |->
                     <<<<Load1(n, k, v), <<v>>>>, <<Load1(n, k, w), <<w>>>>,
                       <<<<"store", n, k>>, <<Load1(n, k, w), v>>>>,
                       <<<<"store", n, k, 2>>, <<Load1(n, k, v), w>>>>>>]

\* A branch on a variable, a jump, and the return of a variable.
Goto(m)       == [n \in 1..6, k \in 1..6 |-> <<<<<<"br", n>>, <<B(m)>>>>>>]
If(v, m, l)   == [n \in 1..6, k \in 1..6 |->
                    <<<<Load1(n, k, v), <<v>>>>, <<<<"br", n>>, <<Load1(n, k, v), B(m), B(l)>>>>>>]
Ret(v)        == [n \in 1..6, k \in 1..6 |->
                    <<<<Load1(n, k, v), <<v>>>>, <<<<"ret", n>>, <<Load1(n, k, v)>>>>>>]

\* The function with the statements body[n] in block n.
Fun(body) ==
  LET lines(n) == FlattenSeq([k \in DOMAIN body[n] |-> body[n][k][n, k]])
      all      == UNION {Range(lines(n)) : n \in DOMAIN body}
      last(n)  == Last(lines(n))[2]
  IN  [bbs      |-> [n \in DOMAIN body |-> B(n)],
       code     |-> [x \in MCBlock |-> IF x[2] \notin DOMAIN body THEN << >>
                                       ELSE [j \in DOMAIN lines(x[2]) |-> lines(x[2])[j][1]]],
       operands |-> [x \in {l[1] : l \in all} |-> (CHOOSE l \in all : l[1] = x)[2]],
       succ     |-> [x \in MCBlock |-> IF x[2] \notin DOMAIN body THEN << >>
                                       ELSE LET IsBlock(v) == v[1] = "bb"
                                            IN  SelectSeq(last(x[2]), IsBlock)],
       scalars  |-> {a, b, t}]

\* int b; a = arg; if (a) S else T; return a;
IfElse(S, T) ==
  Fun(<<<<Decl(a), Decl(b), Set(a, arg), If(a, 2, 3)>>, S \o <<Goto(4)>>, T \o <<Goto(4)>>,
        <<Ret(a)>>>>)
\* b = 0; while (a) S; return b;
While(S) ==
  Fun(<<<<Decl(a), Decl(b), Set(a, arg), Set(b, Zero), Goto(2)>>, <<If(a, 3, 4)>>,
        S \o <<Goto(2)>>, <<Ret(b)>>>>)
\* b is only known inside: while (a) { if (a) S; T } return a;
WhileIf(S, T) ==
  Fun(<<<<Decl(a), Decl(b), Set(a, arg), Goto(2)>>, <<If(a, 3, 6)>>, <<If(a, 4, 5)>>,
        S \o <<Goto(5)>>, T \o <<Goto(2)>>, <<Ret(a)>>>>)
\* A parameter that is an array: its cell is a pointer and stays.
Pointer == Fun(<<<<Decl(a), Decl(p), Set(a, arg), Set(p, arg), Use(p), Ret(a)>>>>)

Simple == {<< >>, <<Set(a, Zero)>>, <<Set(b, arg)>>, <<Inc(a)>>, <<Set(b, Zero), Swap(a, b)>>}
Local  == <<Decl(t), Set(t, arg), Use(t)>>

Branching == {IfElse(S, T) : S \in Simple \cup {Local, <<Use(b)>>}, T \in Simple \cup {<<Use(b)>>, <<Drop(b)>>}}
Looping   == {While(S) : S \in {<<Swap(a, b)>>, <<Inc(a), Inc(b)>>, <<Use(b), Inc(a)>>, Local}}
Nesting   == {WhileIf(S, T) : S \in {<<Set(b, arg)>>, <<Inc(a)>>, Local},
                              T \in {<< >>, <<Use(b), Set(a, Zero)>>, <<Swap(a, b)>>}}
MCFunctions == Branching \cup Looping \cup Nesting \cup {Pointer}
MCData == {0, 1}
=============================================================================
