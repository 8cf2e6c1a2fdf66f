----------------------------- MODULE MCActiveVars -----------------------------
(***************************************************************************)
(* Functions for ActiveVars: the graphs the builder lays out for small     *)
(* statements, with a plain value x and a value y that a phi defines.      *)
(***************************************************************************)
EXTENDS ActiveVars

MCVar  == {"x", "y"}

\* if (c) 2 else 3; 4.
IfElse == [b \in 1..4 |-> <<{2, 3}, {4}, {4}, {}>>[b]]
\* while (2) 3; 4.
While  == [b \in 1..4 |-> <<{2}, {3, 4}, {2}, {}>>[b]]
\* while (2) if (3) 5; 6 back to 2; 4: the inner blocks are created last.
WhileIf == [b \in 1..6 |-> <<{2}, {3, 4}, {5, 6}, {}, {6}, {2}>>[b]]

Pred(g, b) == {p \in DOMAIN g : b \in g[p]}

\* The blocks reached from S in g without going through d.
Around(g, d) ==
  LET grow[n \in Nat] ==
        IF n = 0 THEN {1} \ {d}
        ELSE grow[n - 1] \cup (UNION {g[b] : b \in grow[n - 1]} \ {d})
  IN  grow[Cardinality(DOMAIN g)]
\* Where a value defined in block d may be read; 0 stands for a parameter.
Scope(g, d) == IF d = 0 THEN DOMAIN g ELSE DOMAIN g \ Around(g, d)

Plain(d, r) == [def |-> d, rands |-> r, phi |-> {}]
Phi(d, ps)  == [def |-> d, rands |-> {p[1] : p \in ps}, phi |-> ps]

(***************************************************************************)
(* The function on graph g where x is defined in block dx and read in the  *)
(* blocks rx, and block j starts with y = phi ps and y is read in ry.      *)
(***************************************************************************)
Fun(g, dx, rx, j, ps, ry) ==
  [bbs  |-> [i \in 1..Cardinality(DOMAIN g) |-> i],
   succ |-> [b \in Block |-> IF b \in DOMAIN g THEN g[b] ELSE {}],
   code |-> [b \in Block |->
     <<IF b = j THEN Phi({"y"}, ps) ELSE Plain({}, {}),
       Plain(IF b = dx THEN {"x"} ELSE {}, {}),
       Plain({}, {v \in {"x", "y"} : \/ v = "x" /\ b \in rx
                                     \/ v = "y" /\ b \in ry})>>]]

\* The operands a phi of block j may have: values available in the predecessor.
PhiOperands(g, dx, j) ==
  {UNION {{<<v, p>> : v \in c[p]} : p \in Pred(g, j)} :
     c \in [Pred(g, j) -> {{}, {"x"}, {"y"}}]}
Available(g, dx, j, ps) ==
  \A q \in ps : q[2] \in Scope(g, IF q[1] = "x" THEN dx ELSE j)

FunctionsOn(g, j, readX, readY) ==
  UNION {{Fun(g, dx, rx, j, ps, ry) :
            rx \in SUBSET (readX \cap Scope(g, dx)),
            ry \in SUBSET (readY \cap Scope(g, j)),
            ps \in {q \in PhiOperands(g, dx, j) : Available(g, dx, j, q)}} :
         dx \in {0} \cup DOMAIN g}

FourBlocks == FunctionsOn(IfElse, 4, 1..4, {4}) \cup FunctionsOn(While, 2, 1..4, {2, 3, 4})
SixBlocks  == FunctionsOn(WhileIf, 2, {2, 4, 5, 6}, {2, 4, 6})
MCFunctions == FourBlocks \cup SixBlocks
=============================================================================
