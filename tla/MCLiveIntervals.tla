---------------------------- MODULE MCLiveIntervals ----------------------------
(***************************************************************************)
(* Functions for LiveIntervals: the graphs the builder lays out for small  *)
(* statements, a parameter or a value x, and two allocas in the entry.     *)
(***************************************************************************)
EXTENDS LiveIntervals

MCVal == {"x", "a1", "a2"}

\* A conditional branch lists the successor for false first.
IfElse == <<<<3, 2>>, <<4>>, <<4>>, << >>>>
While  == <<<<2>>, <<4, 3>>, <<2>>, << >>>>
\* while (2) if (3) 5; 6 back to 2; 4: the inner blocks are created last.
WhileIf == <<<<2>>, <<4, 3>>, <<6, 5>>, << >>, <<6>>, <<2>>>>

\* The blocks reached from the entry without going through d.
Reached(g, d) ==
  LET grow[n \in Nat] ==
        IF n = 0 THEN {1} \ {d}
        ELSE grow[n - 1] \cup
             (UNION {{g[b][j] : j \in DOMAIN g[b]} : b \in grow[n - 1]} \ {d})
  IN  grow[Len(g)]
\* Where a value defined in block d may be read; 0 stands for a parameter.
Scope(g, d) == IF d = 0 THEN DOMAIN g ELSE DOMAIN g \ Reached(g, d)

None      == [val |-> {}, rands |-> {}, alloca |-> FALSE, size |-> 0]
New(v, n) == [val |-> {v}, rands |-> {}, alloca |-> TRUE, size |-> n]
Def(v)    == [None EXCEPT !.val = {v}]
Read(S)   == [None EXCEPT !.rands = S]

(***************************************************************************)
(* The function on graph g where x is defined in block dx and read in the  *)
(* blocks early, before the definition, and in the blocks late, after it;  *)
(* the allocas take s1 and s2 bytes.                                       *)
(***************************************************************************)
Fun(g, dx, early, late, s1, s2, calls) ==
  [bbs       |-> [n \in DOMAIN g |-> n],
   succ      |-> [b \in Block |-> IF b \in DOMAIN g THEN g[b] ELSE << >>],
   code      |-> [b \in Block |->
      (IF b = 1 THEN <<New("a1", s1), New("a2", s2)>> ELSE << >>) \o
      <<Read(IF b \in early THEN {"x"} ELSE {}),
        IF b = dx THEN Def("x") ELSE None,
        Read(IF b \in late THEN {"x", "a1"} ELSE {"a1"})>>],
   used_args |-> IF dx = 0 /\ early \cup late # {} THEN {"x"} ELSE {},
   has_fcalls |-> calls]

FunctionsOn(g) ==
  UNION {{Fun(g, dx, early, late, s[1], s[2], s[3]) :
            early \in SUBSET (Scope(g, dx) \ {dx}), late \in SUBSET Scope(g, dx),
            s \in {<<4, 40, TRUE>>, <<8, 4, FALSE>>}} :
         dx \in {0} \cup DOMAIN g}

\* An if inside a while.
Nested == UNION {{Fun(WhileIf, dx, {}, late, 4, 4, FALSE) :
                    late \in SUBSET Scope(WhileIf, dx)} : dx \in {0} \cup DOMAIN WhileIf}

MCFunctions == FunctionsOn(IfElse) \cup FunctionsOn(While) \cup Nested
=============================================================================
