----------------------------- MODULE MCLinearScan -----------------------------
(***************************************************************************)
(* Instances of LinearScan for TLC.  The register file is scaled down, one *)
(* temporary and two argument registers of each class instead of seven and *)
(* eight, which keeps the relation between them: Capacity is twice the     *)
(* temporaries, and one argument register more than there are temporaries. *)
(***************************************************************************)
EXTENDS LinearScan

CONSTANT NumInstr   \* named instructions of a function, at points 1..NumInstr

MCTempIds == {5}
MCArgIds  == <<10, 11>>

\* Values 1 and 2 are parameters, the others are instructions in code order.
MCVal     == 1..(NumInstr + 2)
Instr(k)  == k + 2
InstrEnds == {e \in [1..NumInstr -> 1..(NumInstr + 1)] : \A k \in 1..NumInstr : e[k] >= k}

\* The function with n parameters, of which those in used have a use, and an
\* instruction at each point k that is last used at e[k].
Fun(n, used, e, float) ==
  LET have == used \cup {Instr(k) : k \in 1..NumInstr}
  IN  [args  |-> [k \in 1..n |-> k],
       float |-> float,
       size  |-> [v \in MCVal |-> 4],
       start |-> [v \in have |-> IF v <= 2 THEN 0 ELSE v - 2],
       end   |-> [v \in have |-> IF v <= 2 THEN NumInstr ELSE e[v - 2]],
       frame |-> 8]

AllFunctions ==
  {Fun(n, used, e, float) : n \in {0, 2}, used \in SUBSET {1, 2},
                            e \in InstrEnds, float \in [MCVal -> BOOLEAN]}

\* Parameters that are not there have no use and no type.
Meaningful(f) == f.args = << >> => /\ {1, 2} \cap DOMAIN f.start = {}
                                   /\ \A k \in {1, 2} : ~f.float[k]

OneFunction  == {<<f>> : f \in {g \in AllFunctions : Meaningful(g)}}

\* Functions whose values all interfere, to be allocated one after another.
Crowded      == {f \in AllFunctions : /\ Meaningful(f)
                                      /\ \A v \in DOMAIN f.start : f.end[v] = NumInstr + 1 \/ v <= 2
                                      /\ \A v, w \in {Instr(k) : k \in 2..NumInstr} :
                                           f.float[v] = f.float[w]}
TwoFunctions == {<<f, g>> : f \in Crowded, g \in Crowded}

MCModules == OneFunction \cup TwoFunctions
=============================================================================
