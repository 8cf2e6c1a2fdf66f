------------------------------ MODULE PhiSemantics ------------------------------
(***************************************************************************)
(* A function is executed after PhiElim.  What its phis did at once, the   *)
(* loads and stores that replace them do one after the other: the          *)
(* execution implements one of the function as it was.                     *)
(***************************************************************************)
EXTENDS PhiElim

CONSTANT Data   \* the values a program computes with

ASSUME DataAssumption ==
  0 \in Data /\ \A g \in Functions : \A v \in ValuesOf(g) : v[1] = "const" => v[2] \in Data

VARIABLES bb, line, env, mem, seen

vars == <<pass, bb, line, env, mem, seen>>

After == INSTANCE IRMachine

\* The values an execution gives to names: arguments, instructions and loads.
Names == {v \in ValuesOf(f) : v[1] \in {"arg", "op", "phi"}} \cup {LoadOf(p) : p \in PhisOf(f)}

Init ==
  /\ InitPass
  /\ bb = entry
  /\ line = 1
  /\ \E args \in [{v \in Names : v[1] = "arg"} -> Data] :
       env = [v \in Names |-> IF v[1] = "arg" THEN args[v] ELSE 0]
  /\ mem \in [{AllocaOf(p) : p \in PhisOf(f)} -> Data]
  /\ seen = << >>

Compile == NextPass /\ UNCHANGED <<bb, line, env, mem, seen>>
Execute == pc = "done" /\ After!Step /\ UNCHANGED pass

Next == Compile \/ Execute

Spec == Init /\ [][Next]_vars
-----------------------------------------------------------------------------
\* The first instruction from here on that the function had before.
Ahead == {j \in DOMAIN f.code[bb] :
            /\ ~IsPhi(f.code[bb][j])
            /\ \E h \in DOMAIN ir.code[bb] : h >= line /\ ir.code[bb][h] = f.code[bb][j]}

OldLine ==
  IF pc # "done" THEN line
  ELSE IF Ahead = {} THEN Len(f.code[bb]) + 1
  ELSE CHOOSE j \in Ahead : \A h \in Ahead : j <= h

\* A phi has its value from the branch into its block on: until the load has
\* been executed it is in the cell, from then on it is the value of the load.
StillInCell(p) == \E h \in DOMAIN ir.code[bb] : h >= line /\ ir.code[bb][h] = LoadOf(p)
OldValue(v) == IF ~IsPhi(v) THEN env[v]
               ELSE IF StillInCell(v) THEN mem[AllocaOf(v)] ELSE env[LoadOf(v)]

OldNames == {v \in ValuesOf(f) : v[1] \in {"arg", "op", "phi"}}

Before == INSTANCE IRMachine WITH
  ir   <- f,
  line <- OldLine,
  env  <- [v \in OldNames |-> OldValue(v)],
  mem  <- << >>

(***************************************************************************)
(* Every execution after the pass is one of the function before it:        *)
(* instruction by instruction the same values are read and the same        *)
(* branches taken, although the phis of a block, which may read each       *)
(* other, are stored one by one, in any order and also on edges that lead  *)
(* elsewhere.                                                              *)
(***************************************************************************)
Implements == Before!Start(entry) /\ [][Before!Step]_(Before!state)
=============================================================================
