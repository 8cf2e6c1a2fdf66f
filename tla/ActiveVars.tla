------------------------------ MODULE ActiveVars ------------------------------
(***************************************************************************)
(* The live variable analysis of src/src/optimization/ActiveVars.cpp for   *)
(* one function: calc_def_and_use and the backward iteration of run.  The  *)
(* sets of a function are kept under its own blocks and live_in, live_out  *)
(* are cleared before each, so functions do not meet.                      *)
(*                                                                         *)
(* A variable is a named value that is not a label or a callee.  An        *)
(* instruction has the variable it defines, if any, the variables among    *)
(* its operands and, for a phi, its <<variable, label>> pairs.             *)
(***************************************************************************)
EXTENDS Integers, Sequences, FiniteSets

CONSTANTS
  Var,        \* named values
  Block,      \* basic blocks
  Functions   \* the functions the analysis may be run on

Instr == [def : SUBSET Var, rands : SUBSET Var, phi : SUBSET (Var \X Block)]

IsFunction(g) ==
  /\ g.bbs \in Seq(Block)
  /\ g.succ \in [Block -> SUBSET {g.bbs[j] : j \in DOMAIN g.bbs}]
  /\ g.code \in [Block -> Seq(Instr)]
  \* the operands of a phi are those of its pairs
  /\ \A b \in Block : \A j \in DOMAIN g.code[b] :
       g.code[b][j].phi # {} => g.code[b][j].rands = {p[1] : p \in g.code[b][j].phi}

ASSUME FunctionsAssumption == \A g \in Functions : IsFunction(g)

VARIABLES
  f,         \* func_
  pc,        \* "visit" in the body of do ... while, "done" after it
  k,         \* bbs[1] .. bbs[k] are still to be visited in this pass
  changed,
  live_in,
  live_out

vars == <<f, pc, k, changed, live_in, live_out>>

Blocks == {f.bbs[j] : j \in DOMAIN f.bbs}

(***************************************************************************)
(* calc_def_and_use.  An operand is a use unless an instruction before it  *)
(* in the block is already among the defs, and a value is a def unless it  *)
(* is already among the uses.  As every value is defined once, the former  *)
(* are the values read before they are defined, and the latter the values  *)
(* defined and not read before.  A phi is read like any other instruction. *)
(***************************************************************************)
DefinedBefore(b, j) == UNION {f.code[b][i].def : i \in 1..(j - 1)}
ReadFirst(b, j)     == f.code[b][j].rands \ DefinedBefore(b, j)
AllDefs(b)          == UNION {f.code[b][j].def : j \in DOMAIN f.code[b]}

use(b) == UNION {ReadFirst(b, j) : j \in DOMAIN f.code[b]}
def(b) == AllDefs(b) \ use(b)

PhiPairs(b)   == UNION {f.code[b][j].phi : j \in DOMAIN f.code[b]}
phiuses(s, b) == {v \in Var : <<v, b>> \in PhiPairs(s)}
FromPhi(s)    == {v \in Var : \E b \in Block : <<v, b>> \in PhiPairs(s)}
-----------------------------------------------------------------------------
\* A definition named Bad... is what a slip in the code would make of the one
\* after it; no other definition refers to it.
BadLast == Len(f.bbs) + 1
Last == Len(f.bbs)

Init ==
  /\ f \in Functions
  /\ f.bbs # << >>
  /\ pc = "visit"
  /\ k = Last
  /\ changed = FALSE
  /\ live_in = [b \in Block |-> {}]
  /\ live_out = [b \in Block |-> {}]

\* What a successor s hands to b: an operand of a phi of s goes only to the
\* predecessors it is paired with, whatever else keeps it live in s.
BadPasses(s, b) == live_in[s]
Passes(s, b) == {v \in live_in[s] : v \in FromPhi(s) => v \in phiuses(s, b)}

Out(b) == live_out[b] \cup UNION {Passes(s, b) : s \in f.succ[b]}

BadChangedLate(b) == changed
BadChangedNonEmpty(b) == changed \/ Out(b) # {}
\* changed |= out.size() != size_before; nothing is ever removed from out.
Changed(b) == changed \/ Out(b) # live_out[b]

In(b) == (Out(b) \ def(b)) \cup use(b)

\* The body of the for loop, for the block *itr.
Visit ==
  /\ pc = "visit"
  /\ k > 0
  /\ LET b == f.bbs[k] IN
       /\ live_out' = [live_out EXCEPT ![b] = Out(b)]
       /\ changed' = Changed(b)
       /\ live_in' = [live_in EXCEPT ![b] = In(b)]
  /\ k' = k - 1
  /\ UNCHANGED <<f, pc>>

NextPass ==
  /\ pc = "visit"
  /\ k = 0
  /\ changed
  /\ changed' = FALSE
  /\ k' = Last
  /\ UNCHANGED <<f, pc, live_in, live_out>>

\* Only the sizes of the out sets decide, and in is assigned after them.
Stop ==
  /\ pc = "visit"
  /\ k = 0
  /\ ~changed
  /\ pc' = "done"
  /\ UNCHANGED <<f, k, changed, live_in, live_out>>

Next == Visit \/ NextPass \/ Stop

Spec == Init /\ [][Next]_vars

\* The pass is a plain loop of a sequential program: it goes on while it can.
FairSpec == Spec /\ WF_vars(Next)
-----------------------------------------------------------------------------
TypeOK ==
  /\ pc \in {"visit", "done"}
  /\ k \in 0..Len(f.bbs)
  /\ changed \in BOOLEAN
  /\ live_in \in [Block -> SUBSET Var]
  /\ live_out \in [Block -> SUBSET Var]

(***************************************************************************)
(* The data-flow equations of Documentations/4-ir-opt/README.md:107-113,   *)
(* for one variable v, as sets X of blocks at whose entry v is live, phis  *)
(* left out: X is closed under going backwards from the uses of v.  The    *)
(* variable really is live where every such X has it.                      *)
(***************************************************************************)
Exposed(b) == UNION {ReadFirst(b, j) : j \in {i \in DOMAIN f.code[b] : f.code[b][i].phi = {}}}

LiveAtEnd(v, X, b) == \E s \in f.succ[b] : s \in X \/ v \in phiuses(s, b)

Closed(v, X) ==
  \A b \in Block :
    v \in Exposed(b) \/ (v \notin AllDefs(b) /\ LiveAtEnd(v, X, b)) => b \in X

(***************************************************************************)
(* Nothing is reported live that is not: the analysis never goes beyond    *)
(* the least solution of the equations, in spite of reading phis as plain  *)
(* uses and of dropping from def what a block reads before defining it.    *)
(***************************************************************************)
NeverTooMuch ==
  pc = "done" =>
    \A v \in Var, b \in Block : v \in live_out[b] =>
      \A X \in SUBSET Block : Closed(v, X) => LiveAtEnd(v, X, b)

Ordinary(v) == \A b \in Block : v \notin FromPhi(b)

(***************************************************************************)
(* When the loop stops, the sets solve the equations for every variable    *)
(* that is no operand of a phi, although the test looks at live_out alone  *)
(* and live_in moves after it; the exception is a first pass that finds    *)
(* no block with anything live at its end.                                 *)
(***************************************************************************)
StopsAtSolution ==
  pc = "done" /\ (\E b \in Block : live_out[b] # {}) =>
    \A v \in Var, b \in Blocks : Ordinary(v) =>
      /\ v \in live_out[b] <=> \E s \in f.succ[b] : v \in live_in[s]
      /\ v \in live_in[b] <=> v \in Exposed(b) \/ (v \in live_out[b] /\ v \notin AllDefs(b))

\* A pass that changes nothing is reached: run() returns.
Terminates == <>(pc = "done")
=============================================================================
