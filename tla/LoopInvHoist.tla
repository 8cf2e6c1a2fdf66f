----------------------------- MODULE LoopInvHoist -----------------------------
(***************************************************************************)
(* LoopInvHoist::run for one function: for each loop LoopSearch found, the *)
(* instructions that do the same in every iteration are moved to the end   *)
(* of the block before the loop.  Loops and the blocks of a loop come in   *)
(* any order, and so do the invariants that are moved: their set is in the *)
(* order of addresses, which says nothing of which reads which.            *)
(***************************************************************************)
EXTENDS LoopSearch, LightIR, SequencesExt

VARIABLES
  ir,          \* code, operands and use lists
  parent,      \* the block each instruction says it is in
  hoist,       \* "loops", "scan", "move" or "done"
  loops_left,  \* the loops not dealt with
  loop,        \* the one being dealt with
  bbs_left,    \* blocks of it not looked at
  invariants   \* what has been found in it

pass == <<ir, parent, hoist, loops_left, loop, bbs_left, invariants>>

InstrsIn(g) == UNION {Range(g.code[b]) : b \in Block}
ValuesIn(g) == InstrsIn(g) \cup UNION {Range(g.operands[x]) : x \in InstrsIn(g)}

InitHoist ==
  /\ InitSearch
  /\ ir = [code |-> f.code, operands |-> f.operands,
           use_list |-> [v \in ValuesIn(f) \cup Block |->
                           UNION {UsesIn(x, f.operands[x], v) : x \in InstrsIn(f)}]]
  /\ parent = [x \in InstrsIn(f) |-> CHOOSE b \in Block : x \in Range(f.code[b])]
  /\ hoist = "loops"
  /\ loops_left = {} /\ loop = {} /\ bbs_left = {} /\ invariants = {}

\* loop_searcher.run() comes first.
RunSearch ==
  /\ NextSearch
  /\ loops_left' = IF pc' = "done" THEN DOMAIN loop2base ELSE {}
  /\ UNCHANGED <<ir, parent, hoist, loop, bbs_left, invariants>>

NextLoop ==
  /\ pc = "done" /\ hoist = "loops"
  /\ IF loops_left = {} THEN hoist' = "done" /\ UNCHANGED <<loops_left, loop, bbs_left>>
     ELSE \E L \in loops_left :
            /\ hoist' = "scan"
            /\ loop' = L /\ bbs_left' = L /\ loops_left' = loops_left \ {L}
  /\ UNCHANGED <<search, ir, parent, invariants>>

IsInstr(v) == v \in DOMAIN parent
Stays(x) == x[1] \in {"call", "ret", "br", "phi"}

\* A definition named Bad... is what a slip in the code would make of the one
\* after it; no other definition refers to it.
BadInvInLoop(x, found) ==
  /\ ~Stays(x)
  /\ \E v \in Range(ir.operands[x]) : IsInstr(v) => parent[v] \notin loop \/ v \in found
\* inv_in_loop, once found are known to be invariant.
inv_in_loop(x, found) ==
  /\ ~Stays(x)
  /\ \A v \in Range(ir.operands[x]) : IsInstr(v) => parent[v] \notin loop \/ v \in found

\* The instructions of a block in their order.
ScanBlock ==
  /\ hoist = "scan"
  /\ \E b \in bbs_left :
       LET Add(found, x) == IF inv_in_loop(x, found) THEN found \cup {x} ELSE found
       IN  /\ invariants' = FoldLeft(Add, invariants, ir.code[b])
           /\ bbs_left' = bbs_left \ {b}
  /\ hoist' = IF bbs_left' # {} THEN "scan" ELSE IF invariants' # {} THEN "move" ELSE "loops"
  /\ UNCHANGED <<search, ir, parent, loops_left, loop>>

BadPredPre == {p \in PredsOf(f, loop2base[loop]) : p \in loop}
\* The predecessors of the base from outside; the last in its list is meant.
PredPre == {p \in PredsOf(f, loop2base[loop]) : p \notin loop}

MoveTo(b, g, x) == AddInstruction(DeleteInstr(g, parent[x], x), b, x)

\* moveout: the branch at the end of the block before the loop is taken out and put
\* back behind the invariants.
MoveOut ==
  /\ hoist = "move"
  /\ \E pred_pre \in PredPre : \E order \in SetToSeqs(invariants) :
       LET last == Last(ir.code[pred_pre])
           moved == FoldLeft(LAMBDA g, x : MoveTo(pred_pre, g, x),
                             DeleteInstr(ir, pred_pre, last), order)
       IN  /\ ir' = AddInstruction(moved, pred_pre, last)
           /\ parent' = [x \in DOMAIN parent |-> IF x \in invariants THEN pred_pre ELSE parent[x]]
  /\ invariants' = {}
  /\ hoist' = "loops"
  /\ UNCHANGED <<search, loops_left, loop, bbs_left>>

NextHoist == RunSearch \/ NextLoop \/ ScanBlock \/ MoveOut
-----------------------------------------------------------------------------
(***************************************************************************)
(* moveout takes an instruction outwards: every loop it ends up in is one  *)
(* it was in.                                                              *)
(***************************************************************************)
MovesOutwards ==
  [][\A x \in DOMAIN parent : parent'[x] # parent[x] =>
       /\ \A L \in DOMAIN loop2base : parent'[x] \in L => parent[x] \in L
       /\ \E L \in DOMAIN loop2base : parent[x] \in L /\ parent'[x] \notin L]_parent
=============================================================================
