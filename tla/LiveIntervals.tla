----------------------------- MODULE LiveIntervals -----------------------------
(***************************************************************************)
(* RegAlloc::init_func of src/src/codegen/regalloc.cpp with dfs: the order *)
(* given to the blocks of a function, the interval of each parameter and   *)
(* named instruction, and the frame slots of the allocas.  It runs after   *)
(* PhiElim: there are no phis.                                             *)
(*                                                                         *)
(* An instruction has the value it is, if it has a name, the values among  *)
(* its operands and, for an alloca, the bytes it takes.  A point is        *)
(* <<bbindex, line_no>>.                                                   *)
(***************************************************************************)
EXTENDS Integers, Sequences, FiniteSets, Dominance

CONSTANTS
  Val,        \* parameters and named instructions, allocas included
  Block,      \* basic blocks
  Functions   \* the functions the register allocator may be run on

Instr == [val : SUBSET Val, rands : SUBSET Val, alloca : BOOLEAN, size : Nat]

IsFunction(g) ==
  /\ g.bbs \in Seq(Block)
  /\ g.bbs # << >>
  /\ g.succ \in [Block -> Seq(Block)]
  /\ g.code \in [Block -> Seq(Instr)]
  /\ g.used_args \subseteq Val       \* parameters whose use list is not empty
  /\ g.has_fcalls \in BOOLEAN
  /\ \A b \in Blocks(g) : SuccOf(g, b) \subseteq Blocks(g)

\* The values instruction j of b defines, and those it reads.
DefsAt(g, b, j)  == g.code[b][j].val
ReadsAt(g, b, j) == g.code[b][j].rands

\* A name is given once, and not to a parameter; the operands of an alloca are
\* constants.
OneDefinition(g) ==
  \A b \in Blocks(g) : \A j \in DOMAIN g.code[b] :
    /\ \A u, v \in DefsAt(g, b, j) : u = v
    /\ DefsAt(g, b, j) \cap g.used_args = {}
    /\ \A e \in Blocks(g) : \A h \in DOMAIN g.code[e] :
         DefsAt(g, b, j) \cap DefsAt(g, e, h) # {} => e = b /\ h = j
    /\ g.code[b][j].alloca => ReadsAt(g, b, j) = {}

\* The definition of v comes before instruction j of b.
Available(g, v, b, j) ==
  \/ v \in g.used_args
  \/ \E h \in 1..(j - 1) : v \in DefsAt(g, b, h)
  \/ \E d \in Blocks(g) : /\ StrictlyDominates(g, d, b)
                          /\ \E h \in DOMAIN g.code[d] : v \in DefsAt(g, d, h)

\* Definitions dominate reads, and a parameter that is read has a use list that
\* says so.
ReadsAvailable(g) ==
  \A b \in Blocks(g) : \A j \in DOMAIN g.code[b] :
    \A v \in ReadsAt(g, b, j) : Available(g, v, b, j)

ASSUME FunctionsAssumption ==
  \A g \in Functions : IsFunction(g) /\ OneDefinition(g) /\ ReadsAvailable(g)

VARIABLES
  f_,
  pc,              \* "dfs", "scan" or "done"
  stack,           \* calls of dfs that have not returned
  visited,
  c,               \* the next number dfs gives
  int2bb,          \* partial function from numbers to blocks
  bbcounter,       \* number of the block being scanned
  instr_counter,   \* instructions of it already scanned
  val2interval,    \* partial function from values to intervals
  stack_mappings,  \* partial function from allocas to offsets
  stack_size

order == <<stack, visited, c, int2bb>>
vars  == <<f_, pc, order, bbcounter, instr_counter, val2interval, stack_mappings, stack_size>>

Before(p, q) == p[1] < q[1] \/ (p[1] = q[1] /\ p[2] < q[2])

\* The partial function g with g[x] = y added or replaced.
Put(g, x, y) == [w \in DOMAIN g \cup {x} |-> IF w = x THEN y ELSE g[w]]

\* The bytes where the prologue saves s0 and, before a call, ra.
Header == IF f_.has_fcalls THEN 16 ELSE 8

\* A definition named Bad... is what a slip in the code would make of the one
\* after it; no other definition refers to it.
BadNumBlocks == Len(f_.bbs) - 1
NumBlocks == Len(f_.bbs)

Init ==
  /\ f_ \in Functions
  /\ pc = "dfs"
  /\ stack = <<f_.bbs[1]>>
  /\ visited = {f_.bbs[1]}
  /\ c = NumBlocks
  /\ int2bb = [n \in {} |-> f_.bbs[1]]
  /\ bbcounter = 0
  /\ instr_counter = 0
  /\ val2interval = [v \in f_.used_args |-> [start |-> <<0, 0>>, end |-> <<0, 0>>]]
  /\ stack_mappings = [v \in {} |-> 0]
  /\ stack_size = Header
-----------------------------------------------------------------------------
\* dfs: the first successor in the list not yet visited is next; a block is
\* numbered, from the number of blocks down, when it has none left.
Top == stack[Len(stack)]

Descend ==
  /\ pc = "dfs"
  /\ stack # << >>
  /\ \E j \in DOMAIN f_.succ[Top] :
       /\ f_.succ[Top][j] \notin visited
       /\ \A h \in 1..(j - 1) : f_.succ[Top][h] \in visited
       /\ visited' = visited \cup {f_.succ[Top][j]}
       /\ stack' = Append(stack, f_.succ[Top][j])
  /\ UNCHANGED <<f_, pc, c, int2bb, bbcounter, instr_counter, val2interval,
                 stack_mappings, stack_size>>

BadNumberOf == Len(f_.bbs) + 1 - c
NumberOf == c

Number ==
  /\ pc = "dfs"
  /\ stack # << >>
  /\ \A j \in DOMAIN f_.succ[Top] : f_.succ[Top][j] \in visited
  /\ int2bb' = Put(int2bb, NumberOf, Top)
  /\ c' = c - 1
  /\ stack' = SubSeq(stack, 1, Len(stack) - 1)
  /\ UNCHANGED <<f_, pc, visited, bbcounter, instr_counter, val2interval,
                 stack_mappings, stack_size>>

\* The loop over int2bb goes through it in the order of the numbers.
NextBlock ==
  /\ \/ pc = "dfs" /\ stack = << >>
     \/ pc = "scan" /\ instr_counter = Len(f_.code[int2bb[bbcounter]])
  /\ \E n \in DOMAIN int2bb :
       /\ n > bbcounter
       /\ \A k \in DOMAIN int2bb : k > bbcounter => n <= k
       /\ bbcounter' = n
  /\ pc' = "scan"
  /\ instr_counter' = 0
  /\ UNCHANGED <<f_, order, val2interval, stack_mappings, stack_size>>

instr  == f_.code[int2bb[bbcounter]][instr_counter + 1]
srcloc == <<bbcounter, instr_counter + 1>>

InBlock ==
  /\ pc = "scan"
  /\ instr_counter < Len(f_.code[int2bb[bbcounter]])
  /\ instr_counter' = instr_counter + 1
  /\ UNCHANGED <<f_, pc, order, bbcounter>>

\* The offset is that of the lowest byte of the slot.  An alloca has no interval
\* and its operands, constants, are not looked at.
BadSlot == stack_size
Slot == stack_size + instr.size

Alloca ==
  /\ InBlock
  /\ instr.alloca
  /\ stack_size' = Slot
  /\ stack_mappings' = [v \in DOMAIN stack_mappings \cup instr.val |->
                          IF v \in instr.val THEN -Slot ELSE stack_mappings[v]]
  /\ UNCHANGED val2interval

\* insert() keeps an interval that is there already.
Opened == [v \in DOMAIN val2interval \cup instr.val |->
             IF v \in DOMAIN val2interval THEN val2interval[v]
             ELSE [start |-> srcloc, end |-> srcloc]]

BadExtended == [v \in DOMAIN Opened |->
                  IF v \in instr.rands /\ Opened[v].end[1] = bbcounter
                  THEN [Opened[v] EXCEPT !.end = srcloc] ELSE Opened[v]]
\* Only operands that have an interval by now are noted.
Extended == [v \in DOMAIN Opened |->
               IF v \in instr.rands THEN [Opened[v] EXCEPT !.end = srcloc] ELSE Opened[v]]

Instruction ==
  /\ InBlock
  /\ ~instr.alloca
  /\ val2interval' = Extended
  /\ UNCHANGED <<stack_mappings, stack_size>>

Finish ==
  /\ pc = "scan"
  /\ instr_counter = Len(f_.code[int2bb[bbcounter]])
  /\ \A n \in DOMAIN int2bb : n <= bbcounter
  /\ pc' = "done"
  /\ UNCHANGED <<f_, order, bbcounter, instr_counter, val2interval, stack_mappings, stack_size>>

Next == Descend \/ Number \/ NextBlock \/ Alloca \/ Instruction \/ Finish

Spec == Init /\ [][Next]_vars
-----------------------------------------------------------------------------
Point == (0..Len(f_.bbs)) \X Nat

TypeOK ==
  /\ pc \in {"dfs", "scan", "done"}
  /\ stack \in Seq(Block)
  /\ visited \subseteq Block
  /\ c \in 0..Len(f_.bbs)
  /\ DOMAIN int2bb \subseteq 1..Len(f_.bbs)
  /\ int2bb \in [DOMAIN int2bb -> Block]
  /\ bbcounter \in 0..Len(f_.bbs)
  /\ instr_counter \in Nat
  /\ DOMAIN val2interval \subseteq Val
  /\ val2interval \in [DOMAIN val2interval -> [start : Point, end : Point]]
  /\ DOMAIN stack_mappings \subseteq Val
  /\ stack_mappings \in [DOMAIN stack_mappings -> Int]
  /\ stack_size \in Nat

\* The points of the instructions that are reached.
Points == UNION {{n} \X DOMAIN f_.code[int2bb[n]] : n \in DOMAIN int2bb}
At(p)  == f_.code[int2bb[p[1]]][p[2]]
InCode(v) == {p \in Points : v \in At(p).val}

Inside(p, i) == Before(i.start, p) /\ ~Before(i.end, p)

(***************************************************************************)
(* Every read of a register value, in a reached block, lies in its         *)
(* interval, after its start: the order of the blocks puts each definition *)
(* before the reads it dominates, so none is passed over as unknown.       *)
(***************************************************************************)
ReadsInside ==
  pc = "done" =>
    \A p \in Points : \A v \in At(p).rands \ DOMAIN stack_mappings :
      v \in DOMAIN val2interval /\ Inside(p, val2interval[v])

(***************************************************************************)
(* Liveness from paths.  X is closed under going backwards from the reads  *)
(* of v; v is live at the entry of b if b is in every such X.              *)
(***************************************************************************)
DefinedIn(v, b, h, j) == \E k \in h..j : v \in f_.code[b][k].val
ReadFrom(v, b, h)     == \E j \in h..Len(f_.code[b]) :
                            v \in f_.code[b][j].rands /\ ~DefinedIn(v, b, h, j - 1)
Leaves(v, b, h)       == ~DefinedIn(v, b, h, Len(f_.code[b]))

Closed(v, X) ==
  \A b \in Block : ReadFrom(v, b, 1) \/ (Leaves(v, b, 1) /\ SuccOf(f_, b) \cap X # {}) => b \in X

LiveIn(v) == {b \in Block : \A X \in SUBSET Block : Closed(v, X) => b \in X}

LiveBefore(v, p) ==
  LET b == int2bb[p[1]]
  IN  ReadFrom(v, b, p[2]) \/ (Leaves(v, b, p[2]) /\ SuccOf(f_, b) \cap LiveIn(v) # {})

Covered(v) == \A p \in Points : LiveBefore(v, p) => Inside(p, val2interval[v])

\* v is live along an edge that goes back in the order of the numbers.
Carried(v) ==
  \E m, n \in DOMAIN int2bb : /\ n <= m
                             /\ int2bb[n] \in SuccOf(f_, int2bb[m]) \cap LiveIn(v)

(***************************************************************************)
(* The interval of a value contains every point at which it is live,       *)
(* though nothing in init_func looks at paths, unless a loop carries the   *)
(* value round.  What LinearScan keeps apart by intervals is then kept     *)
(* apart for as long as it is needed.                                      *)
(***************************************************************************)
CoveredUnlessCarried ==
  pc = "done" => \A v \in DOMAIN val2interval : ~Carried(v) => Covered(v)

Bytes(a) == LET size == At(CHOOSE p \in InCode(a) : TRUE).size
            IN  stack_mappings[a]..(stack_mappings[a] + size - 1)

\* The slots of allocas overlap neither each other nor the saved s0 and ra,
\* and stay inside the frame, whatever their sizes.
SlotsDisjoint ==
  \A a \in DOMAIN stack_mappings :
    /\ Bytes(a) \subseteq (-stack_size)..(-1 - Header)
    /\ \A b \in DOMAIN stack_mappings \ {a} : Bytes(a) \cap Bytes(b) = {}
=============================================================================
