------------------------------ MODULE LoopSearch ------------------------------
(***************************************************************************)
(* The search for loops (LoopSearch.cpp).  In rounds, Tarjan's algorithm   *)
(* finds the strongly connected components of the control-flow graph; the  *)
(* base of each, its way in, is taken out of the graph, so that the next   *)
(* round finds the loops inside.  Sets of nodes are hash sets of pointers: *)
(* nodes, successors, predecessors and components come in any order.       *)
(***************************************************************************)
EXTENDS Dominance, FiniteSets, Functions

CONSTANTS
  Block,      \* the basic blocks
  Functions   \* the functions considered, with the components bbs and succ

VARIABLES
  f,              \* the function
  pc,             \* "search", "bases" or "done"
  nodes,          \* the nodes of this round
  succs, prevs,   \* of each node: the edges that are left
  index, lowlink, \* of each node, -1 before its visit
  stack,          \* nodes visited and not yet in a component
  index_count,
  calls,          \* the calls of traverse: node and successors to look at
  sccs,           \* the components found
  reserved,       \* the bases taken out
  loop2base,      \* the loops found: base of each
  base2loop, bb2base

tarjan == <<index, lowlink, stack, index_count, calls>>
loops  == <<loop2base, base2loop, bb2base>>
search == <<f, pc, nodes, succs, prevs, tarjan, sccs, reserved, loops>>

Nil == <<"none">>
onStack(n) == \E i \in DOMAIN stack : stack[i] = n
Least(x, y) == IF x < y THEN x ELSE y
None == [x \in {} |-> Nil]

Unvisited == [b \in Block |-> -1]

InitSearch ==
  /\ f \in Functions
  /\ pc = "search"
  /\ nodes = Blocks(f)
  /\ succs = [b \in Block |-> IF b \in nodes THEN SuccOf(f, b) ELSE {}]
  /\ prevs = [b \in Block |-> IF b \in nodes THEN PredsOf(f, b) ELSE {}]
  /\ index = Unvisited /\ lowlink = Unvisited
  /\ stack = << >> /\ index_count = 0 /\ calls = << >>
  /\ sccs = {} /\ reserved = {}
  /\ loop2base = None /\ base2loop = None /\ bb2base = None

-----------------------------------------------------------------------------
Depth == Len(calls)
this  == calls[Depth].node
todo  == calls[Depth].todo

Call(n) == [node |-> n, todo |-> succs[n]]

\* The beginning of traverse(n).
Enter(n) ==
  /\ index' = [index EXCEPT ![n] = index_count]
  /\ lowlink' = [lowlink EXCEPT ![n] = index_count]
  /\ index_count' = index_count + 1
  /\ stack' = Append(stack, n)

\* strongly_connected_components starts with any node not visited.
Visit ==
  /\ pc = "search" /\ calls = << >>
  /\ \E n \in nodes :
       /\ index[n] = -1
       /\ Enter(n)
       /\ calls' = <<Call(n)>>
  /\ UNCHANGED <<f, pc, nodes, succs, prevs, sccs, reserved, loops>>

\* A successor not visited is visited now.
VisitSucc ==
  /\ calls # << >>
  /\ \E su \in todo :
       /\ index[su] = -1
       /\ Enter(su)
       /\ calls' = Append([calls EXCEPT ![Depth].todo = @ \ {su}], Call(su))
  /\ UNCHANGED <<f, pc, nodes, succs, prevs, sccs, reserved, loops>>

\* A definition named Bad... is what a slip in the code would make of the one
\* after it; no other definition refers to it.
BadSeen(su) == index[su]
Seen(su) == IF onStack(su) THEN index[su] ELSE lowlink[this]
\* A successor on the stack is in the component; one that has left it is not.
LookAtSucc ==
  /\ calls # << >>
  /\ \E su \in todo :
       /\ index[su] # -1
       /\ lowlink' = [lowlink EXCEPT ![this] = Least(Seen(su), @)]
       /\ calls' = [calls EXCEPT ![Depth].todo = @ \ {su}]
  /\ UNCHANGED <<f, pc, nodes, succs, prevs, index, stack, index_count, sccs, reserved, loops>>

\* What is on the stack from n on.
Above(n) == {stack[i] : i \in {j \in DOMAIN stack : index[stack[j]] >= index[n]}}

\* The end of traverse: the first node of a component takes it off the stack; one
\* node alone is no loop.  The caller takes over the lowlink.
Leave ==
  /\ calls # << >> /\ todo = {}
  /\ IF index[this] = lowlink[this]
       THEN LET set == Above(this)
                in(n) == n \notin set
            IN  /\ stack' = SelectSeq(stack, in)
                /\ sccs' = IF Cardinality(set) = 1 THEN sccs ELSE sccs \cup {set}
       ELSE UNCHANGED <<stack, sccs>>
  /\ lowlink' = IF Depth = 1 THEN lowlink
                ELSE [lowlink EXCEPT ![calls[Depth - 1].node] = Least(lowlink[this], @)]
  /\ calls' = SubSeq(calls, 1, Depth - 1)
  /\ UNCHANGED <<f, pc, nodes, succs, prevs, index, index_count, reserved, loops>>

-----------------------------------------------------------------------------
\* A node with an edge from outside; without one, where an edge from a base that
\* was taken out leads.
WaysIn(set) ==
  LET entered == {n \in set : ~(prevs[n] \subseteq set)}
  IN  IF entered # {} THEN entered ELSE set \cap UNION {succs[r] : r \in reserved}

\* All nodes are visited: the components, or the end when there are none.  The
\* indices are reset here; nothing reads them before the next round.
EndOfRound ==
  /\ pc = "search" /\ calls = << >>
  /\ \A n \in nodes : index[n] # -1
  /\ IF sccs # {} THEN pc' = "bases" /\ UNCHANGED <<nodes, succs, prevs, reserved>>
     ELSE /\ pc' = "done" /\ nodes' = {} /\ reserved' = {}
          /\ succs' = [b \in Block |-> {}] /\ prevs' = [b \in Block |-> {}]
  /\ index' = Unvisited /\ lowlink' = Unvisited /\ index_count' = 0
  /\ UNCHANGED <<f, stack, calls, sccs, loops>>

BadCutSuccs(base) == [n \in Block |-> succs[n]]
\* The edges to base leave the predecessors base still knows; its own lists stay.
CutSuccs(base) == [n \in Block |-> IF n \in prevs[base] THEN succs[n] \ {base} ELSE succs[n]]
CutPrevs(base) == [n \in Block |-> IF n \in succs[base] THEN prevs[n] \ {base} ELSE prevs[n]]

Put(fn, S, v) == [x \in DOMAIN fn \cup S |-> IF x \in S THEN v ELSE fn[x]]
BadNote(fn, S, v) == [x \in DOMAIN fn \cup S |-> IF x \in DOMAIN fn THEN fn[x] ELSE v]
Note(fn, S, v) == Put(fn, S, v)

\* Steps 3 to 6 for one component; the last component ends the round.
TakeBase ==
  /\ pc = "bases"
  /\ \E scc \in sccs : \E base \in WaysIn(scc) :
       /\ loop2base' = Put(loop2base, {scc}, base)
       /\ base2loop' = Put(base2loop, {base}, scc)
       /\ bb2base' = Note(bb2base, scc, base)
       /\ reserved' = reserved \cup {base}
       /\ nodes' = nodes \ {base}
       /\ prevs' = CutPrevs(base)
       /\ succs' = CutSuccs(base)
       /\ sccs' = sccs \ {scc}
  /\ pc' = IF sccs' = {} THEN "search" ELSE "bases"
  /\ UNCHANGED <<f, tarjan>>

NextSearch == Visit \/ VisitSucc \/ LookAtSucc \/ Leave \/ EndOfRound \/ TakeBase

get_inner_loop(b) == IF b \in DOMAIN bb2base THEN base2loop[bb2base[b]] ELSE {}

Outside(loop) == PredsOf(f, loop2base[loop]) \ loop
ParentSeen(loop, p) ==
  LET outer == get_inner_loop(p)
  IN  IF loop2base[loop] \in outer THEN outer ELSE {}
get_parent_loop(loop) ==
  IF Outside(loop) = {} THEN {{}} ELSE {ParentSeen(loop, p) : p \in Outside(loop)}

-----------------------------------------------------------------------------
(***************************************************************************)
(* The natural loop of a header h: h and the blocks that reach a back edge *)
(* to h without going through it.                                          *)
(***************************************************************************)
BackEdges(h) == {p \in PredsOf(f, h) : p # h /\ Dominates(f, h, p)}
NaturalLoop(h) ==
  LET back == BackEdges(h)
      closed == {X \in SUBSET Blocks(f) : /\ back \cup {h} \subseteq X
                                          /\ \A b \in X \ {h} : PredsOf(f, b) \subseteq X}
  IN  {b \in Blocks(f) : \A X \in closed : b \in X}
Headers == {h \in Blocks(f) : BackEdges(h) # {}}

\* The smallest loop of S, none if S is empty.
Smallest(S) == IF S = {} THEN {} ELSE CHOOSE L \in S : \A M \in S : L \subseteq M

(***************************************************************************)
(* LoopSearch::run: whatever the order of the sets, the loops found are    *)
(* the natural loops of the function, each with its header as base.        *)
(***************************************************************************)
LoopsExact ==
  pc = "done" =>
    {<<L, loop2base[L]>> : L \in DOMAIN loop2base} = {<<NaturalLoop(h), h>> : h \in Headers}

(***************************************************************************)
(* CodeReading.md:36-37: get_inner_loop is the innermost loop of a block,  *)
(* although outer loops have been noted for it before, and get_parent_loop *)
(* the next loop further out, where no loop is left straight into the base *)
(* of the next.                                                            *)
(***************************************************************************)
Nesting ==
  pc = "done" =>
    /\ \A b \in Blocks(f) : get_inner_loop(b) = Smallest({L \in DOMAIN loop2base : b \in L})
    /\ \A L \in DOMAIN loop2base :
         (\A p \in Outside(L), M \in DOMAIN loop2base : p \in M => L \subseteq M) =>
           get_parent_loop(L) = {Smallest({M \in DOMAIN loop2base : L \subseteq M /\ L # M})}
=============================================================================
