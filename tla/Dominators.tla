------------------------------ MODULE Dominators ------------------------------
(***************************************************************************)
(* The dominator analysis of src/src/optimization/Dominators.cpp for one   *)
(* function: post_order_visit, create_idom with intersect,                 *)
(* create_dominance_frontier and create_dom_tree_succ.  Each loop of the   *)
(* code is a loop here.  The recursion of post_order_visit is a stack of   *)
(* the blocks whose call is not over.  The maps are indexed by block, and  *)
(* a block belongs to one function, so functions do not meet.              *)
(***************************************************************************)
EXTENDS Integers, Sequences, FiniteSets, Dominance

CONSTANTS
  Block,      \* basic blocks
  NoBlock,    \* nullptr
  Functions   \* the functions the analysis may be run on

\* The lists of successors and predecessors hold the same edges, all of them
\* between blocks of the function, and every block can be reached.
IsFunction(g) ==
  LET bbs     == {g.bbs[j] : j \in DOMAIN g.bbs}
      succ(b) == {g.succ[b][j] : j \in DOMAIN g.succ[b]}
      pre(b)  == {g.pre[b][j] : j \in DOMAIN g.pre[b]}
  IN  /\ g.bbs \in Seq(Block)
      /\ g.bbs # << >>
      /\ g.succ \in [Block -> Seq(Block)]
      /\ g.pre \in [Block -> Seq(Block)]
      /\ \A b \in bbs : succ(b) \subseteq bbs /\ pre(b) \subseteq bbs
      /\ \A b, c \in bbs : c \in succ(b) <=> b \in pre(c)
      /\ \A X \in SUBSET bbs :
           g.bbs[1] \in X /\ (\A b \in X : succ(b) \subseteq X) => X = bbs

ASSUME BlockAssumption == NoBlock \notin Block
ASSUME FunctionsAssumption == \A g \in Functions : IsFunction(g)

\* Nothing jumps to the entry; create_dominance_frontier depends on it, for it
\* looks for joins by the number of predecessors alone.
ASSUME EntryAssumption == \A g \in Functions : g.pre[g.bbs[1]] = << >>

VARIABLES
  f,               \* the function
  pc,              \* "visit", "idom", "meet", "frontier", "walk" or "done"
  stack,           \* calls of post_order_visit that have not returned
  visited,
  order,           \* reverse_post_order_ before it is reversed
  post_order_id_,
  idom_,
  changed,
  i,               \* blocks of reverse_post_order_ this pass has dealt with
  b1, b2,          \* the two blocks of intersect; b2 is new_idom
  pred,            \* the predecessor new_idom was initialised with
  met,             \* predecessors new_idom has been intersected with, or skipped
  bb_at, pre_at,   \* the block and the predecessor create_dominance_frontier is at
  runner,          \* the block it has reached from there
  dom_frontier_,
  dom_tree_succ_blocks_

dfs  == <<stack, visited, order, post_order_id_>>
meet == <<b1, b2, pred, met>>
walk == <<bb_at, pre_at, runner>>
vars == <<f, pc, dfs, idom_, changed, i, meet, walk, dom_frontier_, dom_tree_succ_blocks_>>

root == f.bbs[1]
Bbs  == {f.bbs[m] : m \in DOMAIN f.bbs}
Succ(b) == {f.succ[b][m] : m \in DOMAIN f.succ[b]}
Pre(b)  == {f.pre[b][m] : m \in DOMAIN f.pre[b]}

Init ==
  /\ f \in Functions
  /\ pc = "visit"
  /\ stack = <<root>>
  /\ visited = {root}
  /\ order = << >>
  /\ post_order_id_ = [b \in {} |-> 0]
  /\ idom_ = [b \in Block |-> NoBlock]
  /\ changed = FALSE
  /\ i = 0
  /\ b1 = NoBlock /\ b2 = NoBlock /\ pred = NoBlock /\ met = 0
  /\ bb_at = 1 /\ pre_at = 1 /\ runner = NoBlock
  /\ dom_frontier_ = [b \in Block |-> {}]
  /\ dom_tree_succ_blocks_ = [b \in Block |-> {}]
-----------------------------------------------------------------------------
(***************************************************************************)
(* post_order_visit: the first successor in the list not yet visited is    *)
(* visited next; a block is numbered when it has none left.                *)
(***************************************************************************)
Top == stack[Len(stack)]

Descend ==
  /\ pc = "visit"
  /\ stack # << >>
  /\ \E m \in DOMAIN f.succ[Top] :
       /\ f.succ[Top][m] \notin visited
       /\ \A l \in 1..(m - 1) : f.succ[Top][l] \in visited
       /\ visited' = visited \cup {f.succ[Top][m]}
       /\ stack' = Append(stack, f.succ[Top][m])
  /\ UNCHANGED <<f, pc, order, post_order_id_, idom_, changed, i, meet, walk,
                 dom_frontier_, dom_tree_succ_blocks_>>

\* A definition named Bad... is what a slip in the code would make of the one
\* after it; no other definition refers to it.
BadNewId == Len(order) - 1
NewId == Len(order)

Number ==
  /\ pc = "visit"
  /\ stack # << >>
  /\ Succ(Top) \subseteq visited
  /\ post_order_id_' = [b \in DOMAIN post_order_id_ \cup {Top} |->
                          IF b = Top THEN NewId ELSE post_order_id_[b]]
  /\ order' = Append(order, Top)
  /\ stack' = SubSeq(stack, 1, Len(stack) - 1)
  /\ UNCHANGED <<f, pc, visited, idom_, changed, i, meet, walk,
                 dom_frontier_, dom_tree_succ_blocks_>>

\* The reversed order, and the initialisation of create_idom.
Numbered ==
  /\ pc = "visit"
  /\ stack = << >>
  /\ pc' = "idom"
  /\ idom_' = [idom_ EXCEPT ![root] = root]
  /\ UNCHANGED <<f, dfs, changed, i, meet, walk, dom_frontier_, dom_tree_succ_blocks_>>

BadBB == order[i + 1]
\* The block the pass is at: the reverse post order goes down in number.
BB == order[Len(order) - i]

SkipRoot ==
  /\ pc = "idom"
  /\ i < Len(order)
  /\ BB = root
  /\ i' = i + 1
  /\ UNCHANGED <<f, pc, dfs, idom_, changed, meet, walk, dom_frontier_, dom_tree_succ_blocks_>>

\* The first predecessor in the list that has an idom.
IsPred(p) ==
  \E m \in DOMAIN f.pre[BB] :
    /\ p = f.pre[BB][m]
    /\ idom_[p] # NoBlock
    /\ \A l \in 1..(m - 1) : idom_[f.pre[BB][l]] = NoBlock

StartMeet ==
  /\ pc = "idom"
  /\ i < Len(order)
  /\ BB # root
  /\ \E p \in Block :
       /\ IsPred(p)
       /\ pred' = p
       /\ b1' = p
       /\ b2' = p
  /\ met' = 0
  /\ pc' = "meet"
  /\ UNCHANGED <<f, dfs, idom_, changed, i, walk, dom_frontier_, dom_tree_succ_blocks_>>

BadMeets(p) == FALSE
Meets(p) == p # pred /\ idom_[p] # NoBlock

\* intersect(p, new_idom) is called for the next predecessor p if it has an idom.
NextPred ==
  /\ pc = "meet"
  /\ b1 = b2
  /\ met < Len(f.pre[BB])
  /\ b1' = IF Meets(f.pre[BB][met + 1]) THEN f.pre[BB][met + 1] ELSE b1
  /\ met' = met + 1
  /\ UNCHANGED <<f, pc, dfs, idom_, changed, i, b2, pred, walk, dom_frontier_,
                 dom_tree_succ_blocks_>>

\* The block with the smaller number moves up; the asserts of intersect.
Climb ==
  /\ pc = "meet"
  /\ b1 # b2
  /\ \/ /\ post_order_id_[b1] < post_order_id_[b2]
        /\ idom_[b1] # NoBlock
        /\ b1' = idom_[b1]
        /\ UNCHANGED b2
     \/ /\ post_order_id_[b2] < post_order_id_[b1]
        /\ idom_[b2] # NoBlock
        /\ b2' = idom_[b2]
        /\ UNCHANGED b1
  /\ UNCHANGED <<f, pc, dfs, idom_, changed, i, pred, met, walk, dom_frontier_, dom_tree_succ_blocks_>>

BadChanged == changed
Changed == changed \/ idom_[BB] # b2

SetIdom ==
  /\ pc = "meet"
  /\ b1 = b2
  /\ met = Len(f.pre[BB])
  /\ idom_' = [idom_ EXCEPT ![BB] = b2]
  /\ changed' = Changed
  /\ pc' = "idom"
  /\ i' = i + 1
  /\ UNCHANGED <<f, dfs, meet, walk, dom_frontier_, dom_tree_succ_blocks_>>

NextPass ==
  /\ pc = "idom"
  /\ i = Len(order)
  /\ changed
  /\ i' = 0
  /\ changed' = FALSE
  /\ UNCHANGED <<f, pc, dfs, idom_, meet, walk, dom_frontier_, dom_tree_succ_blocks_>>
-----------------------------------------------------------------------------
BadIsJoin(b) == Len(f.pre[b]) > 2
IsJoin(b) == Len(f.pre[b]) >= 2

StartFrontier ==
  /\ pc = "idom"
  /\ i = Len(order)
  /\ ~changed
  /\ pc' = "frontier"
  /\ UNCHANGED <<f, dfs, idom_, changed, i, meet, walk, dom_frontier_, dom_tree_succ_blocks_>>

\* The block the loop over the blocks is at.
Target == f.bbs[bb_at]

NextBlock ==
  /\ pc = "frontier"
  /\ bb_at <= Len(f.bbs)
  /\ ~IsJoin(Target) \/ pre_at > Len(f.pre[Target])
  /\ bb_at' = bb_at + 1
  /\ pre_at' = 1
  /\ UNCHANGED <<f, pc, dfs, idom_, changed, i, meet, runner, dom_frontier_,
                 dom_tree_succ_blocks_>>

StartWalk ==
  /\ pc = "frontier"
  /\ bb_at <= Len(f.bbs)
  /\ IsJoin(Target)
  /\ pre_at <= Len(f.pre[Target])
  /\ runner' = f.pre[Target][pre_at]
  /\ pc' = "walk"
  /\ UNCHANGED <<f, dfs, idom_, changed, i, meet, bb_at, pre_at, dom_frontier_, dom_tree_succ_blocks_>>

BadStopAt(b) == b
StopAt(b) == idom_[b]

Run ==
  /\ pc = "walk"
  /\ runner # StopAt(Target)
  /\ runner # NoBlock
  /\ dom_frontier_' = [dom_frontier_ EXCEPT ![runner] = @ \cup {Target}]
  /\ runner' = idom_[runner]
  /\ UNCHANGED <<f, pc, dfs, idom_, changed, i, meet, bb_at, pre_at, dom_tree_succ_blocks_>>

EndWalk ==
  /\ pc = "walk"
  /\ runner = StopAt(Target)
  /\ pc' = "frontier"
  /\ pre_at' = pre_at + 1
  /\ UNCHANGED <<f, dfs, idom_, changed, i, meet, bb_at, runner, dom_frontier_,
                 dom_tree_succ_blocks_>>

\* create_dom_tree_succ, one loop over the blocks that reads idom_ only.
CreateTree ==
  /\ pc = "frontier"
  /\ bb_at > Len(f.bbs)
  /\ pc' = "done"
  /\ dom_tree_succ_blocks_' =
       [b \in Block |-> {c \in Bbs : idom_[c] = b /\ c # b}]
  /\ UNCHANGED <<f, dfs, idom_, changed, i, meet, walk, dom_frontier_>>

Next ==
  \/ Descend \/ Number \/ Numbered
  \/ SkipRoot \/ StartMeet \/ NextPred \/ Climb \/ SetIdom \/ NextPass
  \/ StartFrontier \/ NextBlock \/ StartWalk \/ Run \/ EndWalk \/ CreateTree

Spec == Init /\ [][Next]_vars

\* A sequential program goes on while it can.
FairSpec == Spec /\ WF_vars(Next)
-----------------------------------------------------------------------------
TypeOK ==
  /\ pc \in {"visit", "idom", "meet", "frontier", "walk", "done"}
  /\ stack \in Seq(Block) /\ order \in Seq(Block)
  /\ visited \subseteq Block
  /\ DOMAIN post_order_id_ \subseteq visited
  /\ post_order_id_ \in [DOMAIN post_order_id_ -> Nat]
  /\ idom_ \in [Block -> Block \cup {NoBlock}]
  /\ changed \in BOOLEAN
  /\ i \in 0..Len(order)
  /\ {b1, b2, pred, runner} \subseteq Block \cup {NoBlock}
  /\ met \in Nat /\ bb_at \in 1..(Len(f.bbs) + 1) /\ pre_at \in Nat \ {0}
  /\ dom_frontier_ \in [Block -> SUBSET Block]
  /\ dom_tree_succ_blocks_ \in [Block -> SUBSET Block]

(***************************************************************************)
(* Each parent in the tree being built has a greater number than its       *)
(* child, in the middle of a pass too: it is what makes intersect end.     *)
(***************************************************************************)
ParentsAbove ==
  \A b \in Block : idom_[b] # NoBlock /\ b # root =>
    post_order_id_[b] < post_order_id_[idom_[b]]

(***************************************************************************)
(* The asserts of create_idom and intersect hold and no walk runs off the  *)
(* tree: there is always a predecessor with an idom, the block that moves  *)
(* up has one, and two different blocks never have the same number.        *)
(***************************************************************************)
AssertsHold ==
  /\ pc = "idom" /\ i < Len(order) /\ BB # root => \E p \in Block : IsPred(p)
  /\ pc = "meet" /\ b1 # b2 =>
       /\ post_order_id_[b1] # post_order_id_[b2]
       /\ idom_[b1] # NoBlock /\ idom_[b2] # NoBlock
  /\ pc = "walk" => runner # NoBlock

(***************************************************************************)
(* Once the iteration ends idom_ has the closest strict dominator of each  *)
(* block but the root, whatever the order of the lists of successors and   *)
(* predecessors.                                                           *)
(***************************************************************************)
IdomCorrect ==
  pc \in {"frontier", "walk", "done"} =>
    \A b \in Bbs \ {root} : IsIdom(f, idom_[b], b)

\* The walks up the tree from the predecessors of the joins find the dominance
\* frontier of every block, and the tree has the blocks under their idoms.
FrontierCorrect ==
  pc = "done" =>
    \A b \in Bbs :
      /\ dom_frontier_[b] = Frontier(f, b)
      /\ dom_tree_succ_blocks_[b] = {c \in Bbs \ {root} : IsIdom(f, b, c)}

\* Every analysis ends, however the walks of intersect and of the frontier go.
Terminates == <>(pc = "done")
=============================================================================
