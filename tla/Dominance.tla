------------------------------- MODULE Dominance -------------------------------
(***************************************************************************)
(* Dominance in the graph of a function, by paths: what the analysis of    *)
(* Dominators computes and the passes built on it take for granted.  A     *)
(* graph g has its blocks in the order of creation, the entry first        *)
(* (g.bbs), and the lists of successors (g.succ).                          *)
(***************************************************************************)
EXTENDS Integers, Sequences

Blocks(g)     == {g.bbs[m] : m \in DOMAIN g.bbs}
Entry(g)      == g.bbs[1]
SuccOf(g, b)  == {g.succ[b][m] : m \in DOMAIN g.succ[b]}
PredsOf(g, b) == {p \in Blocks(g) : b \in SuccOf(g, p)}

(***************************************************************************)
(* report-phase1.md:59: d dominates n if every path from the entry to n    *)
(* goes through d.  X closed under the edges that do not enter d, with the *)
(* entry in it unless that is d, holds all that is reached around d.       *)
(***************************************************************************)
Around(g, d, X) ==
  /\ X \subseteq Blocks(g) \ {d}
  /\ Entry(g) \in X \cup {d}
  /\ \A b \in X : SuccOf(g, b) \subseteq X \cup {d}

Dominates(g, d, n)         == \E X \in SUBSET Blocks(g) : Around(g, d, X) /\ n \notin X
StrictlyDominates(g, d, n) == d # n /\ Dominates(g, d, n)

\* The closest strict dominator.
IsIdom(g, d, n) ==
  /\ StrictlyDominates(g, d, n)
  /\ \A e \in Blocks(g) : StrictlyDominates(g, e, n) => Dominates(g, e, d)

\* Where the dominance of b stops: the blocks that b does not strictly dominate
\* with a predecessor that it dominates.
Frontier(g, b) ==
  {n \in Blocks(g) : /\ ~StrictlyDominates(g, b, n)
                     /\ \E p \in PredsOf(g, n) : Dominates(g, b, p)}
=============================================================================
