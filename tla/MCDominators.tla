----------------------------- MODULE MCDominators -----------------------------
(***************************************************************************)
(* Functions for Dominators: all graphs of N blocks reachable from an      *)
(* entry that nothing jumps to, and some larger ones.                      *)
(***************************************************************************)
EXTENDS Dominators

CONSTANT N   \* blocks of the graphs that are enumerated

\* The predecessors of b, in the order of seq.
PreList(succ, b, seq) ==
  LET jumps(p) == \E j \in DOMAIN succ[p] : succ[p][j] = b
  IN  SelectSeq(seq, jumps)

Fun(succ, seq) ==
  LET bbs == 1..Len(seq)
  IN  [bbs  |-> [n \in bbs |-> n],
       succ |-> [b \in Block |-> IF b \in bbs THEN succ[b] ELSE << >>],
       pre  |-> [b \in Block |-> IF b \in bbs THEN PreList(succ, b, seq) ELSE << >>]]

Upward(n)   == [j \in 1..n |-> j]
Downward(n) == [j \in 1..n |-> n + 1 - j]

\* No successor, one, or the two of a conditional branch.
SuccLists == {<< >>} \cup {<<b>> : b \in 2..N}
                     \cup {<<b, c>> : b \in 2..N, c \in 2..N}

\* The blocks reachable from the entry.
Reached(succ) ==
  LET grow[n \in 0..N] ==
        IF n = 0 THEN {1}
        ELSE grow[n - 1] \cup UNION {{succ[b][j] : j \in DOMAIN succ[b]} : b \in grow[n - 1]}
  IN  grow[N]

\* The predecessors are listed in the order of the blocks; the successors, which
\* decide the numbering, in every order.
AllGraphs ==
  {Fun(succ, Upward(N)) : succ \in {s \in [1..N -> SuccLists] :
                                      /\ \A b \in 1..N : Len(s[b]) = 2 => s[b][1] # s[b][2]
                                      /\ Reached(s) = 1..N}}

\* Two ifs in a while, a while that two branches enter, and the ladder whose
\* blocks keep changing their idom over several passes.
Named ==
  LET two  == <<<<2>>, <<7, 3>>, <<5, 4>>, <<5>>, <<6, 2>>, <<2>>, << >>>>
      irr  == <<<<2, 3>>, <<4>>, <<5>>, <<5, 6>>, <<4, 6>>, <<7>>, << >>>>
      lad  == <<<<6, 2>>, <<3>>, <<2, 4>>, <<3, 5>>, <<4, 7>>, <<5>>, << >>>>
  IN  {Fun(g, seq) : g \in {two, irr, lad}, seq \in {Upward(7), Downward(7)}}

MCFunctions == AllGraphs \cup Named
=============================================================================
