--------------------------- MODULE ActiveVars_proofs ---------------------------
(***************************************************************************)
(* Proofs about ActiveVars, for every set of functions: type correctness,  *)
(* soundness of what is reported, and where the iteration stops.           *)
(***************************************************************************)
EXTENDS ActiveVars, TLAPS

\* What in is assigned from out and the block.
Transfer(b) == (live_out[b] \ def(b)) \cup use(b)
Settled(b)  == live_in[b] = Transfer(b)
NothingOut  == \A b \in Block : live_out[b] = {}

\* Whatever is in a set is justified by an equation ...
Justified ==
  /\ \A b \in Block : live_in[b] \subseteq Transfer(b)
  /\ \A b \in Block : live_out[b] \subseteq UNION {Passes(s, b) : s \in f.succ[b]}

\* ... and so lies in every solution.
Sound ==
  \A v \in Var, X \in SUBSET Block : Closed(v, X) =>
    \A b \in Block : /\ v \in live_out[b] => LiveAtEnd(v, X, b)
                     /\ v \in live_in[b] => b \in X \/ v \in FromPhi(b)

\* Blocks visited in this pass are settled; from the second pass on all are,
\* and a first pass that has not changed an out has left them all empty.
PassSettles ==
  /\ \A j \in DOMAIN f.bbs : j > k => Settled(f.bbs[j])
  /\ (\A b \in Blocks : Settled(b)) \/ (~changed => NothingOut)

\* As long as nothing has changed, the visited blocks miss nothing.
PassCloses ==
  ~changed => NothingOut \/ \A j \in DOMAIN f.bbs : j > k => Out(f.bbs[j]) = live_out[f.bbs[j]]

DoneLast == pc = "done" => k = 0 /\ ~changed

IInv ==
  /\ IsFunction(f)
  /\ TypeOK
  /\ Justified
  /\ Sound
  /\ PassSettles
  /\ PassCloses
  /\ DoneLast
-----------------------------------------------------------------------------
\* A step that keeps the function keeps all that is computed from it.
LEMMA SameCode ==
  ASSUME f' = f
  PROVE  /\ IsFunction(f)' <=> IsFunction(f)
         /\ Blocks' = Blocks
         /\ \A b \in Block : /\ use(b)' = use(b) /\ def(b)' = def(b)
                            /\ AllDefs(b)' = AllDefs(b) /\ Exposed(b)' = Exposed(b)
                            /\ FromPhi(b)' = FromPhi(b)
         /\ \A s, b \in Block : phiuses(s, b)' = phiuses(s, b)
<1>1. IsFunction(f)' <=> IsFunction(f)
  BY Zenon
<1>2. Blocks' = Blocks
  BY Zenon DEF Blocks
<1>3. ASSUME NEW b \in Block
      PROVE  use(b)' = use(b) /\ def(b)' = def(b) /\ AllDefs(b)' = AllDefs(b)
             /\ Exposed(b)' = Exposed(b)
  <2>1. \A j : DefinedBefore(b, j)' = DefinedBefore(b, j)
    BY Zenon DEF DefinedBefore
  <2>2. \A j : ReadFirst(b, j)' = ReadFirst(b, j)
    BY <2>1, Zenon DEF ReadFirst
  <2>3. use(b)' = use(b)
    BY <2>2, Zenon DEF use
  <2>4. AllDefs(b)' = AllDefs(b)
    BY Zenon DEF AllDefs
  <2>5. Exposed(b)' = Exposed(b)
    BY <2>2 DEF Exposed
  <2> QED BY <2>3, <2>4, <2>5 DEF def
<1>4. \A b \in Block : PhiPairs(b)' = PhiPairs(b)
  BY Zenon DEF PhiPairs
<1>5. \A b \in Block : FromPhi(b)' = FromPhi(b)
  BY <1>4 DEF FromPhi
<1>6. \A s, b \in Block : phiuses(s, b)' = phiuses(s, b)
  BY <1>4 DEF phiuses
<1> QED BY <1>1, <1>2, <1>3, <1>5, <1>6

\* What the sets taken from the code are made of.
LEMMA CodeType ==
  ASSUME IsFunction(f), NEW b \in Block
  PROVE  /\ f.succ[b] \subseteq Block
         /\ f.succ[b] \subseteq Blocks
         /\ Blocks \subseteq Block
         /\ \A j \in DOMAIN f.code[b] : f.code[b][j] \in Instr
         /\ use(b) \subseteq Var
         /\ AllDefs(b) \subseteq Var
         /\ def(b) \subseteq AllDefs(b)
<1>1. f.bbs \in Seq(Block) /\ f.code[b] \in Seq(Instr)
  BY DEF IsFunction
<1>2. Blocks \subseteq Block
  BY <1>1 DEF Blocks
<1>3. f.succ[b] \subseteq Blocks
  BY DEF IsFunction, Blocks
<1>4. \A j \in DOMAIN f.code[b] : f.code[b][j] \in Instr
  BY <1>1
<1>5. use(b) \subseteq Var
  BY <1>4, Zenon DEF use, ReadFirst, Instr
<1>6. AllDefs(b) \subseteq Var
  BY <1>4 DEF AllDefs, Instr
<1> QED BY <1>2, <1>3, <1>4, <1>5, <1>6 DEF def

\* A use is a use of a plain instruction or an operand of a phi.
LEMMA UseSplit ==
  ASSUME IsFunction(f), NEW b \in Block, NEW v \in use(b)
  PROVE  v \in Exposed(b) \/ v \in FromPhi(b)
<1>1. PICK j \in DOMAIN f.code[b] : v \in ReadFirst(b, j)
  BY DEF use
<1>2. f.code[b][j] \in Instr /\ v \in Var
  BY CodeType
<1>3. CASE f.code[b][j].phi = {}
  BY <1>1, <1>3 DEF Exposed
<1>4. CASE f.code[b][j].phi # {}
  <2>1. PICK p \in f.code[b][j].phi : v = p[1]
    BY <1>1, <1>4 DEF ReadFirst, IsFunction
  <2>2. p = <<v, p[2]>> /\ p[2] \in Block
    BY <1>2, <2>1 DEF Instr
  <2>3. p \in PhiPairs(b)
    BY <2>1 DEF PhiPairs
  <2> QED BY <1>2, <2>2, <2>3 DEF FromPhi
<1> QED BY <1>3, <1>4

LEMMA ExposedUsed ==
  ASSUME NEW b \in Block
  PROVE  Exposed(b) \subseteq use(b)
BY DEF Exposed, use

\* out only takes variables.
LEMMA OutType ==
  ASSUME IsFunction(f), TypeOK, NEW b \in Block
  PROVE  /\ Out(b) \in SUBSET Var
         /\ In(b) \in SUBSET Var
         /\ live_out[b] \subseteq Out(b)
<1>1. f.succ[b] \subseteq Block /\ use(b) \subseteq Var
  BY CodeType
<1>2. \A s \in f.succ[b] : Passes(s, b) \subseteq Var
  BY <1>1 DEF Passes, TypeOK
<1>3. live_out[b] \subseteq Var
  BY DEF TypeOK
<1> QED BY <1>1, <1>2, <1>3, Zenon DEF Out, In
-----------------------------------------------------------------------------
LEMMA InitIInv == Init => IInv
<1> SUFFICES ASSUME Init PROVE IInv
  OBVIOUS
<1> USE DEF Init
<1>1. IsFunction(f)
  BY FunctionsAssumption
<1>2. Len(f.bbs) \in Nat
  BY <1>1 DEF IsFunction
<1>3. TypeOK
  <2>1. changed \in BOOLEAN
    BY Zenon
  <2> QED BY <1>2, <2>1 DEF TypeOK, Last
<1>4. NothingOut /\ \A b \in Block : live_in[b] = {}
  BY DEF NothingOut
<1>5. PassSettles /\ PassCloses
  BY <1>1, <1>4 DEF PassSettles, PassCloses, Last, IsFunction
<1> QED BY <1>1, <1>3, <1>4, <1>5 DEF IInv, Justified, Sound, NothingOut, DoneLast

(***************************************************************************)
(* The visit of a block.  Its out grows to Out(b) and its in becomes what  *)
(* Transfer makes of it, which contains the in there was.                  *)
(***************************************************************************)
LEMMA VisitGrows ==
  ASSUME IInv, Visit
  PROVE  /\ f' = f /\ f.bbs[k] \in Block
         /\ live_out' \in [Block -> SUBSET Var]
         /\ live_in' \in [Block -> SUBSET Var]
         /\ \A b \in Block : live_out[b] \subseteq live_out'[b]
         /\ \A b \in Block : live_in[b] \subseteq live_in'[b]
         /\ \A b \in Block \ {f.bbs[k]} : live_out'[b] = live_out[b] /\ live_in'[b] = live_in[b]
         /\ live_out'[f.bbs[k]] = Out(f.bbs[k])
         /\ live_in'[f.bbs[k]] = In(f.bbs[k])
<1> USE DEF IInv
<1>1. f' = f
  BY DEF Visit
<1>2. f.bbs[k] \in Block
  BY DEF Visit, TypeOK, Last, IsFunction
<1> DEFINE b == f.bbs[k]
<1>3. live_out' = [live_out EXCEPT ![b] = Out(b)] /\ live_in' = [live_in EXCEPT ![b] = In(b)]
  BY DEF Visit
<1>4. Out(b) \in SUBSET Var /\ In(b) \in SUBSET Var /\ live_out[b] \subseteq Out(b)
  BY <1>2, OutType
<1>5. live_in[b] \subseteq In(b)
  BY <1>2, <1>4 DEF Justified, Transfer, In
<1>6. live_out \in [Block -> SUBSET Var] /\ live_in \in [Block -> SUBSET Var]
  BY DEF TypeOK
<1> HIDE DEF b
<1> QED BY <1>1, <1>2, <1>3, <1>4, <1>5, <1>6 DEF b

LEMMA VisitJustified ==
  ASSUME IInv, Visit
  PROVE  Justified' /\ Sound'
<1> DEFINE c == f.bbs[k]
<1>1. /\ f' = f /\ c \in Block
      /\ \A b \in Block : live_out[b] \subseteq live_out'[b]
      /\ \A b \in Block : live_in[b] \subseteq live_in'[b]
      /\ \A b \in Block \ {c} : live_out'[b] = live_out[b] /\ live_in'[b] = live_in[b]
      /\ live_out'[c] = Out(c)
      /\ live_in'[c] = In(c)
  BY VisitGrows
<1>2. IsFunction(f)
  BY DEF IInv
<1> HIDE DEF c
<1>3. ASSUME NEW b \in Block
      PROVE  live_in'[b] \subseteq (live_out'[b] \ def(b)) \cup use(b)
  BY <1>1 DEF IInv, Justified, Transfer, In
<1>4. \A s \in Block, b \in Block : Passes(s, b) \subseteq Passes(s, b)'
  BY <1>1, SameCode DEF Passes
<1>5. ASSUME NEW b \in Block
      PROVE  live_out'[b] \subseteq UNION {Passes(s, b)' : s \in f.succ[b]}
  <2>1. live_out[b] \subseteq UNION {Passes(s, b) : s \in f.succ[b]}
    BY DEF IInv, Justified
  <2>2. live_out'[b] \subseteq UNION {Passes(s, b) : s \in f.succ[b]}
    BY <1>1, <2>1 DEF Out
  <2>3. f.succ[b] \subseteq Block
    BY <1>2, CodeType
  <2> QED BY <1>4, <2>2, <2>3
<1>6. Justified'
  BY <1>1, <1>3, <1>5, SameCode DEF Justified, Transfer
<1>7. ASSUME NEW v \in Var, NEW X \in SUBSET Block, Closed(v, X), NEW b \in Block
      PROVE  /\ v \in live_out'[b] => LiveAtEnd(v, X, b)
             /\ v \in live_in'[b] => b \in X \/ v \in FromPhi(b)
  <2>1. ASSUME NEW a \in Block
        PROVE  /\ v \in live_out[a] => LiveAtEnd(v, X, a)
               /\ v \in live_in[a] => a \in X \/ v \in FromPhi(a)
    BY <1>7 DEF IInv, Sound
  <2>2. v \in Out(b) => LiveAtEnd(v, X, b)
    <3> SUFFICES ASSUME NEW s \in f.succ[b], v \in Passes(s, b)
                 PROVE  LiveAtEnd(v, X, b)
      BY <2>1 DEF Out
    <3>1. s \in Block
      BY <1>2, CodeType
    <3>2. s \in X \/ v \in phiuses(s, b)
      BY <2>1, <3>1 DEF Passes
    <3> QED BY <3>2 DEF LiveAtEnd
  <2>3. v \in live_out'[b] => LiveAtEnd(v, X, b)
    BY <1>1, <2>1, <2>2
  <2>4. ASSUME v \in live_in'[b]
        PROVE  b \in X \/ v \in FromPhi(b)
    <3>1. v \in use(b) \/ (v \in live_out'[b] /\ v \notin def(b))
      BY <1>3, <2>4
    <3>2. CASE v \in use(b)
      BY <1>2, <1>7, <3>2, UseSplit DEF Closed
    <3>3. CASE v \notin use(b) /\ v \in live_out'[b] /\ v \notin def(b)
      BY <1>7, <2>3, <3>3 DEF Closed, def
    <3> QED BY <3>1, <3>2, <3>3
  <2> QED BY <2>3, <2>4
<1>8. Sound'
  <2>1. f.succ' = f.succ /\ \A b \in Block : f.succ[b] \subseteq Block
    BY <1>1, <1>2, CodeType
  <2>2. ASSUME NEW v \in Var, NEW X \in SUBSET Block, NEW b \in Block
        PROVE  LiveAtEnd(v, X, b)' <=> LiveAtEnd(v, X, b)
    BY <1>1, <2>1, SameCode DEF LiveAtEnd
  <2>3. ASSUME NEW v \in Var, NEW X \in SUBSET Block
        PROVE  Closed(v, X)' <=> Closed(v, X)
    BY <1>1, <2>2, SameCode DEF Closed
  <2> QED BY <1>1, <1>7, <2>2, <2>3, SameCode DEF Sound
<1> QED BY <1>6, <1>8

LEMMA VisitPass ==
  ASSUME IInv, Visit
  PROVE  PassSettles' /\ PassCloses'
<1>0. PICK c \in Block : c = f.bbs[k]
  BY VisitGrows
<1>1. /\ f' = f
      /\ live_out' \in [Block -> SUBSET Var]
      /\ live_in' \in [Block -> SUBSET Var]
      /\ \A b \in Block \ {c} : live_out'[b] = live_out[b] /\ live_in'[b] = live_in[b]
      /\ live_out'[c] = Out(c)
      /\ live_in'[c] = In(c)
  BY <1>0, VisitGrows
<1>2. /\ live_out \in [Block -> SUBSET Var] /\ live_in \in [Block -> SUBSET Var]
      /\ changed \in BOOLEAN /\ k \in Nat /\ k > 0 /\ k' = k - 1
      /\ changed' = Changed(c)
      /\ DOMAIN f.bbs \subseteq Nat
  BY <1>0 DEF IInv, TypeOK, Visit, Last, IsFunction
<1>3. \A b \in Block : b \in Blocks \/ b \notin Blocks
  OBVIOUS
<1>4. \A j \in DOMAIN f.bbs : f.bbs[j] \in Block /\ f.bbs[j] \in Blocks
  BY DEF IInv, IsFunction, Blocks
<1>5. Blocks \subseteq Block /\ Blocks' = Blocks
  BY <1>1, <1>4 DEF Blocks
<1>6. Settled(c)'
  BY <1>1, SameCode DEF Settled, Transfer, In
<1>7. \A b \in Block : Settled(b) => Settled(b)'
  BY <1>1, <1>6, SameCode DEF Settled, Transfer
<1>8. \A j \in DOMAIN f.bbs : j > k' => Settled(f.bbs[j])'
  <2> SUFFICES ASSUME NEW j \in DOMAIN f.bbs, j > k - 1 PROVE Settled(f.bbs[j])'
    BY <1>2
  <2>1. j = k \/ j > k
    BY <1>2
  <2> QED BY <1>0, <1>1, <1>4, <1>6, <1>7, <2>1 DEF IInv, PassSettles
<1>9. ~changed' => ~changed /\ Out(c) = live_out[c] /\ live_out' = live_out
  <2>1. ~changed' => ~changed /\ Out(c) = live_out[c]
    BY <1>2, Zenon DEF Changed
  <2>2. Out(c) = live_out[c] => live_out' = live_out
    BY <1>1, <1>2
  <2> QED BY <2>1, <2>2
<1>10. (\A b \in Blocks' : Settled(b)') \/ (~changed' => NothingOut')
  <2>1. CASE \A b \in Blocks : Settled(b)
    BY <1>5, <1>7, <2>1
  <2>2. CASE ~changed => NothingOut
    BY <1>9, <2>2 DEF NothingOut
  <2> QED BY <2>1, <2>2 DEF IInv, PassSettles
<1>11. PassSettles'
  BY <1>1, <1>8, <1>10 DEF PassSettles
<1>12. ASSUME ~changed', ~NothingOut
       PROVE  \A j \in DOMAIN f.bbs : j > k' => Out(f.bbs[j])' = live_out'[f.bbs[j]]
  <2>1. ~changed /\ Out(c) = live_out[c] /\ live_out' = live_out
    BY <1>9, <1>12
  <2>2. c \in Blocks
    BY <1>0, <1>2, <1>4 DEF IInv, TypeOK, Visit, Last, IsFunction
  <2>3. Settled(c)
    BY <1>12, <2>1, <2>2 DEF IInv, PassSettles
  <2>4. live_in'[c] = live_in[c]
    BY <1>1, <2>1, <2>3 DEF Settled, Transfer, In
  <2>5. live_in' = live_in
    BY <1>1, <1>2, <2>4
  <2>6. \A b \in Block : Out(b)' = Out(b)
    <3> SUFFICES ASSUME NEW b \in Block PROVE Out(b)' = Out(b)
      OBVIOUS
    <3>1. f.succ[b] \subseteq Block
      BY CodeType DEF IInv
    <3>2. \A s \in Block : Passes(s, b)' = Passes(s, b)
      BY <1>1, <2>5, SameCode DEF Passes
    <3> QED BY <1>1, <2>1, <3>1, <3>2 DEF Out
  <2> SUFFICES ASSUME NEW j \in DOMAIN f.bbs, j > k - 1
               PROVE  Out(f.bbs[j]) = live_out[f.bbs[j]]
    BY <1>1, <1>2, <1>4, <2>1, <2>6
  <2>7. j = k \/ j > k
    BY <1>2
  <2>8. \A i \in DOMAIN f.bbs : i > k => Out(f.bbs[i]) = live_out[f.bbs[i]]
    BY <1>12, <2>1 DEF IInv, PassCloses
  <2> QED BY <1>0, <2>1, <2>7, <2>8
<1>13. NothingOut /\ ~changed' => NothingOut'
  BY <1>9 DEF NothingOut
<1>14. PassCloses'
  BY <1>1, <1>12, <1>13 DEF PassCloses
<1> QED BY <1>11, <1>14

LEMMA VisitIInv ==
  ASSUME IInv, Visit
  PROVE  IInv'
<1>1. /\ f' = f
      /\ live_out' \in [Block -> SUBSET Var]
      /\ live_in' \in [Block -> SUBSET Var]
  BY VisitGrows
<1>2. TypeOK'
  BY <1>1 DEF IInv, TypeOK, Visit, Last, Changed
<1>3. DoneLast'
  BY DEF Visit, DoneLast
<1>4. IsFunction(f)'
  BY <1>1, SameCode DEF IInv
<1> QED BY <1>2, <1>3, <1>4, VisitJustified, VisitPass DEF IInv

\* Steps that change neither the function nor the sets.
LEMMA SameSets ==
  ASSUME IInv, UNCHANGED <<f, live_in, live_out>>
  PROVE  /\ IsFunction(f)' /\ Justified' /\ Sound'
         /\ NothingOut' <=> NothingOut
         /\ \A b \in Block : Out(b)' = Out(b) /\ (Settled(b)' <=> Settled(b))
<1>1. \A b \in Block : f.succ[b] \subseteq Block
  BY CodeType DEF IInv
<1>2. \A s, b \in Block : Passes(s, b)' = Passes(s, b)
  BY SameCode DEF Passes
<1>3. \A b \in Block : Out(b)' = Out(b)
  BY <1>1, <1>2 DEF Out
<1>4. \A b \in Block : Transfer(b)' = Transfer(b)
  BY SameCode DEF Transfer
<1>5. Justified'
  BY <1>1, <1>2, <1>4 DEF IInv, Justified
<1>6. ASSUME NEW v \in Var, NEW X \in SUBSET Block, NEW b \in Block
      PROVE  LiveAtEnd(v, X, b)' <=> LiveAtEnd(v, X, b)
  BY <1>1, SameCode DEF LiveAtEnd
<1>7. \A v \in Var, X \in SUBSET Block : Closed(v, X)' <=> Closed(v, X)
  BY <1>6, SameCode DEF Closed
<1>8. Sound'
  BY <1>6, <1>7, SameCode DEF IInv, Sound
<1> QED BY <1>3, <1>4, <1>5, <1>8, SameCode DEF IInv, NothingOut, Settled

LEMMA NextPassIInv ==
  ASSUME IInv, NextPass
  PROVE  IInv'
<1> USE DEF NextPass
<1>1. Len(f.bbs) \in Nat /\ DOMAIN f.bbs = 1..Len(f.bbs)
  BY DEF IInv, IsFunction
<1>2. TypeOK'
  <2>1. changed' \in BOOLEAN
    BY Zenon
  <2> QED BY <1>1, <2>1 DEF IInv, TypeOK, Last
<1>3. \A b \in Blocks : Settled(b)
  BY <1>1 DEF IInv, PassSettles, Blocks
<1>4. Blocks' = Blocks /\ Blocks \subseteq Block
  BY SameCode DEF IInv, Blocks, IsFunction
<1>5. PassSettles' /\ PassCloses'
  BY <1>1, <1>3, <1>4, SameSets DEF PassSettles, PassCloses, Last
<1> QED BY <1>2, <1>5, SameSets DEF IInv, DoneLast

LEMMA StopIInv ==
  ASSUME IInv, Stop \/ UNCHANGED vars
  PROVE  IInv'
<1>1. UNCHANGED <<f, k, changed, live_in, live_out>>
  BY DEF Stop, vars
<1>2. TypeOK' /\ DoneLast'
  BY <1>1 DEF IInv, TypeOK, DoneLast, Stop, vars, Last
<1>3. Blocks' = Blocks /\ Blocks \subseteq Block /\ \A j \in DOMAIN f.bbs : f.bbs[j] \in Block
  BY <1>1, SameCode DEF IInv, Blocks, IsFunction
<1>4. PassSettles' /\ PassCloses'
  BY <1>1, <1>3, SameSets DEF IInv, PassSettles, PassCloses
<1> QED BY <1>1, <1>2, <1>4, SameSets DEF IInv

LEMMA Invariant == Spec => []IInv
<1>1. IInv /\ [Next]_vars => IInv'
  BY VisitIInv, NextPassIInv, StopIInv DEF Next
<1> QED BY <1>1, InitIInv, PTL DEF Spec
-----------------------------------------------------------------------------
(***************************************************************************)
(* TypeOK: the position in the block list and the two maps keep their      *)
(* types for every function.                                               *)
(***************************************************************************)
THEOREM TypeCorrect == Spec => []TypeOK
<1>1. IInv => TypeOK
  BY DEF IInv
<1> QED BY <1>1, Invariant, PTL

(***************************************************************************)
(* NeverTooMuch: run() reports a variable live at the end of a block only  *)
(* if every solution of the documented equations has it there.             *)
(***************************************************************************)
THEOREM Soundness == Spec => []NeverTooMuch
<1>1. IInv => NeverTooMuch
  BY DEF IInv, Sound, NeverTooMuch
<1> QED BY <1>1, Invariant, PTL

(***************************************************************************)
(* StopsAtSolution: the do ... while loop ends on a solution for every     *)
(* variable that no phi reads, unless it found nothing live at all.        *)
(***************************************************************************)
THEOREM Convergence == Spec => []StopsAtSolution
<1>1. ASSUME IInv, pc = "done", ~NothingOut,
             NEW v \in Var, NEW b \in Blocks, Ordinary(v)
      PROVE  /\ v \in live_out[b] <=> \E s \in f.succ[b] : v \in live_in[s]
             /\ v \in live_in[b] <=> v \in Exposed(b) \/ (v \in live_out[b] /\ v \notin AllDefs(b))
  <2>1. /\ k = 0 /\ ~changed /\ b \in Block /\ IsFunction(f)
        /\ f.succ[b] \subseteq Block
    <3>1. k = 0 /\ ~changed /\ IsFunction(f)
      BY <1>1, Zenon DEF IInv, DoneLast
    <3>2. b \in Block
      BY <3>1 DEF Blocks, IsFunction
    <3> QED BY <3>1, <3>2, CodeType
  <2>2. PICK j \in DOMAIN f.bbs : b = f.bbs[j]
    BY DEF Blocks
  <2>3. j > k
    BY <2>1 DEF IsFunction
  <2>4. Out(b) = live_out[b] /\ Settled(b)
    BY <1>1, <2>1, <2>2, <2>3 DEF IInv, PassSettles, PassCloses
  <2>5. \A s \in f.succ[b] : v \in Passes(s, b) <=> v \in live_in[s]
    BY <1>1, <2>1 DEF Passes, Ordinary, IInv, TypeOK
  <2>6. v \in live_out[b] <=> \E s \in f.succ[b] : v \in live_in[s]
    <3>1. v \in live_out[b] => \E s \in f.succ[b] : v \in Passes(s, b)
      BY <1>1, <2>1 DEF IInv, Justified
    <3>2. ASSUME NEW s \in f.succ[b], v \in Passes(s, b) PROVE v \in live_out[b]
      BY <2>4, <3>2 DEF Out
    <3> QED BY <2>5, <3>1, <3>2
  <2>7. v \in use(b) <=> v \in Exposed(b)
    BY <1>1, <2>1, UseSplit, ExposedUsed DEF Ordinary
  <2>8. v \in live_in[b] <=> v \in use(b) \/ (v \in live_out[b] /\ v \notin def(b))
    BY <2>4 DEF Settled, Transfer
  <2> QED BY <2>6, <2>7, <2>8 DEF def
<1>2. IInv => StopsAtSolution
  BY <1>1 DEF StopsAtSolution, NothingOut
<1> QED BY <1>2, Invariant, PTL
=============================================================================
