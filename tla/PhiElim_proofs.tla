----------------------------- MODULE PhiElim_proofs -----------------------------
(***************************************************************************)
(* Theorems about PhiElim, for every function: use lists stay exact but    *)
(* for the terminators put back, and the code after the pass does what the *)
(* function did before it.                                                 *)
(***************************************************************************)
EXTENDS PhiSemantics, LightIR_proofs

\* The phis that have their allocas, and those that have their loads; whether operand
\* j of p has its store.
Collected    == {p \in PhisOf(f) : \E m \in 1..k : p \in Range(f.code[f.bbs[m]])}
Loaded       == Collected \ Range(its)
Stored(p, j) == pc \in {"store", "done"} /\ p \notin left /\ (phi # << >> /\ p = phi => j < i)

\* The terminators that were taken out so far, and who reads besides them.
LastOf(b) == f.code[b][Len(f.code[b])]
Opened    == {b \in Block : \/ b = entry /\ pc # "entry"
                            \/ \E x \in Range(ir.code[b]) : x[1] = "store"}
Taken     == {LastOf(b) : b \in Opened}
Readers   == (InstrsOf(ir) \cup PhisOf(f)) \ Taken

\* The loops over the blocks, the phis of a block and the operands of a phi.
LoopsOK ==
  /\ pc \in {"entry", "collect", "store", "done"}
  /\ k \in 0..Len(f.bbs)
  /\ pc = "entry" => k = 0
  /\ pc \in {"store", "done"} => k = Len(f.bbs)
  /\ pc # "collect" => its = << >>
  /\ its \in Seq(PhisOf(f)) /\ IsInjective(its)
  /\ its # << >> => k > 0 /\ Range(its) \subseteq Range(f.code[f.bbs[k]]) \cap Range(ir.code[f.bbs[k]])
  /\ left \subseteq Collected
  /\ phi # << >> => pc = "store" /\ phi \in Collected /\ phi \notin left /\ i \in Nat /\ i % 2 = 1

\* Blocks whose phis are not collected have them all; a terminator is the last of its
\* block unless it is out.
CodeOK ==
  /\ IsData(ir) /\ DOMAIN ir.code = Block
  /\ \A b \in Block : ir.code[b] \in Seq(DOMAIN ir.operands)
  /\ \A b \in Block \ Range(f.bbs) : ir.code[b] = << >>
  /\ \A m \in DOMAIN f.bbs : m > k =>
       /\ IsInjective(ir.code[f.bbs[m]])
       /\ \A x : IsPhi(x) => (x \in Range(ir.code[f.bbs[m]]) <=> x \in Range(f.code[f.bbs[m]]))
  /\ \A b \in Range(f.bbs) : b # entry \/ pc # "collect" =>
       ir.code[b] # << >> /\ Terminator(b) = LastOf(b)

\* What there is: the values of the function, allocas, loads and stores.
NamesOK ==
  /\ \A v \in DOMAIN ir.use_list :
       \/ v \in ValuesOf(f)
       \/ \E p \in Collected : v = AllocaOf(p)
       \/ \E p \in Loaded : v = LoadOf(p)
       \/ \E p \in Collected : \E j \in Nat : v = StoreOf(p, j) /\ Stored(p, j)
  /\ ValuesOf(f) \subseteq DOMAIN ir.use_list
  /\ \A p \in Collected : AllocaOf(p) \in DOMAIN ir.use_list
  /\ InstrsOf(f) \subseteq DOMAIN ir.operands /\ DOMAIN ir.operands \subseteq DOMAIN ir.use_list
  /\ \A x \in DOMAIN ir.operands : ir.operands[x] \in Seq(DOMAIN ir.use_list)

\* The blocks a phi names stay.
PairsOK ==
  \A p \in PhisOf(f) :
    /\ DOMAIN ir.operands[p] = DOMAIN f.operands[p]
    /\ \A j \in DOMAIN f.operands[p] : f.operands[p][j] \in Block => ir.operands[p][j] = f.operands[p][j]

\* A phi that has its load keeps its use list; all others are exact.
UsesOK == \A v \in DOMAIN ir.use_list \ Loaded : Exact(ir, Readers, v)

IInv ==
  /\ f \in Functions
  /\ LoopsOK
  /\ CodeOK
  /\ NamesOK
  /\ PairsOK
  /\ UsesOK

-----------------------------------------------------------------------------
LEMMA InInstrs ==
  ASSUME NEW g
  PROVE  \A x : x \in InstrsOf(g) <=> \E b \in Block : x \in Range(g.code[b])
BY Zenon DEF InstrsOf

\* What IsFunction says of the blocks of the function,
LEMMA Lists ==
  ASSUME f \in Functions
  PROVE  /\ f.bbs \in Seq(Block) /\ Len(f.bbs) \in Nat \ {0} /\ DOMAIN f.bbs = 1..Len(f.bbs)
         /\ \A m, n \in DOMAIN f.bbs : f.bbs[m] = f.bbs[n] => m = n
         /\ entry \in Block /\ entry \in Range(f.bbs) /\ Range(f.bbs) \subseteq Block
         /\ \A b \in Block : f.code[b] \in Seq(InstrsOf(f)) /\ IsInjective(f.code[b])
         /\ \A b \in Block \ Range(f.bbs) : f.code[b] = << >>
         /\ \A b, c \in Block : \A x : x \in Range(f.code[b]) /\ x \in Range(f.code[c]) => b = c
<1>1. /\ f.bbs \in Seq(Block) /\ f.bbs # << >> /\ IsInjective(f.bbs)
      /\ f.code \in [Block -> Seq(InstrsOf(f))]
      /\ \A b \in Block \ Range(f.bbs) : f.code[b] = << >>
      /\ \A b \in Block : IsInjective(f.code[b])
      /\ \A b, c \in Block : b # c => Range(f.code[b]) \cap Range(f.code[c]) = {}
  <2>1. IsFunction(f)
    BY FunctionsAssumption
  <2> QED BY <2>1, Zenon DEF IsFunction
<1>2. Len(f.bbs) \in Nat \ {0} /\ DOMAIN f.bbs = 1..Len(f.bbs)
  BY <1>1
<1>3. \A m, n \in DOMAIN f.bbs : f.bbs[m] = f.bbs[n] => m = n
  BY <1>1 DEF IsInjective
<1>4. entry \in Block /\ entry \in Range(f.bbs) /\ Range(f.bbs) \subseteq Block
  <2>1. 1 \in DOMAIN f.bbs /\ \A m \in DOMAIN f.bbs : f.bbs[m] \in Block
    BY <1>1, <1>2
  <2> QED BY <2>1 DEF Range, entry
<1>5. \A b \in Block : f.code[b] \in Seq(InstrsOf(f))
  BY <1>1
<1>6. \A b, c \in Block : \A x : x \in Range(f.code[b]) /\ x \in Range(f.code[c]) => b = c
  BY <1>1
<1> QED BY <1>1, <1>2, <1>3, <1>4, <1>5, <1>6

\* of the terminators and the kinds of values,
LEMMA Kinds ==
  ASSUME f \in Functions
  PROVE  /\ \A b \in Range(f.bbs) : /\ f.code[b] # << >> /\ LastOf(b) \in Range(f.code[b])
                                    /\ LastOf(b)[1] \in {"br", "ret"}
         /\ \A v \in ValuesOf(f) : v[1] \notin {"alloca", "load", "store"}
         /\ InstrsOf(f) \subseteq ValuesOf(f)
         /\ \A x \in Range(f.code[entry]) : ~IsPhi(x)
<1>1. /\ \A v \in ValuesOf(f) : v[1] \notin {"alloca", "load", "store"}
      /\ \A b \in Range(f.bbs) :
           /\ f.code[b] # << >>
           /\ \A j \in DOMAIN f.code[b] :
                /\ IsTerminator(f.code[b][j]) <=> j = Len(f.code[b])
                /\ IsPhi(f.code[b][j]) => b # f.bbs[1]
  <2>1. IsFunction(f)
    BY FunctionsAssumption
  <2>2. \A v \in ValuesOf(f) :
          v[1] \in IF v \in InstrsOf(f) THEN {"phi", "op", "br", "ret"} ELSE {"arg", "const", "bb"}
    BY <2>1, Zenon DEF IsFunction
  <2>3. \A v \in ValuesOf(f) : v[1] \notin {"alloca", "load", "store"}
    BY ONLY <2>2
  <2> QED BY <2>1, <2>3, Zenon DEF IsFunction
<1>2. ASSUME NEW b \in Range(f.bbs)
      PROVE  f.code[b] # << >> /\ LastOf(b) \in Range(f.code[b]) /\ LastOf(b)[1] \in {"br", "ret"}
  <2>1. f.code[b] \in Seq(InstrsOf(f)) /\ f.code[b] # << >>
    BY <1>1, Lists
  <2>2. Len(f.code[b]) \in DOMAIN f.code[b]
    BY <2>1
  <2> QED BY <1>1, <2>1, <2>2 DEF LastOf, Range, IsTerminator
<1>3. InstrsOf(f) \subseteq ValuesOf(f)
  BY DEF ValuesOf
<1>4. \A x \in Range(f.code[entry]) : ~IsPhi(x)
  BY <1>1, Lists DEF Range, entry
<1> QED BY <1>1, <1>2, <1>3, <1>4

\* and of the phis.
LEMMA Phis ==
  ASSUME f \in Functions, NEW p \in PhisOf(f)
  PROVE  /\ p \in InstrsOf(f) /\ p[1] = "phi"
         /\ f.operands[p] \in Seq(ValuesOf(f))
         /\ \A j \in DOMAIN f.operands[p] : j % 2 = 0 => f.operands[p][j] \in Range(f.bbs)
<1>1. p \in InstrsOf(f) /\ p[1] = "phi"
  BY DEF PhisOf, IsPhi
<1>2. PICK b \in Block : p \in Range(f.code[b])
  BY <1>1, InInstrs
<1>3. b \in Range(f.bbs) /\ \E j \in DOMAIN f.code[b] : f.code[b][j] = p
  BY <1>2, Lists DEF Range
<1>4. /\ f.operands \in [InstrsOf(f) -> Seq(ValuesOf(f))]
      /\ \A c \in Range(f.bbs) : \A j \in DOMAIN f.code[c] :
           IsPhi(f.code[c][j]) => \A n \in DOMAIN f.operands[f.code[c][j]] :
             n % 2 = 0 <=> f.operands[f.code[c][j]][n] \in Range(f.bbs)
  <2>1. IsFunction(f)
    BY FunctionsAssumption
  <2> QED BY <2>1, Zenon DEF IsFunction
<1> QED BY <1>1, <1>3, <1>4 DEF IsPhi

-----------------------------------------------------------------------------
LEMMA InitPassOK == InitPass => IInv
<1> SUFFICES ASSUME InitPass PROVE IInv
  OBVIOUS
<1>1. /\ f \in Functions /\ pc = "entry" /\ k = 0 /\ its = << >> /\ left = {} /\ phi = << >>
      /\ ir = [code |-> f.code, operands |-> f.operands, use_list |-> [v \in ValuesOf(f) |-> Users(f, v)]]
  BY DEF InitPass
<1>2. /\ ir.code = f.code /\ ir.operands = f.operands /\ DOMAIN ir.use_list = ValuesOf(f)
      /\ \A v \in ValuesOf(f) : ir.use_list[v] = Users(f, v)
  BY <1>1
<1>3. f.code \in [Block -> Seq(InstrsOf(f))] /\ f.operands \in [InstrsOf(f) -> Seq(ValuesOf(f))]
  <2>1. IsFunction(f)
    BY <1>1, FunctionsAssumption
  <2> QED BY <2>1, Zenon DEF IsFunction
<1>4. Collected = {} /\ Loaded = {}
  BY <1>1 DEF Collected, Loaded
<1>5. Readers = InstrsOf(f)
  <2>1. \A b \in Block : \A x \in Range(ir.code[b]) : x[1] # "store"
    BY <1>1, <1>2, InInstrs, Kinds
  <2>2. Opened = {}
    BY <1>1, <2>1 DEF Opened
  <2>3. InstrsOf(ir) = InstrsOf(f)
    BY <1>2, Zenon DEF InstrsOf
  <2> QED BY <2>2, <2>3 DEF Readers, Taken, PhisOf
<1>6. LoopsOK
  BY <1>1, Lists DEF LoopsOK, IsInjective, Range
<1>7. CodeOK
  <2>1. IsData(ir)
    <3> DEFINE lists == [v \in ValuesOf(f) |-> Users(f, v)]
    <3>1. ir.use_list = lists
      BY <1>1
    <3> HIDE DEF lists
    <3> QED BY <1>1, <1>2, <3>1 DEF IsData
  <2>2. \A m \in DOMAIN f.bbs : f.bbs[m] \in Block
    BY <1>1, Lists
  <2>3. \A b \in Range(f.bbs) : ir.code[b] # << >> /\ Terminator(b) = LastOf(b)
    BY <1>1, <1>2, Kinds DEF Terminator, LastOf
  <2> QED BY <1>1, <1>2, <1>3, <2>1, <2>2, <2>3, Lists DEF CodeOK
<1>8. NamesOK
  <2>1. InstrsOf(f) \subseteq ValuesOf(f)
    BY DEF ValuesOf
  <2> QED BY <1>2, <1>3, <1>4, <2>1 DEF NamesOK
<1>9. PairsOK
  BY <1>2 DEF PairsOK
<1>10. UsesOK
  BY <1>2, <1>5 DEF UsesOK, Exact, Users
<1> QED BY <1>1, <1>6, <1>7, <1>8, <1>9, <1>10 DEF IInv

-----------------------------------------------------------------------------
\* Who reads is an instruction with operands; a phi of the function always does, erased
\* or not.
LEMMA ReadersAre ==
  ASSUME IInv
  PROVE  /\ Readers \subseteq DOMAIN ir.operands /\ PhisOf(f) \subseteq Readers
         /\ Collected \subseteq PhisOf(f)
         /\ \A x \in Taken : x[1] \in {"br", "ret"}
<1>1. \A b \in Opened : b \in Range(f.bbs)
  <2> TAKE b \in Opened
  <2>1. CASE b = entry
    BY <2>1, Lists DEF IInv
  <2>2. CASE \E x \in Range(ir.code[b]) : x[1] = "store"
    <3>1. ir.code[b] # << >>
      BY <2>2 DEF Range
    <3> QED BY <3>1 DEF IInv, CodeOK, Opened
  <2> QED BY <2>1, <2>2 DEF Opened
<1>2. \A x \in Taken : x[1] \in {"br", "ret"}
  BY <1>1, Kinds DEF IInv, Taken
<1>3. InstrsOf(ir) \subseteq DOMAIN ir.operands
  <2> SUFFICES ASSUME NEW x \in InstrsOf(ir) PROVE x \in DOMAIN ir.operands
    OBVIOUS
  <2>1. PICK b \in Block : x \in Range(ir.code[b])
    BY InInstrs
  <2>2. ir.code[b] \in Seq(DOMAIN ir.operands)
    BY DEF IInv, CodeOK
  <2> QED BY <2>1, <2>2 DEF Range
<1>4. PhisOf(f) \subseteq DOMAIN ir.operands
  BY DEF IInv, NamesOK, PhisOf
<1>5. PhisOf(f) \cap Taken = {}
  BY <1>2, Phis DEF IInv
<1> QED BY <1>2, <1>3, <1>4, <1>5 DEF Readers, Collected

-----------------------------------------------------------------------------
\* The steps that leave the code and the use lists alone.
LEMMA StoreLoopKeepsIInv ==
  ASSUME IInv, NextPhi \/ LastOperand \/ FinishPass
  PROVE  IInv'
<1>1. /\ UNCHANGED <<f, ir, k, its>> /\ pc = "store" /\ pc' \in {"store", "done"} /\ phi \in {<< >>, phi}
      /\ f \in Functions /\ LoopsOK
  BY DEF NextPhi, LastOperand, FinishPass, IInv
<1>2. Collected' = Collected /\ Loaded' = Loaded
  BY <1>1 DEF Collected, Loaded
<1>3. Readers' = Readers
  <2>1. Opened' = Opened
    BY <1>1 DEF Opened, entry
  <2> QED BY <1>1, <2>1 DEF Readers, Taken, LastOf
<1>4. LoopsOK'
  <2>1. CASE NextPhi
    BY <1>1, <1>2, <2>1 DEF NextPhi, LoopsOK
  <2>2. CASE LastOperand
    BY <1>1, <1>2, <2>2 DEF LastOperand, LoopsOK
  <2>3. CASE FinishPass
    BY <1>1, <1>2, <2>3 DEF FinishPass, LoopsOK
  <2> QED BY <2>1, <2>2, <2>3
<1>5. CodeOK'
  BY <1>1 DEF IInv, CodeOK, Terminator, LastOf
<1>6. NamesOK'
  <2>1. ASSUME NEW p, NEW j \in Nat, Stored(p, j) PROVE Stored(p, j)'
    <3>1. CASE NextPhi
      BY <1>1, <2>1, <3>1 DEF NextPhi, Stored
    <3>2. CASE LastOperand
      BY <1>1, <2>1, <3>2 DEF LastOperand, Stored
    <3>3. CASE FinishPass
      BY <1>1, <2>1, <3>3 DEF FinishPass, Stored
    <3> QED BY <3>1, <3>2, <3>3
  <2> QED BY <1>1, <1>2, <2>1 DEF IInv, NamesOK
<1>7. PairsOK'
  BY <1>1 DEF IInv, PairsOK
<1>8. UsesOK'
  BY <1>1, <1>2, <1>3 DEF IInv, UsesOK, Exact
<1> QED BY <1>1, <1>4, <1>5, <1>6, <1>7, <1>8 DEF IInv

LEMMA TakeTerminatorKeepsIInv ==
  ASSUME IInv, TakeTerminator
  PROVE  IInv'
<1> DEFINE t == LastOf(entry)
<1>1. /\ UNCHANGED <<f, k, its, left, phi, i>> /\ pc = "entry" /\ pc' = "collect"
      /\ ir' = DeleteInstrs(ir, entry, {t})
      /\ f \in Functions /\ LoopsOK /\ IsData(ir) /\ k = 0
      /\ \A b \in Block : ir.code[b] \in Seq(DOMAIN ir.operands)
  BY Lists DEF TakeTerminator, DeleteInstr, IInv, CodeOK, LoopsOK
<1>2. entry \in Block /\ entry \in Range(f.bbs) /\ t[1] \in {"br", "ret"}
  BY <1>1, Lists, Kinds
<1>3. /\ IsData(ir') /\ ir'.operands = ir.operands
      /\ DOMAIN ir'.code = Block /\ DOMAIN ir'.use_list = DOMAIN ir.use_list
      /\ \A c \in Block : c # entry => ir'.code[c] = ir.code[c]
      /\ ir'.code[entry] = Without(ir.code[entry], {t})
  BY <1>1, <1>2, Deletion DEF IInv, CodeOK
<1>4. /\ ir'.code[entry] \in Seq(DOMAIN ir.operands)
      /\ Range(ir'.code[entry]) = Range(ir.code[entry]) \ {t}
      /\ IsInjective(ir.code[entry]) => IsInjective(ir'.code[entry])
  <2> DEFINE s == ir.code[entry]
             T == DOMAIN ir.operands
  <2>1. s \in Seq(T) /\ ir'.code[entry] = Without(s, {t})
    BY <1>1, <1>2, <1>3
  <2> HIDE DEF s, T, t
  <2>2. /\ Without(s, {t}) \in Seq(T) /\ Range(Without(s, {t})) = Range(s) \ {t}
        /\ IsInjective(s) => IsInjective(Without(s, {t}))
    BY <2>1, WithoutKeeps
  <2> QED BY <2>1, <2>2 DEF s, T
<1>5. Collected' = Collected /\ Loaded' = Loaded
  BY <1>1 DEF Collected, Loaded
<1>6. Readers' = Readers \ {t}
  <2>1. \A b \in Block : (\E x \in Range(ir'.code[b]) : x[1] = "store")
                      <=> (\E x \in Range(ir.code[b]) : x[1] = "store")
    BY <1>2, <1>3, <1>4
  <2>2. Opened' = Opened \cup {entry}
    BY <1>1, <1>2, <2>1 DEF Opened, entry
  <2>3. Taken' = Taken \cup {t}
    BY <1>1, <2>2 DEF Taken, LastOf, entry
  <2>4. \A x : x \in InstrsOf(ir') => x \in InstrsOf(ir)
    BY <1>3, <1>4, InInstrs
  <2>5. \A x : x \in InstrsOf(ir) /\ x # t => x \in InstrsOf(ir')
    BY <1>3, <1>4, InInstrs
  <2> QED BY <1>1, <2>3, <2>4, <2>5 DEF Readers
<1>7. LoopsOK'
  BY <1>1, <1>5 DEF LoopsOK
<1>8. CodeOK'
  <2>1. \A x : IsPhi(x) => x # t
    BY <1>2 DEF IsPhi
  <2>2. ASSUME NEW m \in DOMAIN f.bbs
        PROVE  /\ IsInjective(ir'.code[f.bbs[m]])
               /\ \A x : IsPhi(x) => (x \in Range(ir'.code[f.bbs[m]]) <=> x \in Range(f.code[f.bbs[m]]))
    <3>1. m > k /\ f.bbs[m] \in Block
      BY <1>1, Lists
    <3>2. /\ IsInjective(ir.code[f.bbs[m]])
          /\ \A x : IsPhi(x) => (x \in Range(ir.code[f.bbs[m]]) <=> x \in Range(f.code[f.bbs[m]]))
      BY <3>1 DEF IInv, CodeOK
    <3> QED BY <1>3, <1>4, <2>1, <3>1, <3>2
  <2>3. \A b \in Range(f.bbs) : b # entry => ir'.code[b] # << >> /\ Terminator(b)' = LastOf(b)
    BY <1>3, Lists DEF IInv, CodeOK, Terminator
  <2>4. \A b \in Block \ Range(f.bbs) : ir'.code[b] = << >>
    BY <1>2, <1>3 DEF IInv, CodeOK
  <2> QED BY <1>1, <1>3, <1>4, <2>2, <2>3, <2>4 DEF CodeOK, LastOf, entry
<1>9. NamesOK'
  <2>1. ASSUME NEW p, NEW j, Stored(p, j) PROVE FALSE
    BY <1>1, <2>1 DEF Stored
  <2> QED BY <1>1, <1>3, <1>5, <2>1 DEF IInv, NamesOK
<1>10. PairsOK'
  <2>1. UNCHANGED f /\ ir'.operands = ir.operands
    BY <1>1, <1>3
  <2>2. PairsOK
    BY DEF IInv
  <2> QED BY <2>1, <2>2, SMT DEF PairsOK
<1>11. UsesOK'
  BY <1>1, <1>3, <1>5, <1>6, DeletedExact DEF IInv, UsesOK
<1> QED BY <1>1, <1>7, <1>8, <1>9, <1>10, <1>11 DEF IInv

-----------------------------------------------------------------------------
\* its holds the phis of the next block, none of which has its alloca.
LEMMA NextPhis ==
  ASSUME IInv, CollectPhis
  PROVE  /\ k + 1 \in DOMAIN f.bbs /\ f.bbs[k + 1] \in Block
         /\ its' \in Seq(PhisOf(f)) /\ IsInjective(its')
         /\ \A p : p \in Range(its') <=> IsPhi(p) /\ p \in Range(f.code[f.bbs[k + 1]])
         /\ Range(its') \subseteq Range(ir.code[f.bbs[k + 1]])
         /\ Range(its') \cap Collected = {}
         /\ Collected' = Collected \cup Range(its')
         /\ its # << >> => FALSE
<1> DEFINE b == f.bbs[k + 1]
           others == {x \in Range(ir.code[b]) : ~IsPhi(x)}
<1>1. /\ f \in Functions /\ k \in Nat /\ k < Len(f.bbs) /\ its = << >> /\ UNCHANGED f /\ k' = k + 1
      /\ its' = Without(ir.code[b], others)
  <2>1. k \in 0..Len(f.bbs) /\ f \in Functions
    BY DEF IInv, LoopsOK
  <2>2. its' = Without(ir.code[b], others)
    BY Zenon DEF CollectPhis, PhisIn
  <2>3. k < Len(f.bbs) /\ its = << >> /\ UNCHANGED f /\ k' = k + 1
    BY Zenon DEF CollectPhis
  <2> HIDE DEF b, others
  <2> QED BY <2>1, <2>2, <2>3, Lists
<1>2. k + 1 \in DOMAIN f.bbs /\ b \in Block
  BY <1>1, Lists
<1>3. /\ ir.code[b] \in Seq(DOMAIN ir.operands)
      /\ IsInjective(ir.code[b])
      /\ \A x : IsPhi(x) => (x \in Range(ir.code[b]) <=> x \in Range(f.code[b]))
  BY <1>1, <1>2 DEF IInv, CodeOK
<1>4. its' \in Seq(DOMAIN ir.operands) /\ Range(its') = Range(ir.code[b]) \ others /\ IsInjective(its')
  <2> DEFINE s == ir.code[b]
             T == DOMAIN ir.operands
  <2>1. s \in Seq(T) /\ its' = Without(s, others) /\ IsInjective(s)
    BY <1>1, <1>3
  <2> HIDE DEF s, T, others
  <2>2. /\ Without(s, others) \in Seq(T) /\ Range(Without(s, others)) = Range(s) \ others
        /\ IsInjective(Without(s, others))
    BY <2>1, WithoutKeeps
  <2> QED BY <2>1, <2>2 DEF s, T
<1>5. \A p : p \in Range(its') <=> IsPhi(p) /\ p \in Range(f.code[b])
  BY <1>3, <1>4
<1>6. its' \in Seq(PhisOf(f))
  <2>1. Range(its') \subseteq PhisOf(f)
    BY <1>2, <1>5, InInstrs DEF PhisOf
  <2> QED BY <1>4, <2>1 DEF Range
<1>7. ASSUME NEW p \in Range(its') PROVE p \notin Collected
  <2> SUFFICES ASSUME p \in Collected PROVE FALSE
    OBVIOUS
  <2>1. PICK m \in 1..k : p \in Range(f.code[f.bbs[m]])
    BY DEF Collected
  <2>2. m \in DOMAIN f.bbs /\ f.bbs[m] \in Block /\ p \in Range(f.code[b])
    BY <1>1, <1>5, Lists
  <2>3. f.bbs[m] = b
    BY <1>1, <1>2, <2>1, <2>2, Lists
  <2> QED BY <1>1, <1>2, <2>2, <2>3, Lists
<1>8. Collected' = Collected \cup Range(its')
  <2>1. Collected' = {p \in PhisOf(f) : \E m \in 1..(k + 1) : p \in Range(f.code[f.bbs[m]])}
    BY <1>1 DEF Collected
  <2>2. \A p \in PhisOf(f) : p \in Range(its') <=> p \in Range(f.code[b])
    BY <1>5 DEF PhisOf
  <2>3. \A m : m \in 1..(k + 1) <=> m \in 1..k \/ m = k + 1
    BY <1>1
  <2>4. Range(its') \subseteq PhisOf(f)
    BY <1>6 DEF Range
  <2> QED BY <2>1, <2>2, <2>3, <2>4 DEF Collected
<1>9. Range(its') \subseteq Range(ir.code[b])
  BY <1>4
<1> QED BY <1>1, <1>2, <1>4, <1>5, <1>6, <1>7, <1>8, <1>9

\* What becomes of the data: the allocas are in the entry, nothing reads them yet.
LEMMA CollectPhisDoes ==
  ASSUME IInv, CollectPhis, NEW S, S = {AllocaOf(p) : p \in Range(its')}
  PROVE  /\ S \cap DOMAIN ir.use_list = {}
         /\ IsData(ir') /\ DOMAIN ir'.code = Block
         /\ DOMAIN ir'.operands = DOMAIN ir.operands \cup S
         /\ DOMAIN ir'.use_list = DOMAIN ir.use_list \cup S
         /\ \A x \in S : ir'.operands[x] = << >> /\ ir'.use_list[x] = {}
         /\ \A x \in DOMAIN ir.operands : ir'.operands[x] = ir.operands[x]
         /\ \A v \in DOMAIN ir.use_list : ir'.use_list[v] = ir.use_list[v]
         /\ \A c \in Block : c # entry => ir'.code[c] = ir.code[c]
         /\ ir'.code[entry] \in Seq(DOMAIN ir'.operands)
         /\ Range(ir'.code[entry]) = Range(ir.code[entry]) \cup S
         /\ Len(ir'.code[entry]) >= Len(ir.code[entry])
         /\ \A h \in DOMAIN ir.code[entry] : ir'.code[entry][h] = ir.code[entry][h]
         /\ \A h \in DOMAIN ir'.code[entry] : h > Len(ir.code[entry]) => ir'.code[entry][h] \in S
<1> DEFINE new == [j \in DOMAIN its' |-> AllocaOf(its'[j])]
           d == Declare(ir, S)
<1>1. its' \in Seq(PhisOf(f))
  BY NextPhis
<1>2. Range(new) = S /\ new \in Seq(S)
  <2>1. DOMAIN its' = 1..Len(its') /\ Len(its') \in Nat
    BY <1>1
  <2>2. Range(new) = S
    BY <2>1 DEF Range
  <2> QED BY <2>1, <2>2 DEF Range
<1>3. ir' = [Declare(ir, Range(new)) EXCEPT !.code[entry] = @ \o new]
  BY Zenon DEF CollectPhis
<1>4. /\ IsData(ir) /\ DOMAIN ir.code = Block /\ entry \in Block
      /\ ir.code[entry] \in Seq(DOMAIN ir.operands)
      /\ DOMAIN ir.operands \subseteq DOMAIN ir.use_list
  BY Lists DEF IInv, CodeOK, NamesOK
<1>5. S \cap DOMAIN ir.use_list = {}
  <2> SUFFICES ASSUME NEW p \in Range(its'), AllocaOf(p) \in DOMAIN ir.use_list PROVE FALSE
    OBVIOUS
  <2>1. AllocaOf(p)[1] = "alloca" /\ AllocaOf(p)[2] = p
    BY DEF AllocaOf
  <2>2. AllocaOf(p) \notin ValuesOf(f)
    BY <2>1, Kinds DEF IInv
  <2>3. \A q : AllocaOf(p) # LoadOf(q) /\ \A j : AllocaOf(p) # StoreOf(q, j)
    BY <2>1 DEF LoadOf, StoreOf
  <2>4. PICK q \in Collected : AllocaOf(p) = AllocaOf(q)
    BY <2>2, <2>3 DEF IInv, NamesOK
  <2>5. p = q
    BY <2>1, <2>4 DEF AllocaOf
  <2> QED BY <2>4, <2>5, NextPhis
<1>6. /\ IsData(d) /\ d.code = ir.code
      /\ DOMAIN d.operands = DOMAIN ir.operands \cup S /\ DOMAIN d.use_list = DOMAIN ir.use_list \cup S
      /\ \A x \in S : d.operands[x] = << >> /\ d.use_list[x] = {}
      /\ \A x \in DOMAIN ir.operands \ S : d.operands[x] = ir.operands[x]
      /\ \A v \in DOMAIN ir.use_list \ S : d.use_list[v] = ir.use_list[v]
  BY <1>4, Declared
<1>7. ir' = [d EXCEPT !.code[entry] = @ \o new]
  BY <1>2, <1>3, Zenon
<1> HIDE DEF d, new
<1>8. ir' = [code |-> [d.code EXCEPT ![entry] = @ \o new], operands |-> d.operands, use_list |-> d.use_list]
  BY <1>6, <1>7 DEF IsData
<1>9. /\ ir'.operands = d.operands /\ ir'.use_list = d.use_list /\ DOMAIN ir'.code = Block
      /\ \A c \in Block : c # entry => ir'.code[c] = ir.code[c]
      /\ ir'.code[entry] = ir.code[entry] \o new
  BY <1>4, <1>6, <1>8
<1>10. IsData(ir')
  BY <1>8, <1>9 DEF IsData
<1>11. /\ ir.code[entry] \o new \in Seq(DOMAIN ir.operands \cup S)
       /\ Range(ir.code[entry] \o new) = Range(ir.code[entry]) \cup Range(new)
       /\ Len(ir.code[entry] \o new) >= Len(ir.code[entry])
       /\ \A h \in DOMAIN ir.code[entry] : (ir.code[entry] \o new)[h] = ir.code[entry][h]
       /\ \A h \in DOMAIN (ir.code[entry] \o new) : h > Len(ir.code[entry]) => (ir.code[entry] \o new)[h] \in S
  <2> DEFINE s == ir.code[entry]
             T == DOMAIN ir.operands
  <2>1. s \in Seq(T \cup S) /\ new \in Seq(T \cup S)
    BY <1>2, <1>4
  <2> HIDE DEF s, T
  <2>2. s \o new \in Seq(T \cup S)
    BY <2>1
  <2>3. Range(s \o new) = Range(s) \cup Range(new)
    BY <2>1, RangeOfConcat
  <2>4. Len(s \o new) >= Len(s) /\ \A h \in DOMAIN s : (s \o new)[h] = s[h]
    BY <2>1
  <2>5. \A h \in DOMAIN (s \o new) : h > Len(s) => (s \o new)[h] \in S
    BY <1>2, <2>1
  <2> QED BY <2>2, <2>3, <2>4, <2>5, Zenon DEF s, T
<1>12. /\ \A x \in DOMAIN ir.operands : ir'.operands[x] = ir.operands[x]
       /\ \A v \in DOMAIN ir.use_list : ir'.use_list[v] = ir.use_list[v]
  BY <1>4, <1>5, <1>6, <1>9
<1>13. /\ IsData(ir') /\ DOMAIN ir'.code = Block
       /\ DOMAIN ir'.operands = DOMAIN ir.operands \cup S
       /\ DOMAIN ir'.use_list = DOMAIN ir.use_list \cup S
       /\ \A x \in S : ir'.operands[x] = << >> /\ ir'.use_list[x] = {}
       /\ \A c \in Block : c # entry => ir'.code[c] = ir.code[c]
  BY <1>6, <1>9, <1>10
<1>14. /\ ir'.code[entry] \in Seq(DOMAIN ir'.operands)
       /\ Range(ir'.code[entry]) = Range(ir.code[entry]) \cup S
       /\ Len(ir'.code[entry]) >= Len(ir.code[entry])
       /\ \A h \in DOMAIN ir.code[entry] : ir'.code[entry][h] = ir.code[entry][h]
       /\ \A h \in DOMAIN ir'.code[entry] : h > Len(ir.code[entry]) => ir'.code[entry][h] \in S
  BY <1>2, <1>9, <1>11, <1>13, Zenon
<1> QED BY <1>5, <1>12, <1>13, <1>14

LEMMA CollectPhisKeepsIInv ==
  ASSUME IInv, CollectPhis
  PROVE  IInv'
<1> DEFINE b == f.bbs[k + 1]
<1>1. PICK S : S = {AllocaOf(p) : p \in Range(its')}
  OBVIOUS
<1>2. /\ S \cap DOMAIN ir.use_list = {}
      /\ IsData(ir') /\ DOMAIN ir'.code = Block
      /\ DOMAIN ir'.operands = DOMAIN ir.operands \cup S
      /\ DOMAIN ir'.use_list = DOMAIN ir.use_list \cup S
      /\ \A x \in S : ir'.operands[x] = << >> /\ ir'.use_list[x] = {}
      /\ \A x \in DOMAIN ir.operands : ir'.operands[x] = ir.operands[x]
      /\ \A v \in DOMAIN ir.use_list : ir'.use_list[v] = ir.use_list[v]
      /\ \A c \in Block : c # entry => ir'.code[c] = ir.code[c]
      /\ ir'.code[entry] \in Seq(DOMAIN ir'.operands)
      /\ Range(ir'.code[entry]) = Range(ir.code[entry]) \cup S
  BY <1>1, CollectPhisDoes
<1>3. /\ b \in Block /\ its' \in Seq(PhisOf(f)) /\ IsInjective(its')
      /\ \A p : p \in Range(its') <=> IsPhi(p) /\ p \in Range(f.code[b])
      /\ Range(its') \subseteq Range(ir.code[b]) /\ Range(its') \cap Collected = {}
      /\ Collected' = Collected \cup Range(its') /\ k + 1 \in DOMAIN f.bbs
  BY NextPhis
<1>4. /\ UNCHANGED <<f, pc, phi, i>> /\ pc = "collect" /\ its = << >> /\ k' = k + 1
      /\ left' = left \cup Range(its') /\ k < Len(f.bbs)
  BY DEF CollectPhis
<1>5. \A x \in S : x[1] = "alloca"
  BY <1>1 DEF AllocaOf
<1>6. Loaded = Collected /\ Loaded' = Collected
  <2>1. Range(its) = {}
    BY <1>4 DEF Range
  <2> QED BY <1>3, <2>1 DEF Loaded
<1>7. /\ f \in Functions /\ LoopsOK /\ CodeOK /\ NamesOK /\ PairsOK /\ UsesOK
  BY DEF IInv
<1>8. entry' = entry /\ entry \in Block /\ entry \in Range(f.bbs)
  BY <1>4, <1>7, Lists DEF entry
<1>9. Readers' = Readers \cup S
  <2>1. \A c \in Block : (\E x \in Range(ir'.code[c]) : x[1] = "store")
                      <=> (\E x \in Range(ir.code[c]) : x[1] = "store")
    BY <1>2, <1>5
  <2>2. Opened' = Opened
    BY <1>4, <1>8, <2>1 DEF Opened
  <2>3. Taken' = Taken
    BY <1>4, <2>2 DEF Taken, LastOf
  <2>4. \A x : x \in InstrsOf(ir') <=> x \in InstrsOf(ir) \/ x \in S
    BY <1>2, <1>8, InInstrs
  <2>5. S \cap Taken = {}
    BY <1>5, ReadersAre
  <2> QED BY <1>4, <2>3, <2>4, <2>5 DEF Readers
<1>10. LoopsOK'
  <2>1. k \in Nat /\ k + 1 \in 0..Len(f.bbs) /\ k + 1 > 0
    BY <1>4, <1>7, Lists DEF LoopsOK
  <2>2. left' \subseteq Collected'
    BY <1>3, <1>4, <1>7 DEF LoopsOK
  <2>3. Range(its') \subseteq Range(f.code[b]) \cap Range(ir'.code[b])
    BY <1>2, <1>3
  <2>4. phi = << >>
    BY <1>4, <1>7 DEF LoopsOK
  <2> QED BY <1>3, <1>4, <2>1, <2>2, <2>3, <2>4 DEF LoopsOK
<1>11. CodeOK'
  <2>1. \A c \in Block : ir'.code[c] \in Seq(DOMAIN ir'.operands)
    <3>1. \A c \in Block : ir.code[c] \in Seq(DOMAIN ir.operands)
      BY <1>7 DEF CodeOK
    <3>2. DOMAIN ir.operands \subseteq DOMAIN ir'.operands
      BY <1>2
    <3> QED BY <1>2, <3>1, <3>2
  <2>2. ASSUME NEW m \in DOMAIN f.bbs, m > k + 1
        PROVE  /\ IsInjective(ir'.code[f.bbs[m]])
               /\ \A x : IsPhi(x) => (x \in Range(ir'.code[f.bbs[m]]) <=> x \in Range(f.code[f.bbs[m]]))
    <3>1. m > k /\ f.bbs[m] \in Block /\ 1 \in DOMAIN f.bbs /\ m # 1
      BY <1>4, <1>7, <2>2, Lists DEF LoopsOK
    <3>2. f.bbs[m] # entry
      BY <1>7, <3>1, Lists DEF entry
    <3> QED BY <1>2, <1>7, <3>1, <3>2 DEF CodeOK
  <2>3. \A c \in Range(f.bbs) : c # entry => ir'.code[c] # << >> /\ Terminator(c)' = LastOf(c)
    BY <1>2, <1>7, Lists DEF CodeOK, Terminator
  <2>4. \A c \in Block \ Range(f.bbs) : ir'.code[c] = << >>
    BY <1>2, <1>7, <1>8 DEF CodeOK
  <2> QED BY <1>2, <1>4, <1>8, <2>1, <2>2, <2>3, <2>4 DEF CodeOK, LastOf
<1>12. NamesOK'
  <2>1. \A p, j : ~Stored(p, j)
    BY <1>4 DEF Stored
  <2>2. \A v \in DOMAIN ir'.use_list :
          \/ v \in ValuesOf(f)
          \/ \E p \in Collected' : v = AllocaOf(p)
          \/ \E p \in Loaded' : v = LoadOf(p)
    BY <1>1, <1>2, <1>3, <1>6, <1>7, <2>1 DEF NamesOK
  <2>3. \A p \in Collected' : AllocaOf(p) \in DOMAIN ir'.use_list
    BY <1>1, <1>2, <1>3, <1>7 DEF NamesOK
  <2>4. \A x \in DOMAIN ir'.operands : ir'.operands[x] \in Seq(DOMAIN ir'.use_list)
    <3>1. \A x \in DOMAIN ir.operands : ir.operands[x] \in Seq(DOMAIN ir.use_list)
      BY <1>7 DEF NamesOK
    <3>2. DOMAIN ir.use_list \subseteq DOMAIN ir'.use_list
      BY <1>2
    <3> SUFFICES ASSUME NEW x \in DOMAIN ir'.operands PROVE ir'.operands[x] \in Seq(DOMAIN ir'.use_list)
      OBVIOUS
    <3>3. CASE x \in DOMAIN ir.operands
      <4>1. ir'.operands[x] = ir.operands[x] /\ ir.operands[x] \in Seq(DOMAIN ir.use_list)
        BY <1>2, <3>1, <3>3
      <4> QED BY <3>2, <4>1
    <3>4. CASE x \in S
      <4>1. ir'.operands[x] = << >>
        BY <1>2, <3>4
      <4> QED BY <4>1
    <3> QED BY <1>2, <3>3, <3>4
  <2>5. /\ ValuesOf(f) \subseteq DOMAIN ir'.use_list
        /\ InstrsOf(f) \subseteq DOMAIN ir'.operands /\ DOMAIN ir'.operands \subseteq DOMAIN ir'.use_list
    BY <1>2, <1>7 DEF NamesOK
  <2> QED BY <1>4, <2>2, <2>3, <2>4, <2>5 DEF NamesOK
<1>13. PairsOK'
  <2>1. \A p \in PhisOf(f) : ir'.operands[p] = ir.operands[p]
    BY <1>2, ReadersAre
  <2> QED BY <1>4, <1>7, <2>1 DEF PairsOK
<1>14. UsesOK'
  <2> SUFFICES ASSUME NEW v \in DOMAIN ir'.use_list, v \notin Collected PROVE Exact(ir', Readers', v)
    BY <1>6 DEF UsesOK
  <2>1. Readers \subseteq DOMAIN ir.operands
    BY ReadersAre
  <2>2. CASE v \in DOMAIN ir.use_list
    <3>1. Exact(ir, Readers, v)
      BY <1>6, <1>7, <2>2 DEF UsesOK
    <3>2. /\ \A u \in ir.use_list[v] : \E y \in Readers : \E j \in DOMAIN ir.operands[y] :
               u = <<y, j>> /\ ir.operands[y][j] = v
          /\ \A y \in Readers : \A j \in DOMAIN ir.operands[y] :
               ir.operands[y][j] = v => <<y, j>> \in ir.use_list[v]
      BY <3>1, ExactMeans
    <3>3. /\ \A u \in ir'.use_list[v] : \E y \in Readers' : \E j \in DOMAIN ir'.operands[y] :
               u = <<y, j>> /\ ir'.operands[y][j] = v
          /\ \A y \in Readers' : \A j \in DOMAIN ir'.operands[y] :
               ir'.operands[y][j] = v => <<y, j>> \in ir'.use_list[v]
      BY <1>2, <1>9, <2>1, <2>2, <3>2
    <3> QED BY <3>3, ExactMeans
  <2>3. CASE v \in S
    <3>1. \A y \in Readers : \A j \in DOMAIN ir.operands[y] : ir.operands[y][j] \in DOMAIN ir.use_list
      BY <1>7, <2>1 DEF NamesOK
    <3>2. /\ \A u \in ir'.use_list[v] : \E y \in Readers' : \E j \in DOMAIN ir'.operands[y] :
               u = <<y, j>> /\ ir'.operands[y][j] = v
          /\ \A y \in Readers' : \A j \in DOMAIN ir'.operands[y] :
               ir'.operands[y][j] = v => <<y, j>> \in ir'.use_list[v]
      BY <1>2, <1>9, <2>1, <2>3, <3>1
    <3> QED BY <3>2, ExactMeans
  <2> QED BY <1>2, <2>2, <2>3
<1> QED BY <1>4, <1>7, <1>10, <1>11, <1>12, <1>13, <1>14 DEF IInv

-----------------------------------------------------------------------------
\* The phi that is replaced has its alloca and no load yet.
LEMMA NextReplaced ==
  ASSUME IInv, ReplacePhi, NEW p, p = Head(its), NEW b, b = f.bbs[k]
  PROVE  /\ p \in PhisOf(f) /\ p \in Collected /\ p \notin Loaded /\ p[1] = "phi"
         /\ k \in DOMAIN f.bbs /\ b \in Block /\ b \in Range(f.bbs) /\ b # entry
         /\ p \in Range(f.code[b])
         /\ its' \in Seq(PhisOf(f)) /\ IsInjective(its') /\ Range(its') = Range(its) \ {p}
         /\ LoadOf(p) \notin DOMAIN ir.use_list
<1>1. /\ f \in Functions /\ its # << >> /\ its' = Tail(its) /\ its \in Seq(PhisOf(f)) /\ IsInjective(its)
      /\ k > 0 /\ k \in 0..Len(f.bbs) /\ Range(its) \subseteq Range(f.code[f.bbs[k]])
  BY DEF IInv, LoopsOK, ReplacePhi
<1>2. p \in Range(its) /\ p \in PhisOf(f)
  <2>1. 1 \in DOMAIN its /\ p = its[1] /\ its[1] \in PhisOf(f)
    BY <1>1
  <2> QED BY <2>1 DEF Range
<1>3. k \in DOMAIN f.bbs /\ b \in Block /\ b \in Range(f.bbs) /\ p \in Range(f.code[b]) /\ k \in 1..k
  <2>1. k \in DOMAIN f.bbs /\ k \in 1..k
    BY <1>1, Lists
  <2>2. f.bbs[k] \in Range(f.bbs) /\ Range(f.bbs) \subseteq Block
    BY <1>1, <2>1, Lists DEF Range
  <2> QED BY <1>1, <1>2, <2>1, <2>2
<1>4. p \in Collected /\ p \notin Loaded
  BY <1>2, <1>3 DEF Collected, Loaded
<1>5. p[1] = "phi" /\ b # entry
  BY <1>1, <1>2, <1>3, Kinds, Phis DEF IsPhi
<1>6. its' \in Seq(PhisOf(f)) /\ IsInjective(its') /\ Range(its') = Range(its) \ {p}
  <2>1. /\ Len(its) \in Nat \ {0} /\ DOMAIN its = 1..Len(its) /\ its' \in Seq(PhisOf(f))
        /\ DOMAIN its' = 1..(Len(its) - 1) /\ p = its[1]
        /\ \A j \in 1..(Len(its) - 1) : its'[j] = its[j + 1]
    BY <1>1
  <2>2. \A j, n \in DOMAIN its : its[j] = its[n] => j = n
    BY <1>1 DEF IsInjective
  <2>3. IsInjective(its')
    <3>1. ASSUME NEW j \in DOMAIN its', NEW n \in DOMAIN its', its'[j] = its'[n] PROVE j = n
      <4>1. /\ j \in Nat /\ n \in Nat /\ j + 1 \in DOMAIN its /\ n + 1 \in DOMAIN its
            /\ its[j + 1] = its[n + 1]
        BY <2>1, <3>1
      <4>2. j + 1 = n + 1
        BY <2>2, <4>1
      <4> QED BY <4>1, <4>2
    <3> QED BY <3>1, Zenon DEF IsInjective
  <2>4. ASSUME NEW x \in Range(its') PROVE x \in Range(its) \ {p}
    <3>1. PICK j \in 1..(Len(its) - 1) : x = its[j + 1]
      BY <2>1 DEF Range
    <3>2. j + 1 \in DOMAIN its /\ 1 \in DOMAIN its /\ j + 1 # 1
      BY <2>1
    <3> QED BY <2>1, <2>2, <3>1, <3>2 DEF Range
  <2>5. ASSUME NEW x \in Range(its), x # p PROVE x \in Range(its')
    <3>1. PICK j \in DOMAIN its : x = its[j]
      BY DEF Range
    <3>2. j - 1 \in DOMAIN its' /\ its'[j - 1] = x
      BY <2>1, <2>5, <3>1
    <3> QED BY <3>2 DEF Range
  <2> QED BY <2>1, <2>3, <2>4, <2>5
<1>7. LoadOf(p) \notin DOMAIN ir.use_list
  <2> SUFFICES ASSUME LoadOf(p) \in DOMAIN ir.use_list PROVE FALSE
    OBVIOUS
  <2>1. LoadOf(p)[1] = "load" /\ LoadOf(p)[2] = p
    BY DEF LoadOf
  <2>2. LoadOf(p) \notin ValuesOf(f)
    BY <1>1, <2>1, Kinds
  <2>3. \A q : LoadOf(p) # AllocaOf(q) /\ \A j : LoadOf(p) # StoreOf(q, j)
    BY <2>1 DEF AllocaOf, StoreOf
  <2>4. PICK q \in Loaded : LoadOf(p) = LoadOf(q)
    BY <2>2, <2>3 DEF IInv, NamesOK
  <2> QED BY <1>4, <2>1, <2>4 DEF LoadOf
<1> QED BY <1>2, <1>3, <1>4, <1>5, <1>6, <1>7

\* What becomes of the data when p in b is replaced by ld: whoever read the phi reads
\* the load.
Replacing(p, b, ld) ==
  /\ IsData(ir') /\ DOMAIN ir'.code = Block
  /\ DOMAIN ir'.operands = DOMAIN ir.operands \cup {ld}
  /\ DOMAIN ir'.use_list = DOMAIN ir.use_list \cup {ld}
  /\ \A c \in Block : c # b => ir'.code[c] = ir.code[c]
  /\ ir'.code[b] \in Seq(DOMAIN ir'.operands) /\ DOMAIN ir'.code[b] = DOMAIN ir.code[b]
  /\ \A j \in DOMAIN ir.code[b] : /\ ir.code[b][j] = p => ir'.code[b][j] = ld
                                  /\ ir.code[b][j] # p => ir'.code[b][j] = ir.code[b][j]
  /\ \A x \in DOMAIN ir'.operands : ir'.operands[x] \in Seq(DOMAIN ir'.use_list)
  /\ \A x \in Readers : DOMAIN ir'.operands[x] = DOMAIN ir.operands[x]
  /\ \A x \in Readers : \A j \in DOMAIN ir.operands[x] :
       ir.operands[x][j] # p => ir'.operands[x][j] = ir.operands[x][j]
  /\ \A v \in DOMAIN ir'.use_list : v \notin Loaded /\ v # p => Exact(ir', Readers \cup {ld}, v)
  /\ ir'.operands[ld] = <<AllocaOf(p)>>
  /\ \A x \in DOMAIN ir.operands : DOMAIN ir'.operands[x] = DOMAIN ir.operands[x]
  /\ \A x \in DOMAIN ir.operands : \A j \in DOMAIN ir.operands[x] :
       ir'.operands[x][j] = IF x \in Readers /\ ir.operands[x][j] = p THEN ld ELSE ir.operands[x][j]

LEMMA ReplacePhiDoes ==
  ASSUME IInv, ReplacePhi, NEW p, p = Head(its), NEW b, b = f.bbs[k], NEW ld, ld = LoadOf(p)
  PROVE  Replacing(p, b, ld)
<1> DEFINE al == AllocaOf(p)
           c == Create(ir, ld, <<al>>)
           g == ReplaceAllUseWith(c, p, ld)
           P == Readers \cup {ld}
<1>1. ir' = [g EXCEPT !.code[b] = [j \in DOMAIN @ |-> IF @[j] = p THEN ld ELSE @[j]]]
  BY Zenon DEF ReplacePhi, Erased
<1>2. /\ p \in PhisOf(f) /\ p \in Collected /\ p \notin Loaded /\ b \in Block /\ p[1] = "phi"
      /\ ld \notin DOMAIN ir.use_list
  BY NextReplaced
<1>3. /\ IsData(ir) /\ DOMAIN ir.code = Block
      /\ DOMAIN ir.operands \subseteq DOMAIN ir.use_list
      /\ \A x \in DOMAIN ir.operands : ir.operands[x] \in Seq(DOMAIN ir.use_list)
      /\ al \in DOMAIN ir.use_list /\ p \in DOMAIN ir.use_list
  <2>1. CodeOK /\ NamesOK /\ p \in InstrsOf(f)
    BY <1>2, Phis DEF IInv
  <2> QED BY <1>2, <2>1 DEF CodeOK, NamesOK
<1>4. ld # p
  BY <1>2 DEF LoadOf
<1>5. /\ IsData(c) /\ c.code = ir.code
      /\ DOMAIN c.operands = DOMAIN ir.operands \cup {ld} /\ DOMAIN c.use_list = DOMAIN ir.use_list \cup {ld}
      /\ c.operands[ld] = <<al>> /\ \A y \in DOMAIN ir.operands \ {ld} : c.operands[y] = ir.operands[y]
  <2> HIDE DEF al
  <2> QED BY <1>3, Created
<1>6. Readers \subseteq DOMAIN ir.operands /\ ld \notin Readers /\ P \subseteq DOMAIN c.operands
  BY <1>2, <1>3, <1>5, ReadersAre
<1>7. \A v \in DOMAIN c.use_list : v \notin Loaded => Exact(c, P, v)
  <2> SUFFICES ASSUME NEW v \in DOMAIN c.use_list, v \notin Loaded PROVE Exact(c, P, v)
    OBVIOUS
  <2>1. CASE v \in DOMAIN ir.use_list \ {ld}
    <3>1. Exact(ir, Readers, v)
      BY <2>1 DEF IInv, UsesOK
    <3> HIDE DEF al
    <3> QED BY <1>3, <1>6, <2>1, <3>1, CreatedExact
  <2>2. CASE v = ld
    <3>1. \A y \in Readers : \A j \in DOMAIN ir.operands[y] : ir.operands[y][j] # ld
      BY <1>2, <1>3, <1>6
    <3> HIDE DEF al
    <3> QED BY <1>3, <1>6, <2>2, <3>1, CreatedExact
  <2> QED BY <1>5, <2>1, <2>2
<1>8. \A x \in DOMAIN c.operands : c.operands[x] \in Seq(DOMAIN c.use_list)
  <2> SUFFICES ASSUME NEW x \in DOMAIN c.operands PROVE c.operands[x] \in Seq(DOMAIN c.use_list)
    OBVIOUS
  <2>1. CASE x = ld
    <3>1. c.operands[x] = <<al>> /\ al \in DOMAIN c.use_list
      BY <1>3, <1>5, <2>1
    <3> HIDE DEF al, c
    <3>2. <<al>> \in Seq(DOMAIN c.use_list)
      BY <3>1, SeqOfOne, Zenon
    <3> QED BY <3>1, <3>2, Zenon
  <2>2. CASE x # ld
    <3>1. c.operands[x] = ir.operands[x] /\ ir.operands[x] \in Seq(DOMAIN ir.use_list)
      BY <1>3, <1>5, <2>2
    <3>2. DOMAIN ir.use_list \subseteq DOMAIN c.use_list
      BY <1>5
    <3> HIDE DEF al, c
    <3> QED BY <3>1, <3>2, SeqOfMore
  <2> QED BY <2>1, <2>2
<1> HIDE DEF c, al
<1>9. /\ IsData(g) /\ g.code = c.code
      /\ DOMAIN g.operands = DOMAIN c.operands /\ DOMAIN g.use_list = DOMAIN c.use_list
      /\ \A x \in DOMAIN c.operands : \A T : c.operands[x] \in Seq(T) => g.operands[x] \in Seq(T \cup {ld})
      /\ \A x \in DOMAIN c.operands : DOMAIN g.operands[x] = DOMAIN c.operands[x]
      /\ \A x \in DOMAIN c.operands : \A j \in DOMAIN c.operands[x] :
           /\ <<x, j>> \in c.use_list[p] => g.operands[x][j] = ld
           /\ <<x, j>> \notin c.use_list[p] => g.operands[x][j] = c.operands[x][j]
  BY <1>5, Replaced
<1>10. \A v \in DOMAIN g.use_list : v \notin Loaded /\ v # p => Exact(g, P, v)
  <2> SUFFICES ASSUME NEW v \in DOMAIN c.use_list, v \notin Loaded, v # p PROVE Exact(g, P, v)
    BY <1>9
  <2>1. Exact(c, P, p) /\ Exact(c, P, v)
    BY <1>2, <1>3, <1>5, <1>7
  <2> HIDE DEF P
  <2> QED BY <1>4, <1>5, <1>6, <2>1, ReplacedExact
<1>11. /\ g.operands[ld] = <<al>>
       /\ \A x \in DOMAIN ir.operands : \A j \in DOMAIN ir.operands[x] :
            g.operands[x][j] = IF x \in Readers /\ ir.operands[x][j] = p THEN ld ELSE ir.operands[x][j]
  <2>1. Exact(c, P, p)
    BY <1>2, <1>3, <1>5, <1>7
  <2>2. /\ \A u \in c.use_list[p] : \E x \in P : \E j \in DOMAIN c.operands[x] :
             u = <<x, j>> /\ c.operands[x][j] = p
        /\ \A x \in P : \A j \in DOMAIN c.operands[x] : c.operands[x][j] = p => <<x, j>> \in c.use_list[p]
    BY <2>1, ExactMeans
  <2>3. ASSUME NEW x \in DOMAIN ir.operands, NEW j \in DOMAIN ir.operands[x]
        PROVE  g.operands[x][j] = IF x \in Readers /\ ir.operands[x][j] = p THEN ld ELSE ir.operands[x][j]
    <3>1. x \in DOMAIN c.operands /\ c.operands[x] = ir.operands[x] /\ x # ld
      BY <1>2, <1>3, <1>5
    <3>2. <<x, j>> \in c.use_list[p] <=> x \in Readers /\ ir.operands[x][j] = p
      BY <2>2, <3>1
    <3> QED BY <1>9, <3>1, <3>2
  <2>4. g.operands[ld] = <<al>>
    <3>1. c.operands[ld] = <<al>> /\ ld \in DOMAIN c.operands /\ DOMAIN g.operands[ld] = DOMAIN c.operands[ld]
      BY <1>5, <1>9
    <3>2. al # p
      BY <1>2 DEF al, AllocaOf
    <3>3. 1 \in DOMAIN c.operands[ld] /\ c.operands[ld][1] = al
      BY <3>1
    <3>4. <<ld, 1>> \notin c.use_list[p]
      BY <2>2, <3>2, <3>3
    <3>5. g.operands[ld][1] = al
      BY <1>9, <3>1, <3>3, <3>4
    <3>6. g.operands[ld] \in Seq({al, ld})
      <4>1. <<al>> \in Seq({al})
        OBVIOUS
      <4>2. g.operands[ld] \in Seq({al} \cup {ld})
        BY <1>9, <3>1, <4>1
      <4> QED BY <4>2
    <3> QED BY <3>1, <3>5, <3>6
  <2> QED BY <2>3, <2>4
<1> HIDE DEF g
<1>12. ir' = [code |-> [g.code EXCEPT ![b] = [j \in DOMAIN @ |-> IF @[j] = p THEN ld ELSE @[j]]],
              operands |-> g.operands, use_list |-> g.use_list]
  BY <1>1, <1>9 DEF IsData
<1>13. ir'.operands = g.operands /\ ir'.use_list = g.use_list
       /\ ir'.code = [g.code EXCEPT ![b] = [j \in DOMAIN @ |-> IF @[j] = p THEN ld ELSE @[j]]]
  BY <1>12
<1>14. IsData(ir')
  BY <1>12, <1>13 DEF IsData
<1>15. /\ DOMAIN ir'.code = Block
       /\ \A d \in Block : d # b => ir'.code[d] = ir.code[d]
       /\ ir'.code[b] = [j \in DOMAIN ir.code[b] |-> IF ir.code[b][j] = p THEN ld ELSE ir.code[b][j]]
  BY <1>2, <1>3, <1>5, <1>9, <1>13
<1>16. /\ ir'.code[b] \in Seq(DOMAIN ir'.operands) /\ DOMAIN ir'.code[b] = DOMAIN ir.code[b]
       /\ \A j \in DOMAIN ir.code[b] : /\ ir.code[b][j] = p => ir'.code[b][j] = ld
                                       /\ ir.code[b][j] # p => ir'.code[b][j] = ir.code[b][j]
  <2> DEFINE s == ir.code[b]
             T == DOMAIN ir.operands
             e(j) == IF s[j] = p THEN ld ELSE s[j]
  <2>1. s \in Seq(T) /\ DOMAIN ir'.operands = T \cup {ld} /\ ir'.code[b] = [j \in DOMAIN s |-> e(j)]
    BY <1>2, <1>5, <1>9, <1>13, <1>15 DEF IInv, CodeOK
  <2> HIDE DEF s, T
  <2>2. DOMAIN s = 1..Len(s) /\ Len(s) \in Nat /\ \A j \in DOMAIN s : e(j) \in T \cup {ld}
    BY <2>1
  <2>3. [j \in DOMAIN s |-> e(j)] \in Seq(T \cup {ld})
    <3> HIDE DEF e
    <3> QED BY <2>2
  <2> QED BY <2>1, <2>3 DEF s, T
<1>17. \A v \in DOMAIN ir'.use_list : v \notin Loaded /\ v # p => Exact(ir', P, v)
  BY <1>10, <1>13 DEF Exact
<1>18. \A x \in DOMAIN ir'.operands : ir'.operands[x] \in Seq(DOMAIN ir'.use_list)
  <2>1. DOMAIN ir'.use_list = DOMAIN c.use_list \cup {ld} /\ DOMAIN ir'.operands = DOMAIN c.operands
    BY <1>5, <1>9, <1>13
  <2> QED BY <1>8, <1>9, <1>13, <2>1
<1>19. /\ ir'.operands[ld] = <<AllocaOf(p)>>
       /\ \A x \in DOMAIN ir.operands : \A j \in DOMAIN ir.operands[x] :
            ir'.operands[x][j] = IF x \in Readers /\ ir.operands[x][j] = p THEN ld ELSE ir.operands[x][j]
  BY <1>11, <1>13 DEF al
<1>20. /\ DOMAIN ir'.operands = DOMAIN ir.operands \cup {ld}
       /\ DOMAIN ir'.use_list = DOMAIN ir.use_list \cup {ld}
       /\ \A x \in Readers : DOMAIN ir'.operands[x] = DOMAIN ir.operands[x]
       /\ \A x \in Readers : \A j \in DOMAIN ir.operands[x] :
            ir.operands[x][j] # p => ir'.operands[x][j] = ir.operands[x][j]
       /\ \A x \in DOMAIN ir.operands : DOMAIN ir'.operands[x] = DOMAIN ir.operands[x]
  <2>1. /\ DOMAIN ir'.operands = DOMAIN ir.operands \cup {ld}
        /\ DOMAIN ir'.use_list = DOMAIN ir.use_list \cup {ld}
    BY ONLY <1>5, <1>9, <1>13
  <2>2. \A x \in DOMAIN ir.operands : DOMAIN ir'.operands[x] = DOMAIN ir.operands[x]
    <3>1. ld \notin DOMAIN ir.operands
      BY ONLY <1>2, <1>3
    <3> QED BY ONLY <1>5, <1>9, <1>13, <3>1
  <2> QED BY ONLY <1>6, <1>19, <2>1, <2>2
<1> QED BY <1>14, <1>15, <1>17, <1>18, <1>20, <1>16, <1>19, Zenon DEF Replacing

LEMMA ReplacePhiKeepsIInv ==
  ASSUME IInv, ReplacePhi
  PROVE  IInv'
<1>1. PICK p, b, ld : p = Head(its) /\ b = f.bbs[k] /\ ld = LoadOf(p)
  BY Zenon
<1>2. /\ p \in PhisOf(f) /\ p \in Collected /\ p \notin Loaded /\ p[1] = "phi"
      /\ k \in DOMAIN f.bbs /\ b \in Block /\ b \in Range(f.bbs) /\ b # entry
      /\ p \in Range(f.code[b])
      /\ its' \in Seq(PhisOf(f)) /\ IsInjective(its') /\ Range(its') = Range(its) \ {p}
      /\ ld \notin DOMAIN ir.use_list
  BY <1>1, NextReplaced
<1>3. /\ IsData(ir') /\ DOMAIN ir'.code = Block
      /\ DOMAIN ir'.operands = DOMAIN ir.operands \cup {ld}
      /\ DOMAIN ir'.use_list = DOMAIN ir.use_list \cup {ld}
      /\ \A c \in Block : c # b => ir'.code[c] = ir.code[c]
      /\ ir'.code[b] \in Seq(DOMAIN ir'.operands) /\ DOMAIN ir'.code[b] = DOMAIN ir.code[b]
      /\ \A j \in DOMAIN ir.code[b] : /\ ir.code[b][j] = p => ir'.code[b][j] = ld
                                      /\ ir.code[b][j] # p => ir'.code[b][j] = ir.code[b][j]
      /\ \A x \in DOMAIN ir'.operands : ir'.operands[x] \in Seq(DOMAIN ir'.use_list)
      /\ \A x \in Readers : DOMAIN ir'.operands[x] = DOMAIN ir.operands[x]
      /\ \A x \in Readers : \A j \in DOMAIN ir.operands[x] :
           ir.operands[x][j] # p => ir'.operands[x][j] = ir.operands[x][j]
      /\ \A v \in DOMAIN ir'.use_list : v \notin Loaded /\ v # p => Exact(ir', Readers \cup {ld}, v)
  <2>1. Replacing(p, b, ld)
    BY <1>1, ReplacePhiDoes
  <2> QED BY <2>1, Zenon DEF Replacing
<1>4. /\ UNCHANGED <<f, pc, k, left, phi, i>> /\ pc = "collect" /\ its # << >>
      /\ f \in Functions /\ LoopsOK /\ CodeOK /\ NamesOK /\ PairsOK
  BY DEF ReplacePhi, IInv
<1>5. ld[1] = "load"
  BY <1>1 DEF LoadOf
<1>6. Collected' = Collected /\ Loaded' = Loaded \cup {p}
  <2>1. Collected' = Collected
    BY <1>4 DEF Collected
  <2> QED BY <1>2, <2>1 DEF Loaded
<1>7. /\ ir.code[b] \in Seq(DOMAIN ir.operands)
      /\ \A x \in Range(ir'.code[b]) : x \in Range(ir.code[b]) \/ x = ld
      /\ \A x \in Range(ir.code[b]) : x \in Range(ir'.code[b]) \/ x = p
      /\ p \in Range(ir.code[b])
  <2>1. p \in Range(its)
    BY <1>2 DEF Loaded
  <2>2. p \in Range(ir.code[b])
    BY <1>1, <1>4, <2>1 DEF LoopsOK
  <2>3. /\ \A x \in Range(ir'.code[b]) : x \in Range(ir.code[b]) \/ x = ld
        /\ \A x \in Range(ir.code[b]) : x \in Range(ir'.code[b]) \/ x = p
    BY <1>3 DEF Range
  <2> QED BY <1>2, <1>4, <2>2, <2>3 DEF CodeOK
<1>8. Readers' = Readers \cup {ld}
  <2>1. \A c \in Block : (\E x \in Range(ir'.code[c]) : x[1] = "store")
                      <=> (\E x \in Range(ir.code[c]) : x[1] = "store")
    BY <1>2, <1>3, <1>5, <1>7
  <2>2. Opened' = Opened
    BY <1>4, <2>1 DEF Opened, entry
  <2>3. Taken' = Taken /\ ld \notin Taken
    BY <1>4, <1>5, <2>2, ReadersAre DEF Taken, LastOf
  <2>4. \A x : x \in InstrsOf(ir') => x \in InstrsOf(ir) \/ x = ld
    BY <1>2, <1>3, <1>7, InInstrs
  <2>5. \A x : x \in InstrsOf(ir) => x \in InstrsOf(ir') \/ x = p
    BY <1>2, <1>3, <1>7, InInstrs
  <2>6. ld \in InstrsOf(ir')
    <3>1. PICK j \in DOMAIN ir.code[b] : ir.code[b][j] = p
      BY <1>7 DEF Range
    <3>2. ld \in Range(ir'.code[b])
      BY <1>3, <3>1 DEF Range
    <3> QED BY <1>2, <3>2, InInstrs
  <2> QED BY <1>2, <1>4, <2>3, <2>4, <2>5, <2>6 DEF Readers
<1>9. LoopsOK'
  <2>1. /\ Range(its) \subseteq Range(f.code[b]) \cap Range(ir.code[b]) /\ k > 0
        /\ left \subseteq Collected /\ phi = << >> /\ k \in 0..Len(f.bbs)
    BY <1>1, <1>4 DEF LoopsOK
  <2>2. Range(its') \subseteq Range(f.code[b]) \cap Range(ir'.code[b])
    BY <1>2, <1>7, <2>1
  <2> QED BY <1>1, <1>2, <1>4, <1>6, <2>1, <2>2 DEF LoopsOK
<1>10. CodeOK'
  <2>1. \A c \in Block : ir'.code[c] \in Seq(DOMAIN ir'.operands)
    <3>1. \A c \in Block : ir.code[c] \in Seq(DOMAIN ir.operands)
      BY <1>4 DEF CodeOK
    <3>2. DOMAIN ir.operands \subseteq DOMAIN ir'.operands
      BY <1>3
    <3> QED BY <1>3, <1>7, <3>1, <3>2, SeqOfMore
  <2>2. ASSUME NEW m \in DOMAIN f.bbs, m > k
        PROVE  /\ IsInjective(ir'.code[f.bbs[m]])
               /\ \A x : IsPhi(x) => (x \in Range(ir'.code[f.bbs[m]]) <=> x \in Range(f.code[f.bbs[m]]))
    <3>1. f.bbs[m] # b /\ f.bbs[m] \in Block
      BY <1>1, <1>2, <1>4, <2>2, Lists
    <3> QED BY <1>3, <1>4, <2>2, <3>1 DEF CodeOK
  <2>3. ASSUME NEW c \in Range(f.bbs), c # entry
        PROVE  ir'.code[c] # << >> /\ Terminator(c)' = LastOf(c)
    <3>1. /\ ir.code[c] # << >> /\ Terminator(c) = LastOf(c)
          /\ ir.code[c] \in Seq(DOMAIN ir.operands) /\ c \in Block
      BY <1>4, <2>3, Lists DEF CodeOK
    <3>2. CASE c # b
      BY <1>3, <3>1, <3>2 DEF Terminator
    <3>3. CASE c = b
      <4>1. LastOf(c) # p
        BY <1>2, <1>4, <2>3, Kinds
      <4>2. /\ Len(ir.code[c]) \in DOMAIN ir.code[c] /\ Len(ir.code[c]) \in Nat
            /\ DOMAIN ir'.code[c] = DOMAIN ir.code[c] /\ DOMAIN ir.code[c] = 1..Len(ir.code[c])
            /\ ir'.code[c] \in Seq(DOMAIN ir'.operands)
        BY <1>3, <1>7, <3>1, <3>3
      <4>3. Len(ir'.code[c]) = Len(ir.code[c]) /\ ir'.code[c] # << >>
        BY <4>2
      <4>4. ir'.code[c][Len(ir.code[c])] = ir.code[c][Len(ir.code[c])]
        BY <1>3, <3>1, <3>3, <4>1, <4>2 DEF Terminator
      <4> QED BY <3>1, <4>3, <4>4 DEF Terminator
    <3> QED BY <3>2, <3>3
  <2>4. \A c \in Block \ Range(f.bbs) : ir'.code[c] = << >>
    BY <1>2, <1>3, <1>4 DEF CodeOK
  <2> QED BY <1>3, <1>4, <2>1, <2>2, <2>3, <2>4 DEF CodeOK, LastOf, entry
<1>11. NamesOK'
  <2>1. \A v \in DOMAIN ir'.use_list :
          \/ v \in ValuesOf(f)
          \/ \E q \in Collected' : v = AllocaOf(q)
          \/ \E q \in Loaded' : v = LoadOf(q)
    <3>1. \A q, j : ~Stored(q, j)
      BY <1>4 DEF Stored
    <3> QED BY <1>1, <1>3, <1>4, <1>6, <3>1 DEF NamesOK
  <2>2. /\ ValuesOf(f) \subseteq DOMAIN ir'.use_list
        /\ \A q \in Collected' : AllocaOf(q) \in DOMAIN ir'.use_list
        /\ InstrsOf(f) \subseteq DOMAIN ir'.operands /\ DOMAIN ir'.operands \subseteq DOMAIN ir'.use_list
    BY <1>3, <1>4, <1>6 DEF NamesOK
  <2> QED BY <1>3, <1>4, <2>1, <2>2 DEF NamesOK
<1>12. PairsOK'
  <2> SUFFICES ASSUME NEW q \in PhisOf(f)
               PROVE  /\ DOMAIN ir'.operands[q] = DOMAIN f.operands[q]
                      /\ \A j \in DOMAIN f.operands[q] :
                           f.operands[q][j] \in Block => ir'.operands[q][j] = f.operands[q][j]
    BY <1>4 DEF PairsOK
  <2>1. q \in Readers
    BY ReadersAre
  <2>2. p \notin Block
    BY <1>2, BlockAssumption
  <2> QED BY <1>3, <1>4, <2>1, <2>2 DEF PairsOK
<1>13. UsesOK'
  BY <1>3, <1>6, <1>8 DEF UsesOK
<1> QED BY <1>4, <1>9, <1>10, <1>11, <1>12, <1>13 DEF IInv

-----------------------------------------------------------------------------
LEMMA ReturnTerminatorKeepsIInv ==
  ASSUME IInv, ReturnTerminator
  PROVE  IInv'
<1> DEFINE t == LastOf(entry)
           s == ir.code[entry]
           T == DOMAIN ir.operands
<1>1. /\ UNCHANGED <<f, k, its, left, phi, i>> /\ pc = "collect" /\ pc' = "store" /\ its = << >> /\ k = Len(f.bbs)
      /\ ir' = AddInstruction(ir, entry, t)
      /\ f \in Functions /\ LoopsOK /\ CodeOK /\ NamesOK /\ PairsOK /\ UsesOK
  BY DEF ReturnTerminator, LastOf, IInv
<1>2. /\ entry \in Block /\ entry \in Range(f.bbs) /\ t[1] \in {"br", "ret"} /\ t \in T
      /\ entry' = entry
  <2>1. entry \in Block /\ entry \in Range(f.bbs) /\ f.code[entry] \in Seq(InstrsOf(f))
    BY <1>1, Lists
  <2>2. t[1] \in {"br", "ret"} /\ t \in Range(f.code[entry])
    BY <1>1, <2>1, Kinds
  <2>3. t \in InstrsOf(f)
    BY <2>1, <2>2 DEF Range
  <2> QED BY <1>1, <2>1, <2>2, <2>3 DEF NamesOK, entry
<1>3. /\ IsData(ir') /\ ir'.operands = ir.operands /\ ir'.use_list = ir.use_list
      /\ DOMAIN ir'.code = Block
      /\ \A c \in Block : c # entry => ir'.code[c] = ir.code[c]
      /\ ir'.code[entry] = Append(s, t)
  <2>1. IsData(ir) /\ DOMAIN ir.code = Block
    BY <1>1 DEF CodeOK
  <2> HIDE DEF t
  <2> QED BY <1>1, <1>2, <2>1, Added
<1>4. s \in Seq(T) /\ Append(s, t) \in Seq(T) /\ Range(Append(s, t)) = Range(s) \cup {t}
  <2>1. s \in Seq(T) /\ t \in T
    BY <1>1, <1>2 DEF CodeOK
  <2> HIDE DEF s, T, t
  <2> QED BY <2>1, RangeOfAppend
<1>5. Collected' = Collected /\ Loaded' = Loaded
  BY <1>1 DEF Collected, Loaded
<1>6. Readers' = Readers
  <2>1. \A b \in Block : (\E x \in Range(ir'.code[b]) : x[1] = "store")
                      <=> (\E x \in Range(ir.code[b]) : x[1] = "store")
    BY <1>2, <1>3, <1>4
  <2>2. Opened' = Opened /\ entry \in Opened
    BY <1>1, <1>2, <2>1 DEF Opened
  <2>3. Taken' = Taken /\ t \in Taken
    BY <1>1, <2>2 DEF Taken, LastOf
  <2>4. \A x : x \in InstrsOf(ir') <=> x \in InstrsOf(ir) \/ x = t
    <3>1. /\ Range(ir'.code[entry]) = Range(ir.code[entry]) \cup {t} /\ entry \in Block
          /\ \A c \in Block : c # entry => ir'.code[c] = ir.code[c]
      BY <1>2, <1>3, <1>4
    <3> HIDE DEF t
    <3> QED BY <3>1, InInstrs
  <2> QED BY <1>1, <2>3, <2>4 DEF Readers
<1>7. LoopsOK'
  BY <1>1, <1>5 DEF LoopsOK
<1>8. CodeOK'
  <2>1. \A c \in Block : ir'.code[c] \in Seq(DOMAIN ir'.operands)
    BY <1>1, <1>3, <1>4 DEF CodeOK
  <2>2. \A m \in DOMAIN f.bbs : ~(m > k)
    BY <1>1, Lists
  <2>3. ir'.code[entry] # << >> /\ Terminator(entry)' = t
    <3>1. /\ Append(s, t) # << >> /\ Append(s, t)[Len(Append(s, t))] = t
      <4> HIDE DEF s, t, T
      <4> QED BY <1>4
    <3> QED BY <1>2, <1>3, <3>1 DEF Terminator
  <2>4. \A c \in Range(f.bbs) : c # entry => ir'.code[c] # << >> /\ Terminator(c)' = LastOf(c)
    BY <1>1, <1>3, Lists DEF CodeOK, Terminator
  <2>5. \A c \in Block \ Range(f.bbs) : ir'.code[c] = << >>
    BY <1>1, <1>2, <1>3 DEF CodeOK
  <2> QED BY <1>1, <1>2, <1>3, <2>1, <2>2, <2>3, <2>4, <2>5 DEF CodeOK, LastOf
<1>9. NamesOK'
  <2>1. \A p, j : ~Stored(p, j)
    BY <1>1 DEF Stored
  <2> QED BY <1>1, <1>3, <1>5, <2>1 DEF NamesOK
<1>10. PairsOK'
  <2>1. UNCHANGED f /\ ir'.operands = ir.operands
    BY <1>1, <1>3
  <2> QED BY <1>1, <2>1, SMT DEF PairsOK
<1>11. UsesOK'
  BY <1>1, <1>3, <1>5, <1>6 DEF UsesOK, Exact
<1> QED BY <1>1, <1>7, <1>8, <1>9, <1>10, <1>11 DEF IInv

-----------------------------------------------------------------------------
\* The next operand comes from a block of the function, which has its terminator, and
\* has no store yet.
LEMMA NextStored ==
  ASSUME IInv, StoreOperand, NEW b, b = ir.operands[phi][i + 1]
  PROVE  /\ phi \in Collected /\ phi \in PhisOf(f) /\ i \in Nat /\ i % 2 = 1 /\ i + 2 \in Nat /\ (i + 2) % 2 = 1
         /\ b \in Block /\ b \in Range(f.bbs)
         /\ ir.operands[phi][i] \in DOMAIN ir.use_list
         /\ Terminator(b) = LastOf(b) /\ LastOf(b)[1] \in {"br", "ret"} /\ LastOf(b) \in DOMAIN ir.operands
         /\ StoreOf(phi, i) \notin DOMAIN ir.use_list
<1>1. /\ f \in Functions /\ pc = "store" /\ phi # << >> /\ i < Len(ir.operands[phi])
      /\ LoopsOK /\ CodeOK /\ NamesOK /\ PairsOK
  BY DEF IInv, StoreOperand
<1>2. phi \in Collected /\ phi \in PhisOf(f) /\ i \in Nat /\ i % 2 = 1 /\ i + 2 \in Nat /\ (i + 2) % 2 = 1
  BY <1>1, ReadersAre DEF LoopsOK
<1>3. /\ i \in DOMAIN ir.operands[phi] /\ i + 1 \in DOMAIN ir.operands[phi]
      /\ ir.operands[phi][i] \in DOMAIN ir.use_list
  <2>1. ir.operands[phi] \in Seq(DOMAIN ir.use_list)
    BY <1>1, <1>2, ReadersAre DEF NamesOK
  <2>2. i \in 1..Len(ir.operands[phi]) /\ i + 1 \in 1..Len(ir.operands[phi])
    BY <1>1, <1>2, <2>1
  <2> QED BY <2>1, <2>2
<1>4. b \in Block /\ b \in Range(f.bbs)
  <2>1. (i + 1) % 2 = 0 /\ i + 1 \in DOMAIN f.operands[phi]
    BY <1>1, <1>2, <1>3 DEF PairsOK
  <2>2. f.operands[phi][i + 1] \in Range(f.bbs)
    BY <1>1, <1>2, <2>1, Phis
  <2>3. f.operands[phi][i + 1] \in Block
    BY <1>1, <2>2, Lists
  <2> QED BY <1>1, <1>2, <2>1, <2>2, <2>3 DEF PairsOK
<1>5. Terminator(b) = LastOf(b) /\ LastOf(b)[1] \in {"br", "ret"} /\ LastOf(b) \in DOMAIN ir.operands
  <2>1. Terminator(b) = LastOf(b)
    BY <1>1, <1>4 DEF CodeOK
  <2>2. LastOf(b)[1] \in {"br", "ret"} /\ LastOf(b) \in Range(f.code[b])
    BY <1>1, <1>4, Kinds
  <2>3. LastOf(b) \in InstrsOf(f)
    BY <1>4, <2>2, InInstrs
  <2> QED BY <1>1, <2>1, <2>2, <2>3 DEF NamesOK
<1>6. StoreOf(phi, i) \notin DOMAIN ir.use_list
  <2> SUFFICES ASSUME StoreOf(phi, i) \in DOMAIN ir.use_list PROVE FALSE
    OBVIOUS
  <2>1. StoreOf(phi, i)[1] = "store" /\ StoreOf(phi, i)[2] = phi /\ StoreOf(phi, i)[3] = i
    BY DEF StoreOf
  <2>2. StoreOf(phi, i) \notin ValuesOf(f)
    BY <1>1, <2>1, Kinds
  <2>3. \A q : StoreOf(phi, i) # AllocaOf(q) /\ StoreOf(phi, i) # LoadOf(q)
    BY <2>1 DEF AllocaOf, LoadOf
  <2>4. PICK q \in Collected, j \in Nat : StoreOf(phi, i) = StoreOf(q, j) /\ Stored(q, j)
    BY <1>1, <2>2, <2>3 DEF NamesOK
  <2>5. q = phi /\ j = i
    BY <2>1, <2>4 DEF StoreOf
  <2> QED BY <1>1, <1>2, <2>4, <2>5 DEF Stored
<1> QED BY <1>2, <1>3, <1>4, <1>5, <1>6

\* What becomes of the data when st is put before the terminator t of b.
Storing(b, t, st) ==
  /\ IsData(ir') /\ DOMAIN ir'.code = Block
  /\ DOMAIN ir'.operands = DOMAIN ir.operands \cup {st}
  /\ DOMAIN ir'.use_list = DOMAIN ir.use_list \cup {st}
  /\ \A c \in Block : c # b => ir'.code[c] = ir.code[c]
  /\ ir'.code[b] \in Seq(DOMAIN ir'.operands) /\ Range(ir'.code[b]) = Range(ir.code[b]) \cup {st, t}
  /\ ir'.code[b] # << >> /\ ir'.code[b][Len(ir'.code[b])] = t
  /\ \A x \in DOMAIN ir.operands : ir'.operands[x] = ir.operands[x]
  /\ ir'.operands[st] \in Seq(DOMAIN ir'.use_list)
  /\ \A v \in DOMAIN ir'.use_list : v \notin Loaded => Exact(ir', (Readers \ {t}) \cup {st}, v)
  /\ ir'.operands[st] = <<ir.operands[phi][i], AllocaOf(phi)>>
  /\ ir'.code[b] = Append(Append(Without(ir.code[b], {t}), st), t)

LEMMA StoreOperandDoes ==
  ASSUME IInv, StoreOperand, NEW b, b = ir.operands[phi][i + 1], NEW t, t = Terminator(b),
         NEW st, st = StoreOf(phi, i)
  PROVE  Storing(b, t, st)
<1> DEFINE ops == <<ir.operands[phi][i], AllocaOf(phi)>>
           cut == DeleteInstrs(ir, b, {t})
           c == Create(cut, st, ops)
           P == Readers \ {t}
<1>1. ir' = AddInstruction(AddInstruction(c, b, st), b, t)
  BY Zenon DEF StoreOperand, DeleteInstr
<1>2. /\ phi \in Collected /\ b \in Block /\ ir.operands[phi][i] \in DOMAIN ir.use_list
      /\ t \in DOMAIN ir.operands /\ st \notin DOMAIN ir.use_list
  BY NextStored
<1>3. /\ IsData(ir) /\ DOMAIN ir.code = Block
      /\ DOMAIN ir.operands \subseteq DOMAIN ir.use_list
      /\ \A x \in DOMAIN ir.operands : ir.operands[x] \in Seq(DOMAIN ir.use_list)
      /\ AllocaOf(phi) \in DOMAIN ir.use_list
      /\ ir.code[b] \in Seq(DOMAIN ir.operands)
  BY <1>2 DEF IInv, CodeOK, NamesOK
<1>4. /\ IsData(cut) /\ cut.operands = ir.operands
      /\ DOMAIN cut.code = Block /\ DOMAIN cut.use_list = DOMAIN ir.use_list
      /\ \A d \in Block : d # b => cut.code[d] = ir.code[d]
      /\ cut.code[b] = Without(ir.code[b], {t})
  <2>1. cut = DeleteInstrs(ir, b, {t}) /\ b \in DOMAIN ir.code
    BY <1>2, <1>3
  <2> HIDE DEF cut
  <2>2. /\ IsData(cut) /\ cut.operands = ir.operands
        /\ DOMAIN cut.code = DOMAIN ir.code /\ DOMAIN cut.use_list = DOMAIN ir.use_list
        /\ \A d \in DOMAIN ir.code : /\ d # b => cut.code[d] = ir.code[d]
                                     /\ d = b => cut.code[d] = Without(ir.code[d], {t})
    BY <1>3, <2>1, Deletion
  <2> QED BY <1>2, <1>3, <2>2
<1>5. cut.code[b] \in Seq(DOMAIN ir.operands) /\ Range(cut.code[b]) = Range(ir.code[b]) \ {t}
  <2> DEFINE s == ir.code[b]
             T == DOMAIN ir.operands
  <2>1. s \in Seq(T) /\ cut.code[b] = Without(s, {t})
    BY <1>3, <1>4
  <2> HIDE DEF s, T, cut
  <2>2. Without(s, {t}) \in Seq(T) /\ Range(Without(s, {t})) = Range(s) \ {t}
    BY <2>1, WithoutKeeps
  <2> QED BY <2>1, <2>2 DEF s, T
<1>6. \A v \in DOMAIN ir.use_list : v \notin Loaded => Exact(cut, P, v)
  BY <1>3, DeletedExact DEF IInv, UsesOK
<1> HIDE DEF cut
<1>7. /\ IsData(c) /\ c.code = cut.code
      /\ DOMAIN c.operands = DOMAIN ir.operands \cup {st} /\ DOMAIN c.use_list = DOMAIN ir.use_list \cup {st}
      /\ c.operands[st] = ops /\ \A y \in DOMAIN ir.operands \ {st} : c.operands[y] = ir.operands[y]
  <2> HIDE DEF ops
  <2> QED BY <1>4, Created
<1>8. P \subseteq DOMAIN cut.operands /\ st \notin P
  BY <1>2, <1>3, <1>4, ReadersAre
<1>9. \A v \in DOMAIN c.use_list : v \notin Loaded => Exact(c, P \cup {st}, v)
  <2> SUFFICES ASSUME NEW v \in DOMAIN c.use_list, v \notin Loaded PROVE Exact(c, P \cup {st}, v)
    OBVIOUS
  <2>1. CASE v \in DOMAIN ir.use_list
    <3>1. Exact(cut, P, v) /\ v \in DOMAIN cut.use_list \ {st}
      BY <1>2, <1>4, <1>6, <2>1
    <3> HIDE DEF ops, P
    <3> QED BY <1>4, <1>8, <3>1, CreatedExact
  <2>2. CASE v = st
    <3>1. \A y \in P : \A j \in DOMAIN cut.operands[y] : cut.operands[y][j] # st
      BY <1>2, <1>3, <1>4, <1>8
    <3> HIDE DEF ops, P
    <3> QED BY <1>4, <1>8, <2>2, <3>1, CreatedExact
  <2> QED BY <1>7, <2>1, <2>2
<1>10. c.operands[st] \in Seq(DOMAIN c.use_list)
  <2>1. ir.operands[phi][i] \in DOMAIN c.use_list /\ AllocaOf(phi) \in DOMAIN c.use_list
    BY <1>2, <1>3, <1>7
  <2>2. ops \in Seq(DOMAIN c.use_list)
    BY <2>1, SeqOfTwo, Zenon
  <2> QED BY <1>7, <2>2
<1> HIDE DEF c, P, ops
<1> DEFINE s == cut.code[b]
           T == DOMAIN ir.operands \cup {st}
<1>11. /\ IsData(ir') /\ ir'.operands = c.operands /\ ir'.use_list = c.use_list /\ DOMAIN ir'.code = Block
       /\ \A d \in Block : d # b => ir'.code[d] = cut.code[d]
       /\ ir'.code[b] = Append(Append(s, st), t)
  <2> HIDE DEF s, T
  <2>1. IsData(c) /\ b \in DOMAIN c.code
    BY <1>2, <1>4, <1>7
  <2>2. PICK m : m = AddInstruction(c, b, st)
    OBVIOUS
  <2>3. /\ IsData(m) /\ m.operands = c.operands /\ m.use_list = c.use_list
        /\ DOMAIN m.code = DOMAIN c.code
        /\ \A d \in DOMAIN c.code : d # b => m.code[d] = c.code[d]
        /\ m.code[b] = Append(c.code[b], st)
    BY ONLY <2>1, <2>2, Added
  <2>4. PICK h : h = ir'
    OBVIOUS
  <2>5. h = AddInstruction(m, b, t) /\ IsData(m) /\ b \in DOMAIN m.code
    BY ONLY <1>1, <2>1, <2>2, <2>3, <2>4
  <2>6. /\ IsData(h) /\ h.operands = m.operands /\ h.use_list = m.use_list
        /\ DOMAIN h.code = DOMAIN m.code
        /\ \A d \in DOMAIN m.code : d # b => h.code[d] = m.code[d]
        /\ h.code[b] = Append(m.code[b], t)
    BY ONLY <2>5, Added
  <2> QED BY <1>4, <1>7, <2>3, <2>4, <2>6 DEF s
<1>12. /\ Append(Append(s, st), t) \in Seq(T) /\ Range(Append(Append(s, st), t)) = Range(s) \cup {st, t}
       /\ Append(Append(s, st), t) # << >>
       /\ Append(Append(s, st), t)[Len(Append(Append(s, st), t))] = t
  <2>1. s \in Seq(T) /\ st \in T /\ t \in T
    <3>1. s \in Seq(DOMAIN ir.operands) /\ DOMAIN ir.operands \subseteq T
      BY <1>5
    <3> QED BY <1>2, <3>1, SeqOfMore
  <2> HIDE DEF s, T
  <2>2. Append(s, st) \in Seq(T) /\ Range(Append(s, st)) = Range(s) \cup {st}
    BY <2>1, RangeOfAppend
  <2> DEFINE r == Append(s, st)
  <2>3. r \in Seq(T)
    BY <2>2
  <2> HIDE DEF r
  <2>4. Append(r, t) \in Seq(T) /\ Range(Append(r, t)) = Range(r) \cup {t}
    BY <2>1, <2>3, RangeOfAppend
  <2>5. Append(r, t) # << >> /\ Append(r, t)[Len(Append(r, t))] = t
    BY <2>1, <2>3
  <2> QED BY <2>2, <2>4, <2>5 DEF r
<1>13. /\ DOMAIN ir'.operands = T /\ DOMAIN ir'.use_list = DOMAIN ir.use_list \cup {st}
       /\ \A x \in DOMAIN ir.operands : ir'.operands[x] = ir.operands[x]
       /\ ir'.operands[st] \in Seq(DOMAIN ir'.use_list)
       /\ \A d \in Block : d # b => ir'.code[d] = ir.code[d]
  BY <1>2, <1>3, <1>4, <1>7, <1>10, <1>11
<1>14. Range(ir'.code[b]) = Range(ir.code[b]) \cup {st, t}
  BY <1>5, <1>11, <1>12
<1>15. \A v \in DOMAIN ir'.use_list : v \notin Loaded => Exact(ir', P \cup {st}, v)
  <2>1. \A v : Exact(c, P \cup {st}, v) <=> Exact(ir', P \cup {st}, v)
    BY ONLY <1>11, Zenon DEF Exact
  <2>2. DOMAIN ir'.use_list = DOMAIN c.use_list
    BY ONLY <1>11
  <2> QED BY ONLY <1>9, <2>1, <2>2
<1>16. /\ ir'.code[b] \in Seq(DOMAIN ir'.operands)
       /\ ir'.code[b] # << >> /\ ir'.code[b][Len(ir'.code[b])] = t
  BY <1>11, <1>12, <1>13, Zenon
<1>17. /\ ir'.operands[st] = <<ir.operands[phi][i], AllocaOf(phi)>>
       /\ ir'.code[b] = Append(Append(Without(ir.code[b], {t}), st), t)
  BY <1>4, <1>7, <1>11, Zenon DEF s, ops
<1> QED BY <1>11, <1>13, <1>14, <1>15, <1>16, <1>17, Zenon DEF Storing, P

LEMMA StoreOperandKeepsIInv ==
  ASSUME IInv, StoreOperand
  PROVE  IInv'
<1>1. PICK b, t, st : b = ir.operands[phi][i + 1] /\ t = Terminator(b) /\ st = StoreOf(phi, i)
  BY Zenon
<1>2. /\ phi \in Collected /\ phi \in PhisOf(f) /\ i \in Nat /\ i + 2 \in Nat /\ (i + 2) % 2 = 1
      /\ b \in Block /\ b \in Range(f.bbs) /\ t = LastOf(b) /\ t[1] \in {"br", "ret"}
      /\ t \in DOMAIN ir.operands /\ st \notin DOMAIN ir.use_list
  BY <1>1, NextStored
<1>3. /\ IsData(ir') /\ DOMAIN ir'.code = Block
      /\ DOMAIN ir'.operands = DOMAIN ir.operands \cup {st}
      /\ DOMAIN ir'.use_list = DOMAIN ir.use_list \cup {st}
      /\ \A c \in Block : c # b => ir'.code[c] = ir.code[c]
      /\ ir'.code[b] \in Seq(DOMAIN ir'.operands) /\ Range(ir'.code[b]) = Range(ir.code[b]) \cup {st, t}
      /\ ir'.code[b] # << >> /\ ir'.code[b][Len(ir'.code[b])] = t
      /\ \A x \in DOMAIN ir.operands : ir'.operands[x] = ir.operands[x]
      /\ ir'.operands[st] \in Seq(DOMAIN ir'.use_list)
      /\ \A v \in DOMAIN ir'.use_list : v \notin Loaded => Exact(ir', (Readers \ {t}) \cup {st}, v)
  <2>1. Storing(b, t, st)
    BY <1>1, StoreOperandDoes
  <2> QED BY <2>1, Zenon DEF Storing
<1>4. /\ UNCHANGED <<f, pc, k, its, left, phi>> /\ pc = "store" /\ phi # << >> /\ i' = i + 2
      /\ f \in Functions /\ LoopsOK /\ CodeOK /\ NamesOK /\ PairsOK
  BY DEF StoreOperand, IInv
<1>5. st[1] = "store"
  BY <1>1 DEF StoreOf
<1>6. Collected' = Collected /\ Loaded' = Loaded
  BY <1>4 DEF Collected, Loaded
<1>7. Readers' = (Readers \ {t}) \cup {st}
  <2>1. \A c \in Block : (\E x \in Range(ir'.code[c]) : x[1] = "store")
                      <=> c = b \/ (\E x \in Range(ir.code[c]) : x[1] = "store")
    BY <1>2, <1>3, <1>5
  <2>2. Opened' = Opened \cup {b}
    BY <1>2, <1>4, <2>1 DEF Opened, entry
  <2>3. Taken' = Taken \cup {t} /\ st \notin Taken /\ st # t
    BY <1>2, <1>4, <1>5, <2>2, ReadersAre DEF Taken, LastOf
  <2>4. \A x : x \in InstrsOf(ir') <=> x \in InstrsOf(ir) \/ x \in {st, t}
    BY <1>2, <1>3, InInstrs
  <2> QED BY <1>4, <2>3, <2>4 DEF Readers
<1>8. LoopsOK'
  BY <1>2, <1>4, <1>6 DEF LoopsOK
<1>9. CodeOK'
  <2>1. \A c \in Block : ir'.code[c] \in Seq(DOMAIN ir'.operands)
    <3>1. \A c \in Block : ir.code[c] \in Seq(DOMAIN ir.operands)
      BY <1>4 DEF CodeOK
    <3>2. DOMAIN ir.operands \subseteq DOMAIN ir'.operands
      BY <1>3
    <3> QED BY <1>3, <3>1, <3>2, SeqOfMore
  <2>2. \A m \in DOMAIN f.bbs : ~(m > k)
    BY <1>4, Lists DEF LoopsOK
  <2>3. \A c \in Range(f.bbs) : ir'.code[c] # << >> /\ Terminator(c)' = LastOf(c)
    BY <1>2, <1>3, <1>4, Lists DEF CodeOK, Terminator
  <2>4. \A c \in Block \ Range(f.bbs) : ir'.code[c] = << >>
    BY <1>2, <1>3, <1>4 DEF CodeOK
  <2> QED BY <1>3, <1>4, <2>1, <2>2, <2>3, <2>4 DEF CodeOK, LastOf, entry
<1>10. NamesOK'
  <2>1. ASSUME NEW p, NEW j \in Nat, Stored(p, j) PROVE Stored(p, j)'
    BY <1>2, <1>4, <2>1 DEF Stored
  <2>2. PICK q, n : q = phi /\ n = i
    OBVIOUS
  <2>3. st = StoreOf(q, n) /\ q \in Collected /\ n \in Nat /\ Stored(q, n)'
    BY <1>1, <1>2, <1>4, <2>2 DEF Stored, LoopsOK
  <2>4. \A v \in DOMAIN ir'.use_list :
          \/ v \in ValuesOf(f)
          \/ \E p \in Collected : v = AllocaOf(p)
          \/ \E p \in Loaded : v = LoadOf(p)
          \/ \E p \in Collected : \E j \in Nat : v = StoreOf(p, j) /\ Stored(p, j)'
    <3>1. \A v \in DOMAIN ir.use_list :
            \/ v \in ValuesOf(f)
            \/ \E p \in Collected : v = AllocaOf(p)
            \/ \E p \in Loaded : v = LoadOf(p)
            \/ \E p \in Collected : \E j \in Nat : v = StoreOf(p, j) /\ Stored(p, j)'
      BY <1>4, <2>1 DEF NamesOK
    <3> QED BY <1>3, <2>3, <3>1
  <2>5. \A x \in DOMAIN ir'.operands : ir'.operands[x] \in Seq(DOMAIN ir'.use_list)
    <3>1. \A x \in DOMAIN ir.operands : ir.operands[x] \in Seq(DOMAIN ir.use_list)
      BY <1>4 DEF NamesOK
    <3>2. DOMAIN ir.use_list \subseteq DOMAIN ir'.use_list
      BY <1>3
    <3> QED BY <1>3, <3>1, <3>2, SeqOfMore
  <2>6. /\ ValuesOf(f) \subseteq DOMAIN ir'.use_list
        /\ \A p \in Collected' : AllocaOf(p) \in DOMAIN ir'.use_list
        /\ InstrsOf(f) \subseteq DOMAIN ir'.operands /\ DOMAIN ir'.operands \subseteq DOMAIN ir'.use_list
    BY <1>3, <1>4, <1>6 DEF NamesOK
  <2> QED BY <1>4, <1>6, <2>4, <2>5, <2>6 DEF NamesOK
<1>11. PairsOK'
  <2>1. \A p \in PhisOf(f) : ir'.operands[p] = ir.operands[p]
    BY <1>3, ReadersAre
  <2> QED BY <1>4, <2>1 DEF PairsOK
<1>12. UsesOK'
  BY <1>3, <1>6, <1>7 DEF UsesOK
<1> QED BY <1>4, <1>8, <1>9, <1>10, <1>11, <1>12 DEF IInv

-----------------------------------------------------------------------------
LEMMA InvarianceStep == IInv /\ [Next]_vars => IInv'
<1> SUFFICES ASSUME IInv, [Next]_vars PROVE IInv'
  OBVIOUS
<1>1. CASE UNCHANGED pass
  BY <1>1 DEF pass, IInv, LoopsOK, CodeOK, NamesOK, PairsOK, UsesOK, Collected, Loaded, Stored,
              Readers, Taken, Opened, LastOf, Terminator, entry
<1>2. CASE TakeTerminator
  BY <1>2, TakeTerminatorKeepsIInv
<1>3. CASE CollectPhis
  BY <1>3, CollectPhisKeepsIInv
<1>4. CASE ReplacePhi
  BY <1>4, ReplacePhiKeepsIInv
<1>5. CASE ReturnTerminator
  BY <1>5, ReturnTerminatorKeepsIInv
<1>6. CASE NextPhi \/ LastOperand \/ FinishPass
  BY <1>6, StoreLoopKeepsIInv
<1>7. CASE StoreOperand
  BY <1>7, StoreOperandKeepsIInv
<1> QED BY <1>1, <1>2, <1>3, <1>4, <1>5, <1>6, <1>7 DEF Next, Compile, Execute, NextPass, vars

(***************************************************************************)
(* The inductive invariant: the loops of run deal with one phi and one     *)
(* operand at a time, every instruction they create is new, the blocks a   *)
(* phi names stay, and every use list is exact but for the phis replaced   *)
(* and the terminators put back.                                           *)
(***************************************************************************)
THEOREM Invariance == Spec => []IInv
<1>1. Init => IInv
  BY InitPassOK DEF Init
<1> QED BY <1>1, InvarianceStep, PTL DEF Spec

(***************************************************************************)
(* After the pass, the use list of every value that remains names exactly  *)
(* its readers, apart from the terminators that delete_instr took out and  *)
(* add_instruction put back without their operands being told.             *)
(***************************************************************************)
THEOREM UsersNamed == Spec => []UseListsExact
<1>1. IInv => UseListsExact
  <2> SUFFICES ASSUME IInv, pc = "done", NEW v \in DOMAIN ir.use_list \ PhisOf(f)
               PROVE  {use \in ir.use_list[v] : use[1] \notin Moved}
                        = UNION {UsesIn(x, ir.operands[x], v) : x \in (Instrs \cup PhisOf(f)) \ Moved}
    BY Zenon DEF UseListsExact
  <2>1. f \in Functions /\ CodeOK /\ UsesOK
    BY DEF IInv
  <2>2. Instrs = InstrsOf(ir)
    BY Zenon DEF Instrs, InstrsOf
  <2>3. Reopened = Opened
    <3>1. entry \in Block
      BY <2>1, Lists
    <3> QED BY <2>2, <3>1, InInstrs DEF Reopened, Opened
  <2>4. Moved = Taken
    <3>1. \A b \in Opened : b \in Range(f.bbs)
      BY <2>1, Lists DEF Opened, CodeOK, Range
    <3>2. \A b \in Opened : Terminator(b) = LastOf(b)
      BY <2>1, <3>1 DEF CodeOK
    <3> QED BY <2>3, <3>2 DEF Moved, Taken
  <2>5. Exact(ir, Readers, v)
    BY <2>1, ReadersAre DEF UsesOK, Loaded
  <2>6. Readers = (Instrs \cup PhisOf(f)) \ Moved
    BY <2>2, <2>4 DEF Readers
  <2>7. \A u \in ir.use_list[v] : u[1] \notin Moved
    <3>1. \A u \in ir.use_list[v] : \E x \in Readers : \E j \in DOMAIN ir.operands[x] :
            u = <<x, j>> /\ ir.operands[x][j] = v
      BY <2>5, ExactMeans
    <3> QED BY <2>6, <3>1
  <2>8. {use \in ir.use_list[v] : use[1] \notin Moved} = ir.use_list[v]
    BY <2>7
  <2> QED BY <2>5, <2>6, <2>8, Zenon DEF Exact
<1> QED BY <1>1, Invariance, PTL

-----------------------------------------------------------------------------
\* A list that ends with x, which is nowhere else in it.
LEMMA WithoutLast ==
  ASSUME NEW T, NEW s \in Seq(T), s # << >>, NEW x, x = s[Len(s)],
         \A h \in 1..(Len(s) - 1) : s[h] # x
  PROVE  /\ Without(s, {x}) \in Seq(T) /\ Len(Without(s, {x})) = Len(s) - 1
         /\ \A h \in 1..(Len(s) - 1) : Without(s, {x})[h] = s[h]
<1> DEFINE m == Len(s) - 1
           stay == {j \in DOMAIN s : s[j] \notin {x}}
           rank(j) == Cardinality({h \in stay : h <= j})
           place(n) == CHOOSE j \in stay : rank(j) = n
<1>1. m \in Nat /\ DOMAIN s = 1..(m + 1) /\ Len(s) = m + 1
  OBVIOUS
<1>2. stay = 1..m
  BY <1>1
<1>3. Without(s, {x}) = [n \in 1..Cardinality(stay) |-> s[place(n)]]
  BY Zenon DEF Without
<1>4. Cardinality(1..m) = m /\ \A j \in 1..m : Cardinality(1..j) = j
  <2>1. ASSUME NEW j \in Nat PROVE Cardinality(1..j) = j
    <3>1. 1 \in Int /\ j \in Int
      OBVIOUS
    <3>2. Cardinality(1..j) = IF 1 > j THEN 0 ELSE j - 1 + 1
      BY <3>1, FS_Interval
    <3> QED BY ONLY <3>2, j \in Nat
  <2> HIDE DEF m
  <2> QED BY <1>1, <2>1
<1>5. \A j \in stay : rank(j) = j
  <2> SUFFICES ASSUME NEW j \in 1..m PROVE rank(j) = j
    BY <1>2
  <2>1. {h \in stay : h <= j} = 1..j
    BY <1>1, <1>2
  <2> QED BY <1>4, <2>1
<1>6. \A n \in 1..m : place(n) = n
  <2> TAKE n \in 1..m
  <2>1. n \in stay /\ \A j \in stay : rank(j) = n <=> j = n
    BY <1>2, <1>5
  <2> HIDE DEF stay, rank
  <2> QED BY <2>1
<1>7. Without(s, {x}) = [n \in 1..m |-> s[n]]
  <2> HIDE DEF stay, place, m
  <2> QED BY <1>2, <1>3, <1>4, <1>6
<1>8. \A n \in 1..m : s[n] \in T
  BY <1>1
<1> HIDE DEF m
<1>9. [n \in 1..m |-> s[n]] \in Seq(T) /\ Len([n \in 1..m |-> s[n]]) = m
  BY <1>1, <1>8
<1>10. Without(s, {x}) \in Seq(T) /\ Len(Without(s, {x})) = m
  BY ONLY <1>7, <1>9
<1>11. \A h \in 1..m : Without(s, {x})[h] = s[h]
  BY ONLY <1>7
<1>12. m = Len(s) - 1
  BY DEF m
<1> QED BY ONLY <1>10, <1>11, <1>12

-----------------------------------------------------------------------------
\* Where the pass has come to: the name a value has now; whether operand j of p is for b.
Now(v) == IF v \in Loaded THEN LoadOf(v) ELSE v
IsOut(b) == b = entry /\ pc = "collect"
Feeds(p, j, b) == j % 2 = 1 /\ j + 1 \in DOMAIN f.operands[p] /\ f.operands[p][j + 1] = b

\* Instructions keep their places, but for the terminator of a block, which stays the last.
BlockOK(b) ==
  /\ Len(ir.code[b]) >= IF IsOut(b) THEN Len(f.code[b]) - 1 ELSE Len(f.code[b])
  /\ \A h \in 1..(Len(f.code[b]) - 1) : ir.code[b][h] = Now(f.code[b][h])
  /\ \A h \in DOMAIN ir.code[b] : h >= Len(f.code[b]) =>
       \/ h = Len(ir.code[b]) /\ ~IsOut(b)
       \/ \E p \in PhisOf(f) : ir.code[b][h] = AllocaOf(p)
       \/ \E p \in PhisOf(f), j \in Nat : ir.code[b][h] = StoreOf(p, j) /\ Feeds(p, j, b)

PlacesOK == \A b \in Range(f.bbs) : BlockOK(b)

OperandsOK == \A x \in InstrsOf(f) :
  /\ DOMAIN ir.operands[x] = DOMAIN f.operands[x]
  /\ \A j \in DOMAIN f.operands[x] : ir.operands[x][j] = Now(f.operands[x][j])

CreatedOK == \A p \in PhisOf(f) :
  /\ p \in Loaded => LoadOf(p) \in DOMAIN ir.operands /\ ir.operands[LoadOf(p)] = <<AllocaOf(p)>>
  /\ \A j \in Nat : StoreOf(p, j) \in DOMAIN ir.operands =>
       ir.operands[StoreOf(p, j)] = <<ir.operands[p][j], AllocaOf(p)>>

StoresOK == \A p \in PhisOf(f), j \in Nat, b \in Range(f.bbs) :
  Feeds(p, j, b) /\ Stored(p, j) => StoreOf(p, j) \in Range(ir.code[b])

ShapeOK ==
  /\ PlacesOK
  /\ OperandsOK
  /\ CreatedOK
  /\ StoresOK
  /\ pc \in {"entry", "collect"} => left = Collected
  /\ pc = "done" => left = {}

\* What IsFunction says besides.
LEMMA Reads ==
  ASSUME f \in Functions
  PROVE  /\ \A v \in ValuesOf(f) : v # << >>
         /\ \A v \in ValuesOf(f) : v[1] \in IF v \in InstrsOf(f) THEN {"phi", "op", "br", "ret"}
                                            ELSE {"arg", "const", "bb"}
         /\ \A x \in InstrsOf(f) :
              /\ f.operands[x] \in Seq(ValuesOf(f))
              /\ x[1] = "br" => Len(f.operands[x]) \in {1, 3}
              /\ \A j \in DOMAIN f.operands[x] :
                   IF NamesBlock(x, f.operands[x], j) THEN f.operands[x][j] \in Range(f.bbs)
                   ELSE f.operands[x][j][1] \in {"arg", "const", "op", "phi"}
         /\ \A x \in Range(f.code[entry]) : \A v \in Range(f.operands[x]) : ~IsPhi(v)
         /\ \A b \in Range(f.bbs) : \A h \in DOMAIN f.code[b] :
              /\ IsTerminator(f.code[b][h]) <=> h = Len(f.code[b])
              /\ IsPhi(f.code[b][h]) /\ h > 1 => IsPhi(f.code[b][h - 1])
<1>1. IsFunction(f)
  BY FunctionsAssumption
<1>2. \A b \in Range(f.bbs) : \A h \in DOMAIN f.code[b] :
        /\ IsTerminator(f.code[b][h]) <=> h = Len(f.code[b])
        /\ IsPhi(f.code[b][h]) => (h > 1 => IsPhi(f.code[b][h - 1]))
  BY <1>1, Zenon DEF IsFunction
<1>3. f.operands \in [InstrsOf(f) -> Seq(ValuesOf(f))]
  BY <1>1, Zenon DEF IsFunction
<1> QED BY <1>1, <1>2, <1>3, Zenon DEF IsFunction, entry

\* The places of a block, and that its terminator is nowhere but at its end.
LEMMA Block_ ==
  ASSUME IInv, NEW b \in Range(f.bbs), NEW n, n = Len(f.code[b])
  PROVE  /\ b \in Block /\ n \in Nat /\ n >= 1 /\ DOMAIN f.code[b] = 1..n /\ LastOf(b) = f.code[b][n]
         /\ \A h \in 1..n : f.code[b][h] \in InstrsOf(f) /\ (h < n => f.code[b][h] # LastOf(b))
         /\ Len(ir.code[b]) \in Nat /\ DOMAIN ir.code[b] = 1..Len(ir.code[b])
         /\ ir.code[b] \in Seq(DOMAIN ir.operands)
         /\ LastOf(b)[1] \in {"br", "ret"}
<1>1. f \in Functions /\ b \in Block
  BY Lists DEF IInv
<1>2. /\ f.code[b] \in Seq(InstrsOf(f)) /\ IsInjective(f.code[b]) /\ f.code[b] # << >>
      /\ LastOf(b)[1] \in {"br", "ret"} /\ ir.code[b] \in Seq(DOMAIN ir.operands)
  BY <1>1, Lists, Kinds DEF IInv, CodeOK
<1>3. n \in Nat /\ n >= 1 /\ DOMAIN f.code[b] = 1..n /\ n \in 1..n
  BY <1>2
<1>4. \A h \in 1..n : f.code[b][h] \in InstrsOf(f) /\ (h < n => f.code[b][h] # f.code[b][n])
  BY <1>2, <1>3 DEF IsInjective
<1>5. Len(ir.code[b]) \in Nat /\ DOMAIN ir.code[b] = 1..Len(ir.code[b])
  BY <1>2
<1> QED BY <1>1, <1>2, <1>3, <1>4, <1>5 DEF LastOf

LEMMA LastOnly ==
  ASSUME IInv, PlacesOK, NEW b \in Range(f.bbs), ~IsOut(b)
  PROVE  /\ ir.code[b] # << >> /\ ir.code[b][Len(ir.code[b])] = LastOf(b)
         /\ \A h \in 1..(Len(ir.code[b]) - 1) : ir.code[b][h] # LastOf(b)
<1>1. ir.code[b] # << >> /\ ir.code[b][Len(ir.code[b])] = LastOf(b)
  BY DEF IInv, CodeOK, Terminator, IsOut
<1>2. PICK n : n = Len(f.code[b])
  OBVIOUS
<1>3. ASSUME NEW h \in 1..(Len(ir.code[b]) - 1) PROVE ir.code[b][h] # LastOf(b)
  <2>1. /\ n \in Nat /\ h \in Nat /\ h >= 1 /\ h \in DOMAIN ir.code[b] /\ h # Len(ir.code[b])
        /\ LastOf(b)[1] \in {"br", "ret"}
    BY <1>2, Block_
  <2>2. CASE h < n
    <3>1. h \in 1..(n - 1) /\ h \in 1..n
      BY <2>1, <2>2
    <3>2. ir.code[b][h] = Now(f.code[b][h]) /\ f.code[b][h] # LastOf(b)
      BY <1>2, <2>2, <3>1, Block_ DEF PlacesOK, BlockOK
    <3> QED BY <2>1, <3>2 DEF Now, LoadOf
  <2>3. CASE h >= n
    <3>1. \/ \E p \in PhisOf(f) : ir.code[b][h] = AllocaOf(p)
          \/ \E p \in PhisOf(f), j \in Nat : ir.code[b][h] = StoreOf(p, j)
      BY <1>2, <2>1, <2>3 DEF PlacesOK, BlockOK
    <3> QED BY <2>1, <3>1 DEF AllocaOf, StoreOf
  <2> QED BY <2>1, <2>2, <2>3
<1> QED BY <1>1, <1>3
-----------------------------------------------------------------------------
LEMMA InitShape ==
  ASSUME IInv, InitPass
  PROVE  ShapeOK
<1>1. /\ f \in Functions /\ k = 0 /\ pc = "entry" /\ left = {} /\ ir.code = f.code /\ ir.operands = f.operands
  BY DEF InitPass
<1>2. Loaded = {} /\ \A b : ~IsOut(b)
  BY <1>1 DEF Loaded, Collected, IsOut
<1>3. ASSUME NEW b \in Range(f.bbs) PROVE BlockOK(b)
  <2>1. PICK n : n = Len(f.code[b])
    OBVIOUS
  <2>2. n \in Nat /\ n >= 1 /\ DOMAIN f.code[b] = 1..n
    BY <2>1, Block_
  <2> QED BY <1>1, <1>2, <2>1, <2>2 DEF BlockOK, Now
<1>4. OperandsOK
  BY <1>1, <1>2 DEF OperandsOK, Now
<1>5. CreatedOK
  <2>1. DOMAIN f.operands = InstrsOf(f)
    BY <1>1, FunctionsAssumption, Zenon DEF IsFunction
  <2>2. ASSUME NEW p, NEW j, StoreOf(p, j) \in InstrsOf(f) PROVE FALSE
    <3>1. StoreOf(p, j)[1] # "store"
      BY <1>1, <2>2, Kinds
    <3> QED BY <3>1 DEF StoreOf
  <2> QED BY <1>1, <1>2, <2>1, <2>2, Zenon DEF CreatedOK
<1>6. StoresOK
  BY <1>1 DEF StoresOK, Stored
<1>7. Collected = {}
  BY <1>1 DEF Collected
<1> QED BY <1>1, <1>3, <1>4, <1>5, <1>6, <1>7 DEF ShapeOK, PlacesOK

\* A block nothing is done to.
LEMMA SameBlock ==
  ASSUME IInv, NEW b \in Range(f.bbs), BlockOK(b), f' = f, ir'.code[b] = ir.code[b], IsOut(b)' = IsOut(b),
         \A h \in 1..Len(f.code[b]) : f.code[b][h] \in Loaded' <=> f.code[b][h] \in Loaded
  PROVE  BlockOK(b)'
<1>1. PICK n : n = Len(f.code[b])
  OBVIOUS
<1>2. n \in Nat /\ n >= 1 /\ Len(f'.code[b]) = n /\ \A h \in 1..(n - 1) : h \in 1..n
  BY <1>1, Block_
<1>3. \A h \in 1..(n - 1) : Now(f.code[b][h])' = Now(f.code[b][h])
  BY <1>1, <1>2 DEF Now
<1>4. \A p, j : Feeds(p, j, b)' <=> Feeds(p, j, b)
  BY DEF Feeds
<1> QED BY <1>1, <1>2, <1>3, <1>4 DEF BlockOK

LEMMA StoreLoopKeepsShape ==
  ASSUME IInv, ShapeOK, NextPhi \/ LastOperand \/ FinishPass
  PROVE  ShapeOK'
<1>1. /\ UNCHANGED <<f, ir, k, its>> /\ pc = "store" /\ pc' \in {"store", "done"}
      /\ f \in Functions /\ LoopsOK /\ PairsOK
  BY DEF NextPhi, LastOperand, FinishPass, IInv
<1>2. Loaded' = Loaded /\ \A b : IsOut(b)' = IsOut(b)
  BY <1>1 DEF Loaded, Collected, IsOut, entry
<1>3. PlacesOK'
  BY <1>1, <1>2, SameBlock DEF ShapeOK, PlacesOK
<1>4. OperandsOK'
  BY <1>1, <1>2 DEF ShapeOK, OperandsOK, Now
<1>5. CreatedOK'
  BY <1>1, <1>2 DEF ShapeOK, CreatedOK
<1>6. StoresOK'
  <2> SUFFICES ASSUME NEW p \in PhisOf(f), NEW j \in Nat, NEW b \in Range(f.bbs), Feeds(p, j, b), Stored(p, j)'
               PROVE  StoreOf(p, j) \in Range(ir.code[b])
    BY <1>1 DEF StoresOK, Feeds
  <2>1. Stored(p, j)
    <3>1. CASE NextPhi
      <4>1. PICK q \in left : phi = << >> /\ phi' = q /\ left' = left \ {q} /\ i' = 1
        BY <3>1 DEF NextPhi
      <4>2. p # q
        <5> SUFFICES ASSUME p = q PROVE FALSE
          OBVIOUS
        <5>1. q \in Collected /\ j % 2 = 1
          BY <1>1, <4>1 DEF LoopsOK, Feeds
        <5>2. q # << >>
          <6>1. q \in ValuesOf(f)
            BY <1>1, <5>1, Phis, ReadersAre, Kinds
          <6> QED BY <1>1, <6>1, Reads
        <5>3. j < 1
          BY <4>1, <5>2 DEF Stored
        <5> QED BY <5>1, <5>3
      <4> QED BY <1>1, <4>1, <4>2 DEF Stored
    <3>2. CASE LastOperand
      <4>1. CASE p = phi
        <5>1. j + 1 \in DOMAIN ir.operands[p] /\ ir.operands[p] \in Seq(DOMAIN ir.use_list)
          <6>1. j + 1 \in DOMAIN f.operands[p] /\ DOMAIN ir.operands[p] = DOMAIN f.operands[p]
            BY <1>1 DEF Feeds, PairsOK
          <6>2. p \in DOMAIN ir.operands
            BY <1>1, Phis DEF IInv, NamesOK
          <6> QED BY <6>1, <6>2 DEF IInv, NamesOK
        <5>2. i \in Nat /\ i > Len(ir.operands[phi])
          BY <1>1, <3>2 DEF LastOperand, LoopsOK
        <5>3. j < i
          BY <4>1, <5>1, <5>2
        <5>4. phi \notin left
          BY <1>1, <3>2 DEF LastOperand, LoopsOK
        <5> QED BY <1>1, <4>1, <5>3, <5>4 DEF Stored
      <4>2. CASE p # phi
        BY <1>1, <3>2, <4>2 DEF LastOperand, Stored
      <4> QED BY <4>1, <4>2
    <3>3. CASE FinishPass
      BY <1>1, <3>3 DEF FinishPass, Stored
    <3> QED BY <3>1, <3>2, <3>3
  <2> QED BY <2>1 DEF ShapeOK, StoresOK
<1>7. pc' = "done" => left' = {}
  BY <1>1 DEF NextPhi, LastOperand, FinishPass
<1> QED BY <1>1, <1>3, <1>4, <1>5, <1>6, <1>7 DEF ShapeOK

LEMMA TakeTerminatorKeepsShape ==
  ASSUME IInv, ShapeOK, TakeTerminator
  PROVE  ShapeOK'
<1> DEFINE t == LastOf(entry)
<1>1. /\ UNCHANGED <<f, k, its, left, phi, i>> /\ pc = "entry" /\ pc' = "collect"
      /\ f \in Functions /\ IsData(ir) /\ DOMAIN ir.code = Block /\ ~IsOut(entry)
      /\ entry \in Block /\ entry \in Range(f.bbs)
  BY Lists DEF TakeTerminator, IInv, CodeOK, IsOut
<1>2. t = Terminator(entry) /\ ir' = DeleteInstrs(ir, entry, {t})
  BY <1>1 DEF TakeTerminator, DeleteInstr, IInv, CodeOK
<1>3. /\ ir'.operands = ir.operands
      /\ \A c \in Block : c # entry => ir'.code[c] = ir.code[c]
      /\ ir'.code[entry] = Without(ir.code[entry], {t})
  BY <1>1, <1>2, Deletion
<1>4. Loaded' = Loaded /\ entry' = entry
  BY <1>1 DEF Loaded, Collected, entry
<1>5. PlacesOK'
  <2>1. ASSUME NEW b \in Range(f.bbs), b # entry PROVE BlockOK(b)'
    <3>1. b \in Block /\ IsOut(b)' = IsOut(b)
      BY <1>1, <1>4, <2>1, Lists DEF IsOut
    <3> QED BY <1>1, <1>3, <1>4, <2>1, <3>1, SameBlock DEF ShapeOK, PlacesOK
  <2>2. BlockOK(entry)'
    <3>1. PICK s : s = ir.code[entry]
      OBVIOUS
    <3>2. PICK n : n = Len(f.code[entry])
      OBVIOUS
    <3>3. /\ s \in Seq(DOMAIN ir.operands) /\ s # << >> /\ t = s[Len(s)]
          /\ \A h \in 1..(Len(s) - 1) : s[h] # t
      BY <1>1, <3>1, LastOnly, Block_ DEF ShapeOK
    <3> HIDE DEF t
    <3>4. PICK s1 : s1 = Without(s, {t})
      OBVIOUS
    <3>5. s1 \in Seq(DOMAIN ir.operands) /\ Len(s1) = Len(s) - 1 /\ \A h \in 1..(Len(s) - 1) : s1[h] = s[h]
      BY ONLY <3>3, <3>4, WithoutLast
    <3>6. ir'.code[entry] = s1 /\ f' = f /\ IsOut(entry)'
      BY <1>1, <1>3, <1>4, <3>1, <3>4 DEF IsOut
    <3>7. /\ n \in Nat /\ n >= 1 /\ Len(s) >= n /\ Len(s) \in Nat /\ DOMAIN s = 1..Len(s)
          /\ \A h \in 1..(n - 1) : s[h] = Now(f.code[entry][h])
          /\ \A h \in DOMAIN s : h >= n =>
               \/ h = Len(s)
               \/ \E p \in PhisOf(f) : s[h] = AllocaOf(p)
               \/ \E p \in PhisOf(f), j \in Nat : s[h] = StoreOf(p, j) /\ Feeds(p, j, entry)
      BY <1>1, <3>1, <3>2, Block_ DEF ShapeOK, PlacesOK, BlockOK
    <3>8. Len(s1) >= n - 1 /\ DOMAIN s1 = 1..(Len(s) - 1)
      BY <3>5, <3>7
    <3>9. \A h \in 1..(n - 1) : s1[h] = Now(f.code[entry][h])
      <4> TAKE h \in 1..(n - 1)
      <4>1. h \in 1..(Len(s) - 1)
        BY <3>7
      <4> QED BY <3>5, <3>7, <4>1
    <3>10. \A h \in DOMAIN s1 : h >= n =>
             \/ \E p \in PhisOf(f) : s1[h] = AllocaOf(p)
             \/ \E p \in PhisOf(f), j \in Nat : s1[h] = StoreOf(p, j) /\ Feeds(p, j, entry)
      <4> TAKE h \in DOMAIN s1
      <4>1. h \in 1..(Len(s) - 1) /\ h \in DOMAIN s /\ h # Len(s)
        BY <3>7, <3>8
      <4> QED BY <3>5, <3>7, <4>1
    <3>11. \A h : Now(f.code[entry][h])' = Now(f.code[entry][h])
      BY <1>1, <1>4 DEF Now
    <3>12. \A p, j : Feeds(p, j, entry)' <=> Feeds(p, j, entry)
      BY <1>1, <1>4 DEF Feeds
    <3> QED BY <1>4, <3>2, <3>6, <3>8, <3>9, <3>10, <3>11, <3>12 DEF BlockOK
  <2> QED BY <1>1, <1>4, <2>1, <2>2 DEF PlacesOK
<1>6. OperandsOK' /\ CreatedOK'
  BY <1>1, <1>3, <1>4 DEF ShapeOK, OperandsOK, CreatedOK, Now
<1>7. StoresOK'
  BY <1>1 DEF StoresOK, Stored
<1>8. Collected' = Collected
  BY <1>1 DEF Collected
<1> QED BY <1>1, <1>5, <1>6, <1>7, <1>8 DEF ShapeOK

LEMMA CollectPhisKeepsShape ==
  ASSUME IInv, ShapeOK, CollectPhis
  PROVE  ShapeOK'
<1>1. /\ UNCHANGED <<f, pc, phi, i>> /\ pc = "collect" /\ its = << >>
      /\ f \in Functions /\ IsOut(entry) /\ entry' = entry
      /\ entry \in Block /\ entry \in Range(f.bbs)
  BY Lists DEF CollectPhis, IInv, IsOut, entry
<1>2. /\ \A p \in Range(its') : p \in PhisOf(f)
      /\ Range(its') \cap Collected = {}
      /\ Collected' = Collected \cup Range(its')
  <2>1. its' \in Seq(PhisOf(f))
    BY NextPhis
  <2>2. \A p \in Range(its') : p \in PhisOf(f)
    BY <2>1 DEF Range
  <2> QED BY <2>2, NextPhis
<1>3. Loaded' = Loaded
  BY <1>1, <1>2 DEF Loaded, Range
<1>4. PICK S : S = {AllocaOf(p) : p \in Range(its')}
  OBVIOUS
<1>5. /\ DOMAIN ir'.operands = DOMAIN ir.operands \cup S
      /\ \A x \in DOMAIN ir.operands : ir'.operands[x] = ir.operands[x]
      /\ \A c \in Block : c # entry => ir'.code[c] = ir.code[c]
      /\ ir'.code[entry] \in Seq(DOMAIN ir'.operands)
      /\ Len(ir'.code[entry]) >= Len(ir.code[entry])
      /\ \A h \in DOMAIN ir.code[entry] : ir'.code[entry][h] = ir.code[entry][h]
      /\ \A h \in DOMAIN ir'.code[entry] : h > Len(ir.code[entry]) => ir'.code[entry][h] \in S
  BY <1>4, CollectPhisDoes
<1>6. PlacesOK'
  <2>1. ASSUME NEW b \in Range(f.bbs), b # entry PROVE BlockOK(b)'
    <3>1. b \in Block /\ IsOut(b)' = IsOut(b)
      BY <1>1, <2>1, Lists DEF IsOut
    <3> QED BY <1>1, <1>3, <1>5, <2>1, <3>1, SameBlock DEF ShapeOK, PlacesOK
  <2>2. BlockOK(entry)'
    <3>1. PICK s : s = ir.code[entry]
      OBVIOUS
    <3>2. PICK s1 : s1 = ir'.code[entry]
      OBVIOUS
    <3>3. PICK n : n = Len(f.code[entry])
      OBVIOUS
    <3>4. /\ n \in Nat /\ n >= 1 /\ Len(s) >= n - 1 /\ Len(s) \in Nat /\ DOMAIN s = 1..Len(s)
          /\ \A h \in 1..(n - 1) : s[h] = Now(f.code[entry][h])
          /\ \A h \in DOMAIN s : h >= n =>
               \/ \E p \in PhisOf(f) : s[h] = AllocaOf(p)
               \/ \E p \in PhisOf(f), j \in Nat : s[h] = StoreOf(p, j) /\ Feeds(p, j, entry)
      BY <1>1, <3>1, <3>3, Block_ DEF ShapeOK, PlacesOK, BlockOK
    <3>5. /\ Len(s1) \in Nat /\ DOMAIN s1 = 1..Len(s1) /\ Len(s1) >= Len(s)
          /\ \A h \in DOMAIN s : s1[h] = s[h]
          /\ \A h \in DOMAIN s1 : h > Len(s) => s1[h] \in S
      <4>1. s1 \in Seq(DOMAIN ir'.operands)
        BY <1>5, <3>2
      <4>2. Len(s1) \in Nat /\ DOMAIN s1 = 1..Len(s1)
        BY <4>1
      <4> QED BY <1>5, <3>1, <3>2, <4>2
    <3>6. \A h \in 1..(n - 1) : s1[h] = Now(f.code[entry][h])
      BY <3>4, <3>5
    <3>7. \A h \in DOMAIN s1 : h >= n =>
             \/ \E p \in PhisOf(f) : s1[h] = AllocaOf(p)
             \/ \E p \in PhisOf(f), j \in Nat : s1[h] = StoreOf(p, j) /\ Feeds(p, j, entry)
      <4> SUFFICES ASSUME NEW h \in DOMAIN s1, h >= n
                   PROVE  \/ \E p \in PhisOf(f) : s1[h] = AllocaOf(p)
                          \/ \E p \in PhisOf(f), j \in Nat : s1[h] = StoreOf(p, j) /\ Feeds(p, j, entry)
        OBVIOUS
      <4>1. CASE h <= Len(s)
        <5>1. h \in DOMAIN s /\ s1[h] = s[h]
          BY <3>4, <3>5, <4>1
        <5> QED BY <3>4, <5>1
      <4>2. CASE h > Len(s)
        BY <1>2, <1>4, <3>5, <4>2
      <4> QED BY <3>4, <3>5, <4>1, <4>2
    <3>8. \A h : Now(f.code[entry][h])' = Now(f.code[entry][h])
      BY <1>1, <1>3 DEF Now
    <3>9. \A p, j : Feeds(p, j, entry)' <=> Feeds(p, j, entry)
      BY <1>1 DEF Feeds
    <3>10. f' = f /\ IsOut(entry)' /\ ir'.code[entry] = s1 /\ Len(s1) >= n - 1
      BY <1>1, <3>2, <3>4, <3>5 DEF IsOut
    <3> QED BY <1>1, <3>3, <3>6, <3>7, <3>8, <3>9, <3>10 DEF BlockOK
  <2> QED BY <1>1, <2>1, <2>2 DEF PlacesOK
<1>7. OperandsOK'
  <2>1. InstrsOf(f) \subseteq DOMAIN ir.operands
    BY DEF IInv, NamesOK
  <2> QED BY <1>1, <1>3, <1>5, <2>1 DEF ShapeOK, OperandsOK, Now
<1>8. CreatedOK'
  <2> SUFFICES ASSUME NEW p \in PhisOf(f)
               PROVE  /\ p \in Loaded => LoadOf(p) \in DOMAIN ir'.operands /\ ir'.operands[LoadOf(p)] = <<AllocaOf(p)>>
                      /\ \A j \in Nat : StoreOf(p, j) \in DOMAIN ir'.operands =>
                           ir'.operands[StoreOf(p, j)] = <<ir'.operands[p][j], AllocaOf(p)>>
    BY <1>1, <1>3, Zenon DEF CreatedOK
  <2>1. p \in DOMAIN ir.operands
    BY <1>1, Phis DEF IInv, NamesOK
  <2>2. ASSUME p \in Loaded PROVE LoadOf(p) \in DOMAIN ir'.operands /\ ir'.operands[LoadOf(p)] = <<AllocaOf(p)>>
    <3>1. ir.operands[LoadOf(p)] = <<AllocaOf(p)>> /\ LoadOf(p) \in DOMAIN ir.operands
      BY <2>2 DEF ShapeOK, CreatedOK
    <3> QED BY <1>5, <3>1
  <2>3. ASSUME NEW j \in Nat, StoreOf(p, j) \in DOMAIN ir'.operands
        PROVE  ir'.operands[StoreOf(p, j)] = <<ir'.operands[p][j], AllocaOf(p)>>
    <3>1. StoreOf(p, j) \notin S
      BY <1>4 DEF StoreOf, AllocaOf
    <3> QED BY <1>5, <2>1, <2>3, <3>1 DEF ShapeOK, CreatedOK
  <2> QED BY <2>2, <2>3
<1>9. StoresOK'
  BY <1>1 DEF StoresOK, Stored
<1>10. left' = Collected'
  BY <1>1, <1>2 DEF CollectPhis, ShapeOK
<1> QED BY <1>1, <1>6, <1>7, <1>8, <1>9, <1>10 DEF ShapeOK

LEMMA OneLong ==
  ASSUME NEW T, NEW s \in Seq(T), DOMAIN s = {1}, NEW x, s[1] = x
  PROVE  s = <<x>>
<1>1. Len(s) \in Nat /\ DOMAIN s = 1..Len(s)
  OBVIOUS
<1>2. Len(s) = 1
  <2>1. 1 \in 1..Len(s) /\ Len(s) \in 1..Len(s)
    BY <1>1
  <2> QED BY <1>1, <2>1
<1> QED BY <1>2

\* No store while phis are collected.
LEMMA NoStores ==
  ASSUME IInv, NEW x \in DOMAIN ir.operands, pc = "collect"
  PROVE  x[1] # "store"
<1>1. f \in Functions /\ NamesOK /\ x \in DOMAIN ir.use_list
  BY DEF IInv, NamesOK
<1>2. CASE x \in ValuesOf(f)
  BY <1>1, <1>2, Kinds
<1>3. CASE \E p \in Collected : x = AllocaOf(p)
  BY <1>3 DEF AllocaOf
<1>4. CASE \E p \in Loaded : x = LoadOf(p)
  BY <1>4 DEF LoadOf
<1>5. CASE \E p \in Collected : \E j \in Nat : x = StoreOf(p, j) /\ Stored(p, j)
  BY <1>5 DEF Stored
<1> QED BY <1>1, <1>2, <1>3, <1>4, <1>5 DEF NamesOK

\* Who reads the phi that is replaced is in its use list.
LEMMA PhiReaders ==
  ASSUME IInv, ShapeOK, pc = "collect", NEW x \in InstrsOf(f), NEW j \in DOMAIN f.operands[x],
         IsPhi(f.operands[x][j])
  PROVE  x \in Readers
<1>1. f \in Functions /\ LoopsOK /\ CodeOK /\ NamesOK
  BY DEF IInv
<1>2. CASE IsPhi(x)
  <2>1. x \in PhisOf(f)
    BY <1>2 DEF PhisOf
  <2> QED BY <2>1, ReadersAre
<1>3. CASE ~IsPhi(x)
  <2>0. PICK c \in Block : x \in Range(f.code[c])
    BY InInstrs
  <2>1. PICK h \in DOMAIN f.code[c] : x = f.code[c][h]
    BY <2>0 DEF Range
  <2>2. c \in Range(f.bbs)
    BY <1>1, <2>1, Lists
  <2>3. c # entry
    <3> SUFFICES ASSUME c = entry PROVE FALSE
      OBVIOUS
    <3>1. x \in Range(f.code[entry])
      BY <2>1 DEF Range
    <3>2. f.operands[x][j] \in Range(f.operands[x])
      BY DEF Range
    <3> QED BY <1>1, <3>1, <3>2, Reads
  <2>4. PICK n : n = Len(f.code[c])
    OBVIOUS
  <2>5. x \in Range(ir.code[c])
    <3>1. n \in Nat /\ h \in 1..n /\ LastOf(c) = f.code[c][n] /\ DOMAIN ir.code[c] = 1..Len(ir.code[c])
      BY <2>1, <2>2, <2>4, Block_
    <3>2. CASE h = n
      <4>1. ~IsOut(c)
        BY <2>3 DEF IsOut
      <4>2. ir.code[c] # << >> /\ ir.code[c][Len(ir.code[c])] = x
        BY <2>1, <2>2, <3>1, <3>2, <4>1, LastOnly DEF ShapeOK
      <4>3. ir.code[c] \in Seq(DOMAIN ir.operands)
        BY <1>1, <2>1 DEF CodeOK
      <4>4. Len(ir.code[c]) \in DOMAIN ir.code[c]
        BY <4>2, <4>3
      <4> QED BY <4>2, <4>4 DEF Range
    <3>3. CASE h # n
      <4>1. h \in 1..(n - 1)
        BY <3>1, <3>3
      <4>2. ir.code[c][h] = Now(x) /\ Len(ir.code[c]) >= n - 1
        BY <2>1, <2>2, <2>3, <2>4, <4>1 DEF ShapeOK, PlacesOK, BlockOK, IsOut
      <4>3. x \notin Loaded
        BY <1>3, ReadersAre DEF Loaded, PhisOf
      <4>4. h \in DOMAIN ir.code[c]
        <5>1. Len(ir.code[c]) \in Nat
          BY <2>2, Block_
        <5> QED BY <3>1, <4>1, <4>2, <5>1
      <4> QED BY <4>2, <4>3, <4>4 DEF Now, Range
    <3> QED BY <3>2, <3>3
  <2>6. x \notin Taken
    <3> SUFFICES ASSUME NEW d \in Opened, x = LastOf(d) PROVE FALSE
      BY DEF Taken
    <3>1. d \in Block
      BY DEF Opened
    <3>2. CASE d = entry
      <4>1. LastOf(entry) \in Range(f.code[entry]) /\ x \in Range(f.code[c])
        BY <1>1, <2>1, Kinds, Lists DEF Range
      <4>2. entry \in Block /\ \A e \in Block : x \in Range(f.code[entry]) /\ x \in Range(f.code[e]) => entry = e
        BY <1>1, Lists
      <4>3. x \in Range(f.code[entry])
        BY <3>2, <4>1
      <4> QED BY <2>3, <4>1, <4>2, <4>3
    <3>3. CASE d # entry
      <4>1. PICK y \in Range(ir.code[d]) : y[1] = "store"
        BY <3>3 DEF Opened
      <4>2. ir.code[d] \in Seq(DOMAIN ir.operands)
        BY <1>1, <3>1 DEF CodeOK
      <4>3. y \in DOMAIN ir.operands
        BY <4>2 DEF Range
      <4> QED BY <4>1, <4>3, NoStores
    <3> QED BY <3>2, <3>3
  <2>7. x \in InstrsOf(ir)
    BY <2>1, <2>5, InInstrs
  <2> QED BY <2>6, <2>7 DEF Readers
<1> QED BY <1>2, <1>3

LEMMA ReplacePhiKeepsShape ==
  ASSUME IInv, ShapeOK, ReplacePhi
  PROVE  ShapeOK'
<1>1. PICK p : p = Head(its)
  OBVIOUS
<1>2. PICK b : b = f.bbs[k]
  OBVIOUS
<1>3. PICK ld : ld = LoadOf(p)
  OBVIOUS
<1>4. /\ UNCHANGED <<f, pc, k, left, phi, i>> /\ pc = "collect" /\ its # << >>
      /\ f \in Functions /\ entry' = entry
  BY DEF ReplacePhi, IInv, entry
<1>5. /\ p \in PhisOf(f) /\ p \in Collected /\ p \notin Loaded /\ p[1] = "phi"
      /\ b \in Block /\ b \in Range(f.bbs) /\ b # entry /\ p \in Range(f.code[b])
      /\ Range(its') = Range(its) \ {p}
  BY <1>1, <1>2, NextReplaced
<1>6. Loaded' = Loaded \cup {p}
  <2>1. Collected' = Collected
    BY <1>4 DEF Collected
  <2> QED BY <1>5, <2>1 DEF Loaded
<1>7. Replacing(p, b, ld)
  BY <1>1, <1>2, <1>3, ReplacePhiDoes
<1>8. \A v : Now(v)' = IF v = p THEN ld ELSE Now(v)
  BY <1>3, <1>6 DEF Now
<1>9. Now(p) = p
  BY <1>5 DEF Now
<1>10. \A v : v # p => Now(v) # p
  BY <1>5 DEF Now, LoadOf
<1>11. PlacesOK'
  <2>1. ASSUME NEW c \in Range(f.bbs), c # b PROVE BlockOK(c)'
    <3>1. c \in Block /\ IsOut(c)' = IsOut(c) /\ ir'.code[c] = ir.code[c]
      BY <1>4, <1>7, <2>1, Lists DEF IsOut, Replacing
    <3>2. p \notin Range(f.code[c])
      BY <1>4, <1>5, <2>1, <3>1, Lists
    <3>3. \A h \in 1..Len(f.code[c]) : f.code[c][h] # p
      BY <3>2, Block_ DEF Range
    <3> QED BY <1>4, <1>6, <2>1, <3>1, <3>3, SameBlock DEF ShapeOK, PlacesOK
  <2>2. BlockOK(b)'
    <3>1. PICK s : s = ir.code[b]
      OBVIOUS
    <3>2. PICK s1 : s1 = ir'.code[b]
      OBVIOUS
    <3>3. PICK n : n = Len(f.code[b])
      OBVIOUS
    <3>4. ~IsOut(b) /\ ~IsOut(b)'
      BY <1>4, <1>5 DEF IsOut
    <3>5. /\ n \in Nat /\ n >= 1 /\ Len(s) >= n /\ Len(s) \in Nat /\ DOMAIN s = 1..Len(s)
          /\ \A h \in 1..(n - 1) : s[h] = Now(f.code[b][h])
          /\ \A h \in DOMAIN s : h >= n =>
               \/ h = Len(s)
               \/ \E q \in PhisOf(f) : s[h] = AllocaOf(q)
               \/ \E q \in PhisOf(f), j \in Nat : s[h] = StoreOf(q, j) /\ Feeds(q, j, b)
      BY <1>5, <3>1, <3>3, <3>4, Block_ DEF ShapeOK, PlacesOK, BlockOK
    <3>6. s[Len(s)] = LastOf(b) /\ LastOf(b)[1] \in {"br", "ret"}
      BY <1>5, <3>1, <3>4, LastOnly, Block_ DEF ShapeOK
    <3>7. /\ Len(s1) = Len(s) /\ DOMAIN s1 = DOMAIN s
          /\ \A h \in DOMAIN s : s1[h] = IF s[h] = p THEN ld ELSE s[h]
      <4>1. s1 \in Seq(DOMAIN ir'.operands) /\ DOMAIN s1 = DOMAIN s
        BY <1>7, <3>1, <3>2 DEF Replacing
      <4>2. Len(s1) = Len(s)
        BY <3>5, <4>1
      <4> QED BY <1>7, <3>1, <3>2, <4>1, <4>2 DEF Replacing
    <3>8. \A h \in 1..(n - 1) : s1[h] = IF f.code[b][h] = p THEN ld ELSE Now(f.code[b][h])
      <4> TAKE h \in 1..(n - 1)
      <4>1. h \in DOMAIN s
        BY <3>5
      <4> QED BY <1>9, <1>10, <3>5, <3>7, <4>1
    <3>9. \A h \in DOMAIN s : h >= n => s1[h] = s[h]
      <4> SUFFICES ASSUME NEW h \in DOMAIN s, h >= n PROVE s[h] # p
        BY <3>7
      <4> QED BY <1>5, <3>5, <3>6 DEF AllocaOf, StoreOf
    <3>10. \A q, j : Feeds(q, j, b)' <=> Feeds(q, j, b)
      BY <1>4 DEF Feeds
    <3> QED BY <1>4, <1>8, <3>2, <3>3, <3>4, <3>5, <3>7, <3>8, <3>9, <3>10 DEF BlockOK
  <2> QED BY <1>4, <2>1, <2>2 DEF PlacesOK
<1>12. OperandsOK'
  <2> SUFFICES ASSUME NEW x \in InstrsOf(f)
               PROVE  /\ DOMAIN ir'.operands[x] = DOMAIN f.operands[x]
                      /\ \A j \in DOMAIN f.operands[x] : ir'.operands[x][j] = Now(f.operands[x][j])'
    BY <1>4 DEF OperandsOK
  <2>1. x \in DOMAIN ir.operands
    BY DEF IInv, NamesOK
  <2>2. DOMAIN ir'.operands[x] = DOMAIN f.operands[x] /\ DOMAIN ir.operands[x] = DOMAIN f.operands[x]
    BY <1>7, <2>1 DEF Replacing, ShapeOK, OperandsOK
  <2>3. ASSUME NEW j \in DOMAIN f.operands[x]
        PROVE  ir'.operands[x][j] = IF f.operands[x][j] = p THEN ld ELSE Now(f.operands[x][j])
    <3>1. ir'.operands[x][j] = IF x \in Readers /\ ir.operands[x][j] = p THEN ld ELSE ir.operands[x][j]
      BY <1>7, <2>1, <2>2 DEF Replacing
    <3>2. ir.operands[x][j] = Now(f.operands[x][j])
      BY DEF ShapeOK, OperandsOK
    <3>3. f.operands[x][j] = p => x \in Readers
      BY <1>4, <1>5, PhiReaders DEF IsPhi
    <3> QED BY <1>9, <1>10, <3>1, <3>2, <3>3
  <2> QED BY <1>4, <1>8, <2>2, <2>3
<1>13. CreatedOK'
  <2> SUFFICES ASSUME NEW q \in PhisOf(f)
               PROVE  /\ q \in Loaded' => LoadOf(q) \in DOMAIN ir'.operands /\ ir'.operands[LoadOf(q)] = <<AllocaOf(q)>>
                      /\ \A j \in Nat : StoreOf(q, j) \notin DOMAIN ir'.operands
    BY <1>4, Zenon DEF CreatedOK
  <2>1. ASSUME q \in Loaded' PROVE LoadOf(q) \in DOMAIN ir'.operands /\ ir'.operands[LoadOf(q)] = <<AllocaOf(q)>>
    <3>1. CASE q = p
      BY <1>3, <1>7, <3>1 DEF Replacing
    <3>2. CASE q # p
      <4>1. PICK lq : lq = LoadOf(q)
        OBVIOUS
      <4>2. PICK aq : aq = AllocaOf(q)
        OBVIOUS
      <4>3. lq \in DOMAIN ir.operands /\ ir.operands[lq] = <<aq>>
        BY <1>6, <2>1, <3>2, <4>1, <4>2 DEF ShapeOK, CreatedOK
      <4>4. DOMAIN <<aq>> = {1} /\ <<aq>>[1] = aq
        OBVIOUS
      <4>5. aq # p
        BY <1>5, <4>2 DEF AllocaOf
      <4>6. lq \in DOMAIN ir'.operands /\ DOMAIN ir'.operands[lq] = DOMAIN ir.operands[lq]
            /\ ir'.operands[lq] \in Seq(DOMAIN ir'.use_list)
            /\ \A j \in DOMAIN ir.operands[lq] : ir.operands[lq][j] # p => ir'.operands[lq][j] = ir.operands[lq][j]
        BY <1>7, <4>3 DEF Replacing
      <4>7. DOMAIN ir'.operands[lq] = {1} /\ ir'.operands[lq][1] = aq
        BY <4>3, <4>4, <4>5, <4>6
      <4>8. ir'.operands[lq] = <<aq>>
        BY <4>6, <4>7, OneLong
      <4> QED BY <4>1, <4>2, <4>6, <4>8
    <3> QED BY <3>1, <3>2
  <2>2. ASSUME NEW j \in Nat, StoreOf(q, j) \in DOMAIN ir'.operands PROVE FALSE
    <3>1. StoreOf(q, j) \in DOMAIN ir.operands
      BY <1>3, <1>7, <2>2 DEF Replacing, StoreOf, LoadOf
    <3> QED BY <1>4, <3>1, NoStores DEF StoreOf
  <2> QED BY <2>1, <2>2
<1>14. StoresOK'
  BY <1>4 DEF StoresOK, Stored
<1>15. Collected' = Collected
  BY <1>4 DEF Collected
<1> QED BY <1>4, <1>11, <1>12, <1>13, <1>14, <1>15 DEF ShapeOK

\* When the last block has been dealt with, every phi has its alloca.
LEMMA AllCollected ==
  ASSUME f \in Functions, k = Len(f.bbs)
  PROVE  Collected = PhisOf(f)
<1>1. ASSUME NEW p \in PhisOf(f) PROVE p \in Collected
  <2>1. PICK b \in Block : p \in Range(f.code[b])
    BY InInstrs DEF PhisOf
  <2>2. b \in Range(f.bbs)
    BY <2>1, Lists DEF Range
  <2>3. PICK m \in DOMAIN f.bbs : f.bbs[m] = b
    BY <2>2 DEF Range
  <2>4. m \in 1..k
    BY <2>3, Lists
  <2> QED BY <2>1, <2>3, <2>4 DEF Collected
<1> QED BY <1>1 DEF Collected

LEMMA ReturnTerminatorKeepsShape ==
  ASSUME IInv, ShapeOK, ReturnTerminator
  PROVE  ShapeOK'
<1>1. PICK t : t = LastOf(entry)
  OBVIOUS
<1>2. /\ UNCHANGED <<f, k, its, left, phi, i>> /\ pc = "collect" /\ pc' = "store" /\ k = Len(f.bbs)
      /\ f \in Functions /\ IsData(ir) /\ DOMAIN ir.code = Block
      /\ ir' = AddInstruction(ir, entry, t)
      /\ entry \in Block /\ entry \in Range(f.bbs) /\ entry' = entry
  BY <1>1, Lists DEF ReturnTerminator, LastOf, IInv, CodeOK, entry
<1>3. /\ ir'.operands = ir.operands
      /\ \A c \in Block : c # entry => ir'.code[c] = ir.code[c]
      /\ ir'.code[entry] = Append(ir.code[entry], t)
  BY <1>2, Added
<1>4. Loaded' = Loaded
  BY <1>2 DEF Loaded, Collected
<1>5. PlacesOK'
  <2>1. ASSUME NEW b \in Range(f.bbs), b # entry PROVE BlockOK(b)'
    <3>1. b \in Block /\ IsOut(b)' = IsOut(b)
      BY <1>2, <2>1, Lists DEF IsOut
    <3> QED BY <1>2, <1>3, <1>4, <2>1, <3>1, SameBlock DEF ShapeOK, PlacesOK
  <2>2. BlockOK(entry)'
    <3>1. PICK s : s = ir.code[entry]
      OBVIOUS
    <3>2. PICK s1 : s1 = Append(s, t)
      OBVIOUS
    <3>3. PICK n : n = Len(f.code[entry])
      OBVIOUS
    <3>4. /\ n \in Nat /\ n >= 1 /\ Len(s) >= n - 1 /\ Len(s) \in Nat /\ DOMAIN s = 1..Len(s)
          /\ \A h \in 1..(n - 1) : s[h] = Now(f.code[entry][h])
          /\ \A h \in DOMAIN s : h >= n =>
               \/ \E p \in PhisOf(f) : s[h] = AllocaOf(p)
               \/ \E p \in PhisOf(f), j \in Nat : s[h] = StoreOf(p, j) /\ Feeds(p, j, entry)
      BY <1>2, <3>1, <3>3, Block_ DEF ShapeOK, PlacesOK, BlockOK, IsOut
    <3>5. /\ Len(s1) = Len(s) + 1 /\ DOMAIN s1 = 1..(Len(s) + 1)
          /\ \A h \in 1..Len(s) : s1[h] = s[h]
      <4>1. s \in Seq(DOMAIN ir.operands) /\ t \in DOMAIN ir.operands
        <5>1. t \in InstrsOf(f)
          <6>1. t = f.code[entry][n] /\ n \in 1..n
            BY <1>1, <1>2, <3>3, <3>4, Block_
          <6> QED BY <1>2, <3>3, <6>1, Block_
        <5> QED BY <1>2, <3>1, <5>1, Block_ DEF IInv, NamesOK
      <4> QED BY <3>2, <4>1, Appended
    <3>6. \A h \in 1..(n - 1) : s1[h] = Now(f.code[entry][h])
      BY <3>4, <3>5
    <3>7. \A h \in DOMAIN s1 : h >= n =>
             \/ h = Len(s1)
             \/ \E p \in PhisOf(f) : s1[h] = AllocaOf(p)
             \/ \E p \in PhisOf(f), j \in Nat : s1[h] = StoreOf(p, j) /\ Feeds(p, j, entry)
      <4> TAKE h \in DOMAIN s1
      <4>1. CASE h = Len(s1)
        BY <4>1
      <4>2. CASE h # Len(s1)
        <5>1. h \in DOMAIN s /\ s1[h] = s[h]
          BY <3>4, <3>5, <4>2
        <5> QED BY <3>4, <5>1
      <4> QED BY <4>1, <4>2
    <3>8. \A h : Now(f.code[entry][h])' = Now(f.code[entry][h])
      BY <1>2, <1>4 DEF Now
    <3>9. \A p, j : Feeds(p, j, entry)' <=> Feeds(p, j, entry)
      BY <1>2 DEF Feeds
    <3>10. f' = f /\ ~IsOut(entry)' /\ ir'.code[entry] = s1 /\ Len(s1) >= n
      BY <1>2, <1>3, <3>1, <3>2, <3>4, <3>5 DEF IsOut
    <3> QED BY <1>2, <3>3, <3>6, <3>7, <3>8, <3>9, <3>10 DEF BlockOK
  <2> QED BY <1>2, <2>1, <2>2 DEF PlacesOK
<1>6. OperandsOK' /\ CreatedOK'
  BY <1>2, <1>3, <1>4 DEF ShapeOK, OperandsOK, CreatedOK, Now
<1>7. StoresOK'
  <2>1. left = PhisOf(f)
    BY <1>2, AllCollected DEF ShapeOK
  <2> QED BY <1>2, <2>1 DEF StoresOK, Stored
<1> QED BY <1>2, <1>5, <1>6, <1>7 DEF ShapeOK

LEMMA StoreOperandKeepsShape ==
  ASSUME IInv, ShapeOK, StoreOperand
  PROVE  ShapeOK'
<1>1. PICK b : b = ir.operands[phi][i + 1]
  OBVIOUS
<1>2. PICK t : t = Terminator(b)
  OBVIOUS
<1>3. PICK st : st = StoreOf(phi, i)
  OBVIOUS
<1>4. /\ UNCHANGED <<f, pc, k, its, left, phi>> /\ pc = "store" /\ phi # << >>
      /\ f \in Functions /\ i < Len(ir.operands[phi]) /\ i' = i + 2 /\ entry' = entry
      /\ \A c : ~IsOut(c) /\ ~IsOut(c)'
  BY DEF StoreOperand, IInv, IsOut, entry
<1>5. /\ phi \in Collected /\ phi \in PhisOf(f) /\ phi \notin left /\ i \in Nat /\ i % 2 = 1
      /\ b \in Block /\ b \in Range(f.bbs) /\ Terminator(b) = LastOf(b)
      /\ st \notin DOMAIN ir.use_list
  BY <1>1, <1>3, <1>4, NextStored DEF IInv, LoopsOK
<1>6. Storing(b, t, st)
  BY <1>1, <1>2, <1>3, StoreOperandDoes
<1>7. Loaded' = Loaded
  BY <1>4 DEF Loaded, Collected
<1>8. Feeds(phi, i, b)
  <2>1. phi \in DOMAIN ir.operands /\ ir.operands[phi] \in Seq(DOMAIN ir.use_list)
    BY <1>4, <1>5, Phis DEF IInv, NamesOK
  <2>2. i + 1 \in DOMAIN ir.operands[phi] /\ (i + 1) % 2 = 0
    BY <1>4, <1>5, <2>1
  <2>3. i + 1 \in DOMAIN f.operands[phi] /\ f.operands[phi][i + 1] \in Range(f.bbs)
    BY <1>4, <1>5, <2>2, Phis DEF IInv, PairsOK
  <2>4. f.operands[phi][i + 1] = ir.operands[phi][i + 1]
    BY <1>4, <1>5, <2>3, Lists DEF IInv, PairsOK
  <2> QED BY <1>1, <1>5, <2>3, <2>4 DEF Feeds
<1>9. PlacesOK'
  <2>1. ASSUME NEW c \in Range(f.bbs), c # b PROVE BlockOK(c)'
    <3>1. c \in Block /\ IsOut(c)' = IsOut(c) /\ ir'.code[c] = ir.code[c]
      <4>1. c \in Block /\ IsOut(c)' = IsOut(c)
        BY <1>4, Lists DEF IsOut
      <4> QED BY <1>6, <2>1, <4>1 DEF Storing
    <3> QED BY <1>4, <1>7, <2>1, <3>1, SameBlock DEF ShapeOK, PlacesOK
  <2>2. BlockOK(b)'
    <3>1. PICK s : s = ir.code[b]
      OBVIOUS
    <3>2. PICK n : n = Len(f.code[b])
      OBVIOUS
    <3>3. PICK w : w = Without(s, {t})
      OBVIOUS
    <3>4. PICK s1 : s1 = Append(Append(w, st), t)
      OBVIOUS
    <3>5. /\ s \in Seq(DOMAIN ir.operands) /\ s # << >> /\ t = s[Len(s)]
          /\ \A h \in 1..(Len(s) - 1) : s[h] # t
      BY <1>2, <1>4, <1>5, <3>1, LastOnly, Block_ DEF ShapeOK
    <3>6. w \in Seq(DOMAIN ir.operands) /\ Len(w) = Len(s) - 1 /\ \A h \in 1..(Len(s) - 1) : w[h] = s[h]
      BY ONLY <3>3, <3>5, WithoutLast
    <3>7. /\ n \in Nat /\ n >= 1 /\ Len(s) >= n /\ Len(s) \in Nat /\ DOMAIN s = 1..Len(s)
          /\ \A h \in 1..(n - 1) : s[h] = Now(f.code[b][h])
          /\ \A h \in DOMAIN s : h >= n =>
               \/ h = Len(s)
               \/ \E p \in PhisOf(f) : s[h] = AllocaOf(p)
               \/ \E p \in PhisOf(f), j \in Nat : s[h] = StoreOf(p, j) /\ Feeds(p, j, b)
      BY <1>4, <1>5, <3>1, <3>2, Block_ DEF ShapeOK, PlacesOK, BlockOK
    <3>8. /\ Len(s1) = Len(s) + 1 /\ DOMAIN s1 = 1..(Len(s) + 1)
          /\ \A h \in 1..(Len(s) - 1) : s1[h] = s[h]
          /\ s1[Len(s)] = st /\ s1[Len(s) + 1] = t
      <4>1. PICK T : T = DOMAIN ir'.operands
        OBVIOUS
      <4>2. w \in Seq(T) /\ st \in T /\ t \in T
        <5>1. t \in DOMAIN ir.operands
          BY <1>2, <1>1, NextStored
        <5> QED BY <1>6, <3>6, <4>1, <5>1, SeqOfMore DEF Storing
      <4>3. PICK u : u = Append(w, st)
        OBVIOUS
      <4>4. /\ u \in Seq(T) /\ Len(u) = Len(w) + 1
            /\ \A h \in 1..Len(w) : u[h] = w[h]
            /\ u[Len(w) + 1] = st
        BY <4>2, <4>3, Appended
      <4>5. /\ Len(s1) = Len(u) + 1 /\ DOMAIN s1 = 1..(Len(u) + 1)
            /\ \A h \in 1..Len(u) : s1[h] = u[h]
            /\ s1[Len(u) + 1] = t
        BY <3>4, <4>2, <4>3, <4>4, Appended
      <4>6. Len(w) = Len(s) - 1 /\ Len(u) = Len(s)
        BY <3>6, <3>7, <4>4
      <4> QED BY <3>6, <3>7, <4>4, <4>5, <4>6
    <3>9. \A h \in 1..(n - 1) : s1[h] = Now(f.code[b][h])
      <4> TAKE h \in 1..(n - 1)
      <4>1. h \in 1..(Len(s) - 1)
        BY <3>7
      <4> QED BY <3>7, <3>8, <4>1
    <3>10. \A h \in DOMAIN s1 : h >= n =>
             \/ h = Len(s1)
             \/ \E p \in PhisOf(f) : s1[h] = AllocaOf(p)
             \/ \E p \in PhisOf(f), j \in Nat : s1[h] = StoreOf(p, j) /\ Feeds(p, j, b)
      <4> TAKE h \in DOMAIN s1
      <4>1. CASE h = Len(s) + 1
        BY <3>8, <4>1
      <4>2. CASE h = Len(s)
        BY <1>3, <1>5, <1>8, <3>8, <4>2
      <4>3. CASE h # Len(s) /\ h # Len(s) + 1
        <5>1. h \in DOMAIN s /\ h \in 1..(Len(s) - 1)
          BY <3>7, <3>8, <4>3
        <5>2. s1[h] = s[h]
          BY <3>8, <5>1
        <5> QED BY <3>7, <4>3, <5>1, <5>2
      <4> QED BY <4>1, <4>2, <4>3
    <3>11. \A h : Now(f.code[b][h])' = Now(f.code[b][h])
      BY <1>4, <1>7 DEF Now
    <3>12. \A p, j : Feeds(p, j, b)' <=> Feeds(p, j, b)
      BY <1>4 DEF Feeds
    <3>13. ir'.code[b] = s1 /\ Len(s1) >= n /\ ~IsOut(b)'
      BY <1>4, <1>6, <3>1, <3>3, <3>4, <3>7, <3>8 DEF Storing
    <3> QED BY <1>4, <3>2, <3>9, <3>10, <3>11, <3>12, <3>13 DEF BlockOK
  <2> QED BY <1>4, <2>1, <2>2 DEF PlacesOK
<1>10. OperandsOK'
  <2>1. InstrsOf(f) \subseteq DOMAIN ir.operands
    BY DEF IInv, NamesOK
  <2> QED BY <1>4, <1>6, <1>7, <2>1 DEF ShapeOK, OperandsOK, Now, Storing
<1>11. CreatedOK'
  <2> SUFFICES ASSUME NEW p \in PhisOf(f)
               PROVE  /\ p \in Loaded => LoadOf(p) \in DOMAIN ir'.operands /\ ir'.operands[LoadOf(p)] = <<AllocaOf(p)>>
                      /\ \A j \in Nat : StoreOf(p, j) \in DOMAIN ir'.operands =>
                           ir'.operands[StoreOf(p, j)] = <<ir'.operands[p][j], AllocaOf(p)>>
    BY <1>4, <1>7, Zenon DEF CreatedOK
  <2>1. p \in DOMAIN ir.operands /\ ir'.operands[p] = ir.operands[p]
    BY <1>4, <1>6, Phis DEF IInv, NamesOK, Storing
  <2>2. ASSUME p \in Loaded PROVE LoadOf(p) \in DOMAIN ir'.operands /\ ir'.operands[LoadOf(p)] = <<AllocaOf(p)>>
    BY <1>6, <2>2 DEF ShapeOK, CreatedOK, Storing
  <2>3. ASSUME NEW j \in Nat, StoreOf(p, j) \in DOMAIN ir'.operands
        PROVE  ir'.operands[StoreOf(p, j)] = <<ir'.operands[p][j], AllocaOf(p)>>
    <3>1. CASE StoreOf(p, j) \in DOMAIN ir.operands
      BY <1>6, <2>1, <2>3, <3>1 DEF ShapeOK, CreatedOK, Storing
    <3>2. CASE StoreOf(p, j) \notin DOMAIN ir.operands
      <4>1. StoreOf(p, j) = st
        BY <1>6, <2>3, <3>2 DEF Storing
      <4>2. p = phi /\ j = i
        BY <1>3, <4>1 DEF StoreOf
      <4> QED BY <1>6, <2>1, <4>1, <4>2 DEF Storing
    <3> QED BY <3>1, <3>2
  <2> QED BY <2>2, <2>3
<1>12. StoresOK'
  <2> SUFFICES ASSUME NEW p \in PhisOf(f), NEW j \in Nat, NEW c \in Range(f.bbs), Feeds(p, j, c), Stored(p, j)'
               PROVE  StoreOf(p, j) \in Range(ir'.code[c])
    BY <1>4 DEF StoresOK, Feeds
  <2>1. \A e \in Block : \A x : x \in Range(ir.code[e]) => x \in Range(ir'.code[e])
    BY <1>6 DEF Storing
  <2>2. c \in Block
    BY <1>4, Lists
  <2>3. CASE Stored(p, j)
    BY <2>1, <2>2, <2>3 DEF ShapeOK, StoresOK
  <2>4. CASE ~Stored(p, j)
    <3>1. p = phi /\ j < i + 2 /\ ~(j < i)
      BY <1>4, <2>4 DEF Stored
    <3>2. j = i
      BY <1>5, <3>1 DEF Feeds
    <3>3. c = b
      BY <1>8, <3>1, <3>2 DEF Feeds
    <3> QED BY <1>3, <1>6, <3>1, <3>2, <3>3 DEF Storing
  <2> QED BY <2>3, <2>4
<1> QED BY <1>4, <1>9, <1>10, <1>11, <1>12 DEF ShapeOK

LEMMA ShapeKept ==
  ASSUME IInv, ShapeOK, [Next]_vars
  PROVE  ShapeOK'
<1>1. CASE Compile
  BY <1>1, StoreLoopKeepsShape, TakeTerminatorKeepsShape, CollectPhisKeepsShape, ReplacePhiKeepsShape,
     ReturnTerminatorKeepsShape, StoreOperandKeepsShape DEF Compile, NextPass
<1>2. CASE UNCHANGED pass
  BY <1>2 DEF pass, ShapeOK, PlacesOK, BlockOK, OperandsOK, CreatedOK, StoresOK, Loaded, Collected, Stored,
              Now, IsOut, Feeds, entry
<1> QED BY <1>1, <1>2 DEF Next, Execute, vars

-----------------------------------------------------------------------------
\* The code when the pass is done. The first c instructions of block b, with n
\* instructions once and m now, are phis; loads stand for them, and between the rest and
\* the terminator there are allocas and the stores for phis elsewhere.
Laid(b, c, n, m) ==
  /\ c \in Nat /\ n \in Nat /\ m \in Nat /\ c < n /\ n <= m
  /\ n = Len(f.code[b]) /\ DOMAIN f.code[b] = 1..n
  /\ m = Len(ir.code[b]) /\ DOMAIN ir.code[b] = 1..m
  /\ \A h, l \in 1..n : f.code[b][h] = f.code[b][l] => h = l
  /\ \A h \in 1..c : f.code[b][h] \in PhisOf(f) /\ ir.code[b][h] = LoadOf(f.code[b][h])
  /\ \A h \in 1..n : h > c /\ h < n => ir.code[b][h] = f.code[b][h] /\ f.code[b][h][1] = "op"
  /\ ir.code[b][m] = f.code[b][n] /\ f.code[b][n][1] \in {"br", "ret"}
  /\ \A h \in 1..m : h >= n /\ h < m =>
       \/ \E p \in PhisOf(f) : ir.code[b][h] = AllocaOf(p)
       \/ \E p \in PhisOf(f), j \in Nat : ir.code[b][h] = StoreOf(p, j) /\ Feeds(p, j, b)

LEMMA AllDone ==
  ASSUME IInv, ShapeOK, pc = "done"
  PROVE  Loaded = PhisOf(f) /\ \A p, j : Stored(p, j)
<1>1. f \in Functions /\ k = Len(f.bbs) /\ its = << >> /\ phi = << >> /\ left = {}
  BY DEF IInv, LoopsOK, ShapeOK
<1>2. Range(its) = {}
  BY <1>1 DEF Range
<1> QED BY <1>1, <1>2, AllCollected DEF Loaded, Stored

\* The phis of a block are its first instructions.
LEMMA PhisFirst ==
  ASSUME f \in Functions, NEW b \in Range(f.bbs), NEW n \in Nat, n >= 1, n = Len(f.code[b]),
         DOMAIN f.code[b] = 1..n
  PROVE  \E c \in Nat : c < n /\ \A h \in 1..n : IsPhi(f.code[b][h]) <=> h <= c
<1>1. \A h \in 1..n : /\ IsTerminator(f.code[b][h]) <=> h = n
                      /\ IsPhi(f.code[b][h]) /\ h > 1 => IsPhi(f.code[b][h - 1])
  BY Reads
<1> DEFINE T == {h \in 1..n : ~IsPhi(f.code[b][h])}
<1>2. n \in T /\ T \in SUBSET Nat
  BY <1>1 DEF IsTerminator, IsPhi
<1>3. PICK g \in T : \A h \in T : g <= h
  <2> HIDE DEF T
  <2> QED BY <1>2, Least
<1>4. g \in 1..n /\ ~IsPhi(f.code[b][g]) /\ \A h \in 1..n : h < g => IsPhi(f.code[b][h])
  BY <1>3
<1>5. \A h \in 1..n : h >= g => ~IsPhi(f.code[b][h])
  <2> DEFINE U == {h \in 1..n : h >= g /\ IsPhi(f.code[b][h])}
  <2> SUFFICES ASSUME U # {} PROVE FALSE
    OBVIOUS
  <2>1. U \in SUBSET Nat
    OBVIOUS
  <2>2. PICK u \in U : \A h \in U : u <= h
    <3> HIDE DEF U
    <3> QED BY <2>1, Least
  <2>3. u \in 1..n /\ u > g /\ IsPhi(f.code[b][u])
    BY <1>4, <2>2
  <2>4. u - 1 \in 1..n /\ u - 1 >= g /\ IsPhi(f.code[b][u - 1])
    BY <1>1, <1>4, <2>3
  <2>5. u - 1 \in U
    BY <2>4
  <2> HIDE DEF U
  <2> QED BY <2>2, <2>3, <2>5
<1>6. g - 1 \in Nat /\ g - 1 < n
  BY <1>4
<1>7. \A h \in 1..n : IsPhi(f.code[b][h]) <=> h <= g - 1
  BY <1>4, <1>5
<1> QED BY <1>6, <1>7

LEMMA Layout ==
  ASSUME IInv, ShapeOK, pc = "done", NEW b \in Range(f.bbs)
  PROVE  \E c, n, m : Laid(b, c, n, m)
<1>1. PICK n : n = Len(f.code[b])
  OBVIOUS
<1>2. PICK m : m = Len(ir.code[b])
  OBVIOUS
<1>3. f \in Functions /\ ~IsOut(b)
  BY DEF IInv, IsOut
<1>4. /\ n \in Nat /\ n >= 1 /\ DOMAIN f.code[b] = 1..n /\ LastOf(b) = f.code[b][n]
      /\ \A h \in 1..n : f.code[b][h] \in InstrsOf(f)
      /\ m \in Nat /\ DOMAIN ir.code[b] = 1..m /\ LastOf(b)[1] \in {"br", "ret"}
  BY <1>1, <1>2, Block_
<1>5. PICK c \in Nat : c < n /\ \A h \in 1..n : IsPhi(f.code[b][h]) <=> h <= c
  BY <1>1, <1>3, <1>4, PhisFirst
<1>6. /\ n <= m
      /\ \A h \in 1..(n - 1) : ir.code[b][h] = Now(f.code[b][h])
      /\ \A h \in 1..m : h >= n =>
           \/ h = m
           \/ \E p \in PhisOf(f) : ir.code[b][h] = AllocaOf(p)
           \/ \E p \in PhisOf(f), j \in Nat : ir.code[b][h] = StoreOf(p, j) /\ Feeds(p, j, b)
  BY <1>1, <1>2, <1>3, <1>4 DEF ShapeOK, PlacesOK, BlockOK
<1>7. \A h, l \in 1..n : f.code[b][h] = f.code[b][l] => h = l
  <2>1. b \in Block /\ IsInjective(f.code[b])
    BY <1>3, Lists
  <2> QED BY <1>4, <2>1 DEF IsInjective
<1>8. ASSUME NEW h \in 1..c PROVE f.code[b][h] \in PhisOf(f) /\ ir.code[b][h] = LoadOf(f.code[b][h])
  <2>1. h \in 1..n /\ h \in 1..(n - 1)
    BY <1>4, <1>5
  <2>2. IsPhi(f.code[b][h])
    BY <1>5, <2>1
  <2>3. f.code[b][h] \in PhisOf(f)
    BY <1>4, <2>1, <2>2 DEF PhisOf
  <2> QED BY <1>6, <2>1, <2>3, AllDone DEF Now
<1>9. ASSUME NEW h \in 1..n, h > c, h < n PROVE ir.code[b][h] = f.code[b][h] /\ f.code[b][h][1] = "op"
  <2>1. h \in 1..(n - 1) /\ ~IsPhi(f.code[b][h])
    BY <1>4, <1>5, <1>9
  <2>2. f.code[b][h] \notin Loaded
    BY <2>1, AllDone DEF PhisOf
  <2>3. f.code[b][h][1] \in {"phi", "op", "br", "ret"}
    <3>1. f.code[b][h] \in InstrsOf(f) /\ f.code[b][h] \in ValuesOf(f)
      BY <1>3, <1>4, Kinds
    <3> QED BY <1>3, <3>1, Reads
  <2>4. ~IsTerminator(f.code[b][h])
    BY <1>1, <1>3, <1>4, <1>9, Reads
  <2> QED BY <1>6, <2>1, <2>2, <2>3, <2>4 DEF Now, IsPhi, IsTerminator
<1>10. ir.code[b][m] = f.code[b][n]
  BY <1>2, <1>3, <1>4, LastOnly DEF ShapeOK
<1>11. \A h \in 1..m : h >= n /\ h < m =>
           \/ \E p \in PhisOf(f) : ir.code[b][h] = AllocaOf(p)
           \/ \E p \in PhisOf(f), j \in Nat : ir.code[b][h] = StoreOf(p, j) /\ Feeds(p, j, b)
  BY <1>4, <1>6
<1>12. Laid(b, c, n, m)
  BY <1>1, <1>2, <1>4, <1>5, <1>6, <1>7, <1>8, <1>9, <1>10, <1>11 DEF Laid
<1> QED BY <1>12

-----------------------------------------------------------------------------
\* Where an execution of the function as it was is, and what is in a cell, when the
\* code after the pass is at instruction l of block b.
AheadAt(b, l) == {j \in DOMAIN f.code[b] : /\ ~IsPhi(f.code[b][j])
                                           /\ \E h \in DOMAIN ir.code[b] : h >= l /\ ir.code[b][h] = f.code[b][j]}
OldAt(b, l) == IF AheadAt(b, l) = {} THEN Len(f.code[b]) + 1
               ELSE CHOOSE j \in AheadAt(b, l) : \A h \in AheadAt(b, l) : j <= h
CellAt(p, b, l) == \E h \in DOMAIN ir.code[b] : h >= l /\ ir.code[b][h] = LoadOf(p)

\* The place in the code after the pass of what is no phi.
LEMMA PlaceOfOld ==
  ASSUME NEW b, NEW c, NEW n, NEW m, Laid(b, c, n, m), NEW j \in 1..n, j > c, NEW h \in 1..m
  PROVE  ir.code[b][h] = f.code[b][j] <=> h = (IF j < n THEN j ELSE m)
<1>1. /\ c \in Nat /\ n \in Nat /\ m \in Nat /\ c < n /\ n <= m
      /\ \A g, l \in 1..n : f.code[b][g] = f.code[b][l] => g = l
      /\ \A g \in 1..c : ir.code[b][g] = LoadOf(f.code[b][g])
      /\ \A g \in 1..n : g > c /\ g < n => ir.code[b][g] = f.code[b][g] /\ f.code[b][g][1] = "op"
      /\ ir.code[b][m] = f.code[b][n] /\ f.code[b][n][1] \in {"br", "ret"}
      /\ \A g \in 1..m : g >= n /\ g < m => ir.code[b][g][1] \in {"alloca", "store"}
  <2>1. \A g \in 1..m : g >= n /\ g < m => ir.code[b][g][1] \in {"alloca", "store"}
    BY DEF Laid, AllocaOf, StoreOf
  <2> QED BY <2>1 DEF Laid
<1>2. f.code[b][j][1] \in {"op", "br", "ret"}
  <2>1. CASE j < n
    BY <1>1, <2>1
  <2>2. CASE ~(j < n)
    <3>1. j = n
      BY <1>1, <2>2
    <3> QED BY <1>1, <3>1
  <2> QED BY <2>1, <2>2
<1>3. CASE h <= c
  <2>1. ir.code[b][h][1] = "load"
    BY <1>1, <1>3 DEF LoadOf
  <2> QED BY <1>1, <1>2, <1>3, <2>1
<1>4. CASE h > c /\ h < n
  <2>1. h \in 1..n /\ ir.code[b][h] = f.code[b][h]
    BY <1>1, <1>4
  <2>2. ir.code[b][h] = f.code[b][j] <=> h = j
    BY <1>1, <2>1
  <2> QED BY <1>1, <1>4, <2>2
<1>5. CASE h >= n /\ h < m
  <2>1. ir.code[b][h][1] \in {"alloca", "store"}
    BY <1>1, <1>5
  <2> QED BY <1>1, <1>2, <1>5, <2>1
<1>6. CASE h = m
  <2>1. n \in 1..n
    BY <1>1
  <2>2. ir.code[b][h] = f.code[b][j] <=> j = n
    BY <1>1, <1>6, <2>1
  <2> QED BY <1>1, <1>6, <2>2
<1> QED BY <1>1, <1>3, <1>4, <1>5, <1>6

LEMMA OldAtIs ==
  ASSUME NEW b, NEW c, NEW n, NEW m, Laid(b, c, n, m), NEW l \in Nat, l >= 1
  PROVE  OldAt(b, l) = IF l > m THEN n + 1 ELSE IF l >= n THEN n ELSE IF l <= c THEN c + 1 ELSE l
<1>1. /\ c \in Nat /\ n \in Nat /\ m \in Nat /\ c < n /\ n <= m
      /\ n = Len(f.code[b]) /\ DOMAIN f.code[b] = 1..n /\ DOMAIN ir.code[b] = 1..m
      /\ n \in 1..n /\ m \in 1..m
  BY DEF Laid
<1>2. \A j \in 1..n : IsPhi(f.code[b][j]) <=> j <= c
  <2> TAKE j \in 1..n
  <2>1. CASE j <= c
    BY <1>1, <2>1 DEF Laid, PhisOf
  <2>2. CASE j > c
    BY <1>1, <2>2 DEF Laid, IsPhi
  <2> QED BY <1>1, <2>1, <2>2
<1>3. \A j : j \in AheadAt(b, l) <=> j \in 1..n /\ j > c /\ (IF j < n THEN j >= l ELSE m >= l)
  <2> TAKE j
  <2>1. CASE j \in 1..n /\ j > c
    <3>1. \A h \in 1..m : ir.code[b][h] = f.code[b][j] <=> h = (IF j < n THEN j ELSE m)
      BY <2>1, PlaceOfOld
    <3>2. (IF j < n THEN j ELSE m) \in 1..m
      BY <1>1, <2>1
    <3>3. (\E h \in 1..m : h >= l /\ ir.code[b][h] = f.code[b][j]) <=> (IF j < n THEN j ELSE m) >= l
      BY <3>1, <3>2
    <3> QED BY <1>1, <1>2, <2>1, <3>3 DEF AheadAt
  <2>2. CASE j \notin 1..n \/ ~(j > c)
    BY <1>1, <1>2, <2>2 DEF AheadAt
  <2> QED BY <2>1, <2>2
<1>4. CASE l > m
  <2>1. AheadAt(b, l) = {}
    BY <1>1, <1>3, <1>4
  <2> QED BY <1>1, <1>4, <2>1 DEF OldAt
<1>5. CASE l <= m
  <2>1. PICK o : o = IF l >= n THEN n ELSE IF l <= c THEN c + 1 ELSE l
    OBVIOUS
  <2>2. o \in AheadAt(b, l)
    BY <1>1, <1>3, <1>5, <2>1
  <2>3. \A j \in AheadAt(b, l) : j \in Nat /\ o <= j
    BY <1>1, <1>3, <1>5, <2>1
  <2>4. o \in Nat
    BY <2>2, <2>3
  <2>5. \A j \in AheadAt(b, l) : (\A h \in AheadAt(b, l) : j <= h) => j = o
    BY <2>2, <2>3, <2>4
  <2>6. (CHOOSE j \in AheadAt(b, l) : \A h \in AheadAt(b, l) : j <= h) = o
    BY ONLY <2>2, <2>3, <2>5
  <2>7. OldAt(b, l) = o
    BY <2>2, <2>6 DEF OldAt
  <2> QED BY <1>1, <1>5, <2>1, <2>7
<1> QED BY <1>1, <1>4, <1>5

LEMMA CellAtIs ==
  ASSUME NEW b, NEW c, NEW n, NEW m, Laid(b, c, n, m), NEW l \in Nat, NEW p
  PROVE  CellAt(p, b, l) <=> \E h \in 1..c : h >= l /\ f.code[b][h] = p
<1>1. /\ c \in Nat /\ n \in Nat /\ m \in Nat /\ c < n /\ n <= m /\ DOMAIN ir.code[b] = 1..m
      /\ \A g \in 1..c : ir.code[b][g] = LoadOf(f.code[b][g])
      /\ \A g \in 1..n : g > c /\ g < n => ir.code[b][g][1] = "op"
      /\ ir.code[b][m][1] \in {"br", "ret"}
      /\ \A g \in 1..m : g >= n /\ g < m => ir.code[b][g][1] \in {"alloca", "store"}
  <2>1. \A g \in 1..m : g >= n /\ g < m => ir.code[b][g][1] \in {"alloca", "store"}
    BY DEF Laid, AllocaOf, StoreOf
  <2>2. \A g \in 1..n : g > c /\ g < n => ir.code[b][g][1] = "op"
    BY DEF Laid
  <2> QED BY <2>1, <2>2 DEF Laid
<1>2. \A h \in 1..m : h > c => ir.code[b][h] # LoadOf(p)
  <2> SUFFICES ASSUME NEW h \in 1..m, h > c PROVE ir.code[b][h][1] # "load"
    BY DEF LoadOf
  <2>1. CASE h < n
    BY <1>1, <2>1
  <2>2. CASE h >= n /\ h < m
    BY <1>1, <2>2
  <2>3. CASE h = m
    BY <1>1, <2>3
  <2> QED BY <1>1, <2>1, <2>2, <2>3
<1>3. \A h \in 1..c : h \in 1..m /\ (ir.code[b][h] = LoadOf(p) <=> f.code[b][h] = p)
  BY <1>1 DEF LoadOf
<1>4. \A h \in 1..m : h <= c => h \in 1..c
  BY <1>1
<1>5. \A h \in 1..m : h > c \/ h <= c
  BY <1>1
<1> QED BY <1>1, <1>2, <1>3, <1>4, <1>5 DEF CellAt

LEMMA SameCardinality ==
  \A S : Before!Cardinality(S) = Cardinality(S) /\ After!Cardinality(S) = Cardinality(S)
BY Zenon DEF Before!Cardinality, After!Cardinality, Cardinality

\* Where a branch into the block goes on, before the pass and after it.
LEMMA FirstPlaces ==
  ASSUME NEW b, NEW c, NEW n, NEW m, Laid(b, c, n, m)
  PROVE  /\ Before!Phis(b) = {f.code[b][h] : h \in 1..c} /\ Before!First(b) = c + 1
         /\ After!Phis(b) = {} /\ After!First(b) = 1
<1>1. /\ c \in Nat /\ n \in Nat /\ m \in Nat /\ c < n /\ n <= m
      /\ DOMAIN f.code[b] = 1..n /\ DOMAIN ir.code[b] = 1..m
      /\ \A g, l \in 1..n : f.code[b][g] = f.code[b][l] => g = l
      /\ \A g \in 1..c : f.code[b][g][1] = "phi" /\ ir.code[b][g][1] = "load"
      /\ \A g \in 1..n : g > c /\ g < n => ir.code[b][g][1] = "op" /\ f.code[b][g][1] = "op"
      /\ ir.code[b][m][1] \in {"br", "ret"} /\ f.code[b][n][1] \in {"br", "ret"}
      /\ \A g \in 1..m : g >= n /\ g < m => ir.code[b][g][1] \in {"alloca", "store"}
  <2>1. \A g \in 1..m : g >= n /\ g < m => ir.code[b][g][1] \in {"alloca", "store"}
    BY DEF Laid, AllocaOf, StoreOf
  <2>2. \A g \in 1..c : f.code[b][g][1] = "phi" /\ ir.code[b][g][1] = "load"
    BY DEF Laid, LoadOf, PhisOf, IsPhi
  <2>3. \A g \in 1..n : g > c /\ g < n => ir.code[b][g][1] = "op" /\ f.code[b][g][1] = "op"
    BY DEF Laid
  <2> QED BY <2>1, <2>2, <2>3 DEF Laid
<1>2. \A h \in 1..n : f.code[b][h][1] = "phi" <=> h \in 1..c
  <2> TAKE h \in 1..n
  <2>1. CASE h <= c
    BY <1>1, <2>1
  <2>2. CASE h > c /\ h < n
    BY <1>1, <2>2
  <2>3. CASE h = n
    BY <1>1, <2>3
  <2> QED BY <1>1, <2>1, <2>2, <2>3
<1>3. \A h \in 1..m : ir.code[b][h][1] # "phi"
  <2> TAKE h \in 1..m
  <2>1. CASE h <= c
    BY <1>1, <2>1
  <2>2. CASE h > c /\ h < n
    BY <1>1, <2>2
  <2>3. CASE h >= n /\ h < m
    BY <1>1, <2>3
  <2>4. CASE h = m
    BY <1>1, <2>4
  <2> QED BY <1>1, <2>1, <2>2, <2>3, <2>4
<1>4. Before!Phis(b) = {f.code[b][h] : h \in 1..c}
  <2>1. Before!Phis(b) = {x \in {f.code[b][j] : j \in 1..n} : x[1] = "phi"}
    BY <1>1 DEF Before!Phis, Before!Kind
  <2>2. \A h \in 1..c : h \in 1..n
    BY <1>1
  <2> QED BY <1>2, <2>1, <2>2
<1>5. After!Phis(b) = {}
  BY <1>1, <1>3 DEF After!Phis, After!Kind
<1>6. Cardinality({f.code[b][h] : h \in 1..c}) = c
  <2> DEFINE S == {f.code[b][h] : h \in 1..c}
             to == [h \in 1..c |-> f.code[b][h]]
  <2>1. \A h \in 1..c : h \in 1..n
    BY <1>1
  <2>2. to \in [1..c -> S] /\ \A g, l \in 1..c : to[g] = to[l] => g = l
    BY <1>1, <2>1
  <2>3. \A x \in S : \E h \in 1..c : to[h] = x
    OBVIOUS
  <2>4. DOMAIN to = 1..c
    OBVIOUS
  <2> HIDE DEF S, to
  <2>5. to \in Bijection(1..c, S)
    BY <2>2, <2>3, <2>4 DEF Bijection, Injection, Surjection, IsInjective
  <2>6. Cardinality(S) = c
    BY <1>1, <2>5, FS_CountingElements DEF ExistsBijection
  <2> QED BY <2>6 DEF S
<1>7. Before!First(b) = c + 1
  BY <1>4, <1>6, SameCardinality DEF Before!First
<1>8. After!First(b) = 1
  BY <1>5, FS_EmptySet, SameCardinality DEF After!First
<1> QED BY <1>4, <1>5, <1>7, <1>8

-----------------------------------------------------------------------------
V0(v) == Before!Value(v)
V1(v) == After!Value(v)

\* Where the execution is, and that a store that has been executed has left in its cell
\* what the phi reads when the block is left.
Fed ==
  \A h \in DOMAIN ir.code[bb], p \in PhisOf(f), j \in Nat :
    h < line /\ ir.code[bb][h] = StoreOf(p, j) =>
      \E l \in Nat : Feeds(p, l, bb) /\ mem[AllocaOf(p)] = V1(ir.operands[p][l])

RunOK ==
  /\ env \in [Names -> Data]
  /\ mem \in [{AllocaOf(p) : p \in PhisOf(f)} -> Data]
  /\ bb \in Range(f.bbs) /\ line \in Nat /\ line >= 1
  /\ pc # "done" => bb = entry /\ line = 1
  /\ pc = "done" => line <= Len(ir.code[bb]) + 1 /\ Fed

LEMMA LineNow ==
  ASSUME pc = "done"
  PROVE  OldLine = OldAt(bb, line) /\ \A p : StillInCell(p) <=> CellAt(p, bb, line)
<1>1. Ahead = AheadAt(bb, line)
  BY DEF Ahead, AheadAt
<1>2. OldLine = OldAt(bb, line)
  BY <1>1 DEF OldLine, OldAt
<1>3. ASSUME NEW p PROVE StillInCell(p) <=> CellAt(p, bb, line)
  BY DEF StillInCell, CellAt
<1> QED BY <1>2, <1>3

LEMMA LineNext ==
  ASSUME pc = "done", UNCHANGED pass
  PROVE  OldLine' = OldAt(bb', line') /\ \A p : StillInCell(p)' <=> CellAt(p, bb', line')
<1>1. f' = f /\ ir' = ir /\ pc' = "done"
  BY DEF pass
<1>2. Ahead' = AheadAt(bb', line')
  BY <1>1 DEF Ahead, AheadAt
<1>3. OldLine' = OldAt(bb', line')
  BY <1>1, <1>2 DEF OldLine, OldAt
<1>4. ASSUME NEW p PROVE StillInCell(p)' <=> CellAt(p, bb', line')
  BY <1>1 DEF StillInCell, CellAt
<1> QED BY <1>3, <1>4

\* What is executed where.
LEMMA Executing ==
  ASSUME RunOK, pc = "done", NEW c, NEW n, NEW m, Laid(bb, c, n, m), NEW kind, After!Executes(kind)
  PROVE  /\ line \in 1..m /\ After!instr = ir.code[bb][line] /\ ir.code[bb][line][1] = kind
         /\ kind # "call"
         /\ kind = "load" => line <= c
         /\ kind = "op" => c < line /\ line < n
         /\ kind \in {"alloca", "store"} => n <= line /\ line < m
         /\ kind \in {"br", "ret"} => line = m
<1>1. /\ c \in Nat /\ n \in Nat /\ m \in Nat /\ c < n /\ n <= m /\ m = Len(ir.code[bb])
      /\ \A g \in 1..c : ir.code[bb][g][1] = "load"
      /\ \A g \in 1..n : g > c /\ g < n => ir.code[bb][g][1] = "op"
      /\ ir.code[bb][m][1] \in {"br", "ret"}
      /\ \A g \in 1..m : g >= n /\ g < m => ir.code[bb][g][1] \in {"alloca", "store"}
  <2>1. \A g \in 1..c : ir.code[bb][g][1] = "load"
    BY DEF Laid, LoadOf
  <2>2. \A g \in 1..m : g >= n /\ g < m => ir.code[bb][g][1] \in {"alloca", "store"}
    BY DEF Laid, AllocaOf, StoreOf
  <2> QED BY <2>1, <2>2 DEF Laid
<1>2. line \in 1..m /\ After!instr = ir.code[bb][line] /\ ir.code[bb][line][1] = kind
  BY <1>1 DEF After!Executes, After!instr, After!Kind, RunOK
<1>3. CASE line <= c
  <2>1. kind = "load"
    BY <1>1, <1>2, <1>3
  <2> QED BY <1>2, <1>3, <2>1
<1>4. CASE line > c /\ line < n
  <2>1. kind = "op"
    BY <1>1, <1>2, <1>4
  <2> QED BY <1>1, <1>2, <1>4, <2>1
<1>5. CASE line >= n /\ line < m
  <2>1. kind \in {"alloca", "store"}
    BY <1>1, <1>2, <1>5
  <2> QED BY <1>1, <1>2, <1>5, <2>1
<1>6. CASE line = m
  <2>1. kind \in {"br", "ret"}
    BY <1>1, <1>2, <1>6
  <2> QED BY <1>1, <1>2, <1>6, <2>1
<1> QED BY <1>1, <1>2, <1>3, <1>4, <1>5, <1>6

\* The value of an operand that is no block, whose name the pass may have changed.
LEMMA Operand ==
  ASSUME IInv, ShapeOK, RunOK, pc = "done", NEW x \in InstrsOf(f), NEW j \in DOMAIN f.operands[x],
         ~NamesBlock(x, f.operands[x], j), NEW v, v = f.operands[x][j]
  PROVE  /\ ir.operands[x][j] = Now(v) /\ V1(Now(v)) \in Data
         /\ ~(IsPhi(v) /\ StillInCell(v)) => V0(v) = V1(Now(v))
<1>1. f \in Functions /\ Loaded = PhisOf(f)
  BY AllDone DEF IInv
<1>2. v[1] \in {"arg", "const", "op", "phi"} /\ v \in ValuesOf(f)
  <2>1. v[1] \in {"arg", "const", "op", "phi"} /\ f.operands[x] \in Seq(ValuesOf(f))
    BY <1>1, Reads
  <2> QED BY <2>1
<1>3. ir.operands[x][j] = Now(v)
  BY DEF ShapeOK, OperandsOK
<1>4. CASE v[1] = "const"
  <2>1. Now(v) = v
    BY <1>1, <1>4 DEF Now, PhisOf, IsPhi
  <2>2. v[2] \in Data
    BY <1>1, <1>2, <1>4, DataAssumption
  <2>3. V1(v) = v[2] /\ V0(v) = v[2]
    BY <1>4, Zenon DEF V0, V1, Before!Value, Before!Kind, After!Value, After!Kind
  <2> QED BY <1>3, <2>1, <2>2, <2>3
<1>5. CASE v[1] \in {"arg", "op"}
  <2>1. Now(v) = v
    BY <1>1, <1>5 DEF Now, PhisOf, IsPhi
  <2>2. v \in Names /\ v \in OldNames /\ ~IsPhi(v) /\ v[1] # "const"
    BY <1>2, <1>5 DEF Names, OldNames, IsPhi
  <2>3. V1(v) = env[v] /\ V0(v) = env[v]
    BY <2>2 DEF V0, V1, Before!Value, Before!Kind, After!Value, After!Kind, OldValue
  <2>4. env[v] \in Data
    BY <2>2 DEF RunOK
  <2> QED BY <1>3, <2>1, <2>3, <2>4
<1>6. CASE v[1] = "phi"
  <2>1. v \in PhisOf(f) /\ IsPhi(v)
    <3>1. v \in InstrsOf(f)
      BY <1>1, <1>2, <1>6, Reads
    <3> QED BY <1>6, <3>1 DEF PhisOf, IsPhi
  <2>2. Now(v) = LoadOf(v) /\ LoadOf(v) \in Names /\ v \in OldNames
    BY <1>1, <1>2, <1>6, <2>1 DEF Now, Names, OldNames
  <2>3. V1(LoadOf(v)) = env[LoadOf(v)]
    BY DEF V1, After!Value, After!Kind, LoadOf
  <2>4. ~StillInCell(v) => V0(v) = env[LoadOf(v)]
    BY <1>6, <2>1, <2>2 DEF V0, Before!Value, Before!Kind, OldValue
  <2>5. env[LoadOf(v)] \in Data
    BY <2>2 DEF RunOK
  <2> QED BY <1>3, <2>1, <2>2, <2>3, <2>4, <2>5
<1> QED BY <1>2, <1>4, <1>5, <1>6

\* Beyond the loads no value is in its cell only.
LEMMA NoneInCell ==
  ASSUME RunOK, pc = "done", NEW c, NEW n, NEW m, Laid(bb, c, n, m), line > c
  PROVE  \A p : ~StillInCell(p)
<1>1. line \in Nat /\ c \in Nat
  BY DEF RunOK, Laid
<1> QED BY <1>1, LineNow, CellAtIs

\* An instruction the function had before reads the same values.
LEMMA ReadsAgree ==
  ASSUME IInv, ShapeOK, RunOK, pc = "done", NEW c, NEW n, NEW m, Laid(bb, c, n, m), line > c,
         NEW x \in InstrsOf(f), After!instr = x, Before!instr = x,
         NEW N, \A j \in 1..N : j \in DOMAIN f.operands[x] /\ ~NamesBlock(x, f.operands[x], j)
  PROVE  /\ Before!Observed(N) = After!Observed(N)
         /\ \A j \in 1..N : Before!Value(Before!rand(j)) = After!Value(After!rand(j))
<1>1. ASSUME NEW j \in 1..N PROVE Before!Value(Before!rand(j)) = After!Value(After!rand(j))
  <2>1. PICK v : v = f.operands[x][j]
    OBVIOUS
  <2>2. V0(v) = V1(Now(v)) /\ ir.operands[x][j] = Now(v)
    BY <2>1, NoneInCell, Operand
  <2>3. Before!rand(j) = v /\ After!rand(j) = Now(v)
    BY <2>1, <2>2 DEF Before!rand, After!rand
  <2> QED BY <2>2, <2>3, Zenon DEF V0, V1
<1>2. [j \in 1..N |-> Before!Value(Before!rand(j))] = [j \in 1..N |-> After!Value(After!rand(j))]
  BY <1>1
<1>3. Before!Observed(N) = After!Observed(N)
  BY <1>2 DEF Before!Observed, After!Observed
<1> QED BY <1>1, <1>3

LEMMA StorePlace ==
  ASSUME NEW b, NEW c, NEW n, NEW m, Laid(b, c, n, m), NEW h \in 1..m, ir.code[b][h][1] = "store"
  PROVE  n <= h /\ h < m
<1>1. /\ c \in Nat /\ n \in Nat /\ m \in Nat /\ c < n /\ n <= m
      /\ \A g \in 1..n : g > c /\ g < n => ir.code[b][g][1] = "op"
      /\ ir.code[b][m][1] \in {"br", "ret"}
  BY DEF Laid
<1>2. \A g \in 1..c : ir.code[b][g][1] = "load"
  BY DEF Laid, LoadOf
<1>3. ~(h <= c)
  BY <1>1, <1>2
<1>4. ~(h > c /\ h < n)
  BY <1>1
<1>5. h # m
  BY <1>1
<1> QED BY <1>1, <1>3, <1>4, <1>5

-----------------------------------------------------------------------------
\* The values of the function as it was.
OldEnv == [v \in OldNames |-> OldValue(v)]

\* What a step does to them that goes from line on to the next instruction of the block.
LEMMA NextLine ==
  ASSUME IInv, ShapeOK, RunOK, pc = "done", NEW c, NEW n, NEW m, Laid(bb, c, n, m),
         UNCHANGED pass, bb' = bb, line' = line + 1, line <= m
  PROVE  /\ OldLine = IF line >= n THEN n ELSE IF line <= c THEN c + 1 ELSE line
         /\ OldLine' = IF line = m THEN n + 1 ELSE IF line + 1 >= n THEN n
                       ELSE IF line + 1 <= c THEN c + 1 ELSE line + 1
         /\ \A p : StillInCell(p) <=> \E h \in 1..c : h >= line /\ f.code[bb][h] = p
         /\ \A p : StillInCell(p)' <=> \E h \in 1..c : h >= line + 1 /\ f.code[bb][h] = p
<1>1. c \in Nat /\ n \in Nat /\ m \in Nat /\ c < n /\ n <= m /\ line \in Nat /\ line >= 1
  BY DEF Laid, RunOK
<1>2. line + 1 \in Nat /\ line + 1 >= 1
  BY <1>1
<1>3. OldLine = IF line > m THEN n + 1 ELSE IF line >= n THEN n ELSE IF line <= c THEN c + 1 ELSE line
  BY <1>1, LineNow, OldAtIs
<1>4. OldLine' = OldAt(bb, line + 1)
  BY LineNext
<1>5. OldAt(bb, line + 1) = IF line + 1 > m THEN n + 1 ELSE IF line + 1 >= n THEN n
                            ELSE IF line + 1 <= c THEN c + 1 ELSE line + 1
  BY <1>2, OldAtIs
<1>6. \A p : StillInCell(p) <=> \E h \in 1..c : h >= line /\ f.code[bb][h] = p
  BY <1>1, LineNow, CellAtIs
<1>7. \A p : StillInCell(p)' <=> CellAt(p, bb, line + 1)
  BY LineNext
<1>8. \A p : CellAt(p, bb, line + 1) <=> \E h \in 1..c : h >= line + 1 /\ f.code[bb][h] = p
  BY <1>2, CellAtIs
<1> QED BY <1>1, <1>3, <1>4, <1>5, <1>6, <1>7, <1>8

\* What RunOK says after such a step, if it stores nothing.
LEMMA RunGoesOn ==
  ASSUME IInv, ShapeOK, RunOK, pc = "done", NEW c, NEW n, NEW m, Laid(bb, c, n, m),
         UNCHANGED pass, bb' = bb, line' = line + 1, line <= m, mem' = mem, env' \in [Names -> Data],
         ir.code[bb][line][1] # "store", line < n \/ env' = env
  PROVE  RunOK'
<1>1. f' = f /\ ir' = ir /\ pc' = "done" /\ Names' = Names
  BY DEF pass, Names
<1>2. /\ c \in Nat /\ n \in Nat /\ m \in Nat /\ m = Len(ir.code[bb]) /\ line \in Nat /\ line >= 1
      /\ DOMAIN ir.code[bb] = 1..m
  BY DEF Laid, RunOK
<1>3. Fed'
  <2> SUFFICES ASSUME NEW h \in DOMAIN ir.code[bb], NEW p \in PhisOf(f), NEW j \in Nat,
                      h < line + 1, ir.code[bb][h] = StoreOf(p, j)
               PROVE  \E l \in Nat : Feeds(p, l, bb) /\ mem[AllocaOf(p)] = V1(ir.operands[p][l])'
    BY <1>1 DEF Fed, Feeds
  <2>1. h # line
    BY DEF StoreOf
  <2>2. h < line
    BY <1>2, <2>1
  <2>3. n <= h
    <3>1. ir.code[bb][h][1] = "store"
      BY DEF StoreOf
    <3> QED BY <1>2, <3>1, StorePlace
  <2>4. env' = env
    BY <1>2, <2>2, <2>3
  <2>5. PICK l \in Nat : Feeds(p, l, bb) /\ mem[AllocaOf(p)] = V1(ir.operands[p][l])
    BY <2>2 DEF RunOK, Fed
  <2>6. V1(ir.operands[p][l])' = V1(ir.operands[p][l])
    BY <1>1, <2>4 DEF V1, After!Value, After!Kind
  <2> QED BY <2>5, <2>6
<1>4. /\ env' \in [Names' -> Data] /\ mem' \in [{AllocaOf(p) : p \in PhisOf(f')} -> Data]
      /\ bb' \in Range(f'.bbs) /\ line' \in Nat /\ line' >= 1 /\ line' <= Len(ir'.code[bb']) + 1
  BY <1>1, <1>2 DEF RunOK
<1> QED BY <1>1, <1>3, <1>4 DEF RunOK

LEMMA SameLength ==
  ASSUME IInv, ShapeOK, NEW x \in InstrsOf(f)
  PROVE  Len(ir.operands[x]) = Len(f.operands[x])
<1>1. f.operands[x] \in Seq(ValuesOf(f)) /\ ir.operands[x] \in Seq(DOMAIN ir.use_list)
  BY Reads DEF IInv, NamesOK
<1>2. DOMAIN ir.operands[x] = DOMAIN f.operands[x]
  BY DEF ShapeOK, OperandsOK
<1> QED BY <1>1, <1>2

\* Between the last instruction the function had and the terminator.
LEMMA SameCells ==
  ASSUME IInv, ShapeOK, RunOK, pc = "done", NEW c, NEW n, NEW m, Laid(bb, c, n, m),
         UNCHANGED pass, bb' = bb, line' = line + 1, n <= line, line < m, env' = env
  PROVE  OldLine' = OldLine /\ OldEnv' = OldEnv
<1>1. c \in Nat /\ n \in Nat /\ m \in Nat /\ c < n /\ n <= m /\ line \in Nat /\ line <= m /\ line # m
  BY DEF Laid, RunOK
<1>2. /\ OldLine = IF line >= n THEN n ELSE IF line <= c THEN c + 1 ELSE line
      /\ OldLine' = IF line = m THEN n + 1 ELSE IF line + 1 >= n THEN n
                    ELSE IF line + 1 <= c THEN c + 1 ELSE line + 1
      /\ \A p : StillInCell(p) <=> \E h \in 1..c : h >= line /\ f.code[bb][h] = p
      /\ \A p : StillInCell(p)' <=> \E h \in 1..c : h >= line + 1 /\ f.code[bb][h] = p
  BY <1>1, NextLine
<1>3. OldLine' = OldLine
  BY <1>1, <1>2
<1>4. \A p : ~StillInCell(p) /\ ~StillInCell(p)'
  BY <1>1, <1>2
<1>5. OldNames' = OldNames
  BY DEF OldNames, pass
<1>6. \A v : OldValue(v)' = OldValue(v)
  BY <1>4 DEF OldValue
<1> QED BY <1>3, <1>5, <1>6 DEF OldEnv

-----------------------------------------------------------------------------
\* Each step of an execution after the pass is one of the function before it, or none.
LEMMA OpStep ==
  ASSUME IInv, ShapeOK, RunOK, pc = "done", UNCHANGED pass, After!Op
  PROVE  Before!Op /\ RunOK'
<1>1. f \in Functions /\ bb \in Range(f.bbs) /\ f' = f /\ ir' = ir
  BY DEF IInv, RunOK, pass
<1>2. PICK c, n, m : Laid(bb, c, n, m)
  BY <1>1, Layout
<1>3. PICK x : x = ir.code[bb][line]
  OBVIOUS
<1>4. /\ After!Executes("op") /\ seen' = After!Observed(Len(ir.operands[After!instr]))
      /\ line' = line + 1 /\ bb' = bb /\ mem' = mem
      /\ \E d \in Data : env' = [env EXCEPT ![After!instr] = d]
  BY DEF After!Op, After!Computes
<1>5. line \in 1..m /\ After!instr = x /\ x[1] = "op" /\ c < line /\ line < n
  BY <1>2, <1>3, <1>4, Executing
<1>6. PICK d \in Data : env' = [env EXCEPT ![x] = d]
  BY <1>4, <1>5
<1>7. c \in Nat /\ n \in Nat /\ m \in Nat /\ n <= m /\ line \in Nat /\ n = Len(f.code[bb])
  BY <1>2 DEF Laid, RunOK
<1>8. line \in 1..n /\ x = f.code[bb][line]
  <2>1. line \in 1..n
    BY <1>5, <1>7
  <2> QED BY <1>2, <1>3, <1>5, <2>1 DEF Laid
<1>9. x \in InstrsOf(f) /\ x \in OldNames /\ x \in Names
  <2>1. x \in InstrsOf(f)
    BY <1>1, <1>7, <1>8, Block_ DEF IInv
  <2>2. x \in ValuesOf(f)
    BY <1>1, <2>1, Kinds
  <2> QED BY <1>5, <2>1, <2>2 DEF OldNames, Names
<1>10. OldLine = line /\ OldLine' = line + 1 /\ \A p : ~StillInCell(p) /\ ~StillInCell(p)'
  <2>1. line <= m /\ line # m
    BY <1>5, <1>7
  <2>2. /\ OldLine = IF line >= n THEN n ELSE IF line <= c THEN c + 1 ELSE line
        /\ OldLine' = IF line = m THEN n + 1 ELSE IF line + 1 >= n THEN n
                      ELSE IF line + 1 <= c THEN c + 1 ELSE line + 1
        /\ \A p : StillInCell(p) <=> \E h \in 1..c : h >= line /\ f.code[bb][h] = p
        /\ \A p : StillInCell(p)' <=> \E h \in 1..c : h >= line + 1 /\ f.code[bb][h] = p
    BY <1>2, <1>4, <2>1, NextLine
  <2> QED BY <1>5, <1>7, <2>1, <2>2
<1>11. Before!instr = x
  BY <1>8, <1>10 DEF Before!instr
<1>12. Before!Executes("op")
  BY <1>5, <1>7, <1>10, <1>11 DEF Before!Executes, Before!Kind
<1>13. Before!Observed(Len(f.operands[x])) = After!Observed(Len(f.operands[x])) /\ Len(ir.operands[x]) = Len(f.operands[x])
  <2>1. \A j \in 1..Len(f.operands[x]) : j \in DOMAIN f.operands[x] /\ ~NamesBlock(x, f.operands[x], j)
    <3>1. f.operands[x] \in Seq(ValuesOf(f))
      BY <1>1, <1>9, Reads
    <3> QED BY <1>5, <3>1 DEF NamesBlock, IsPhi
  <2>2. Before!Observed(Len(f.operands[x])) = After!Observed(Len(f.operands[x]))
    BY <1>2, <1>5, <1>9, <1>11, <2>1, ReadsAgree
  <2> QED BY <1>9, <2>2, SameLength
<1>14. OldEnv' = [OldEnv EXCEPT ![x] = d]
  <2>1. OldNames' = OldNames
    BY <1>1 DEF OldNames
  <2>2. ASSUME NEW v \in OldNames PROVE OldValue(v)' = IF v = x THEN d ELSE OldValue(v)
    <3>1. CASE IsPhi(v)
      <4>1. v # x /\ LoadOf(v) # x
        BY <1>5, <3>1 DEF IsPhi, LoadOf
      <4>2. env'[LoadOf(v)] = env[LoadOf(v)]
        BY <1>6, <4>1 DEF RunOK
      <4> QED BY <1>10, <3>1, <4>1, <4>2 DEF OldValue
    <3>2. CASE ~IsPhi(v)
      <4>1. env'[v] = IF v = x THEN d ELSE env[v]
        <5>1. v \in Names
          BY <2>2, <3>2 DEF OldNames, Names
        <5> QED BY <1>6, <5>1 DEF RunOK
      <4> QED BY <3>2, <4>1 DEF OldValue
    <3> QED BY <3>1, <3>2
  <2> QED BY <2>1, <2>2 DEF OldEnv
<1>15. Before!Op
  <2>1. seen' = Before!Observed(Len(f.operands[x])) /\ OldLine' = OldLine + 1
    BY <1>4, <1>5, <1>10, <1>13
  <2> QED BY <1>1, <1>4, <1>11, <1>12, <1>14, <2>1 DEF Before!Op, Before!Computes, OldEnv
<1>16. RunOK'
  <2>1. env' \in [Names -> Data]
    BY <1>6 DEF RunOK
  <2> QED BY <1>2, <1>3, <1>4, <1>5, <1>7, <2>1, RunGoesOn
<1> QED BY <1>15, <1>16

LEMMA AllocaStep ==
  ASSUME IInv, ShapeOK, RunOK, pc = "done", UNCHANGED pass, After!Alloca
  PROVE  UNCHANGED Before!state /\ RunOK'
<1>1. f \in Functions /\ bb \in Range(f.bbs) /\ f' = f /\ ir' = ir
  BY DEF IInv, RunOK, pass
<1>2. PICK c, n, m : Laid(bb, c, n, m)
  BY <1>1, Layout
<1>3. After!Executes("alloca") /\ line' = line + 1 /\ bb' = bb /\ mem' = mem /\ env' = env /\ seen' = seen
  BY DEF After!Alloca
<1>4. line \in 1..m /\ ir.code[bb][line][1] = "alloca" /\ n <= line /\ line < m
  BY <1>2, <1>3, Executing
<1>5. OldLine' = OldLine /\ OldEnv' = OldEnv
  BY <1>1, <1>2, <1>3, <1>4, SameCells
<1>6. RunOK'
  <2>1. line <= m /\ env' \in [Names -> Data]
    BY <1>2, <1>3, <1>4 DEF RunOK, Laid
  <2> QED BY <1>2, <1>3, <1>4, <2>1, RunGoesOn
<1> QED BY <1>3, <1>5, <1>6 DEF Before!state, OldEnv

LEMMA LoadStep ==
  ASSUME IInv, ShapeOK, RunOK, pc = "done", UNCHANGED pass, After!Load
  PROVE  UNCHANGED Before!state /\ RunOK'
<1>1. f \in Functions /\ bb \in Range(f.bbs) /\ f' = f /\ ir' = ir
  BY DEF IInv, RunOK, pass
<1>2. PICK c, n, m : Laid(bb, c, n, m)
  BY <1>1, Layout
<1>3. /\ After!Executes("load") /\ line' = line + 1 /\ bb' = bb /\ mem' = mem /\ seen' = seen
      /\ env' = [env EXCEPT ![After!instr] = mem[After!rand(1)]]
  BY DEF After!Load
<1>4. line \in 1..m /\ After!instr = ir.code[bb][line] /\ line <= c /\ ir.code[bb][line][1] = "load"
  BY <1>2, <1>3, Executing
<1>5. c \in Nat /\ n \in Nat /\ m \in Nat /\ c < n /\ n <= m /\ line \in 1..c /\ line \in Nat
  BY <1>2, <1>4 DEF Laid, RunOK
<1>6. PICK p : p = f.code[bb][line]
  OBVIOUS
<1>7. p \in PhisOf(f) /\ After!instr = LoadOf(p) /\ \A h \in 1..c : f.code[bb][h] = p => h = line
  <2>1. p \in PhisOf(f) /\ After!instr = LoadOf(p)
    BY <1>2, <1>4, <1>5, <1>6 DEF Laid
  <2>2. \A h \in 1..c : h \in 1..n
    BY <1>5
  <2> QED BY <1>2, <1>5, <1>6, <2>1, <2>2 DEF Laid
<1>8. After!rand(1) = AllocaOf(p)
  <2>1. ir.operands[LoadOf(p)] = <<AllocaOf(p)>>
    BY <1>7, AllDone DEF ShapeOK, CreatedOK
  <2> QED BY <1>7, <2>1 DEF After!rand
<1>9. env' = [env EXCEPT ![LoadOf(p)] = mem[AllocaOf(p)]]
  BY <1>3, <1>7, <1>8
<1>10. LoadOf(p) \in Names /\ mem[AllocaOf(p)] \in Data
  BY <1>7 DEF Names, RunOK
<1>11. /\ OldLine' = OldLine
       /\ \A q : StillInCell(q) <=> \E h \in 1..c : h >= line /\ f.code[bb][h] = q
       /\ \A q : StillInCell(q)' <=> \E h \in 1..c : h >= line + 1 /\ f.code[bb][h] = q
  <2>1. line <= m /\ line # m
    BY <1>5
  <2>2. /\ OldLine = IF line >= n THEN n ELSE IF line <= c THEN c + 1 ELSE line
        /\ OldLine' = IF line = m THEN n + 1 ELSE IF line + 1 >= n THEN n
                      ELSE IF line + 1 <= c THEN c + 1 ELSE line + 1
        /\ \A q : StillInCell(q) <=> \E h \in 1..c : h >= line /\ f.code[bb][h] = q
        /\ \A q : StillInCell(q)' <=> \E h \in 1..c : h >= line + 1 /\ f.code[bb][h] = q
    BY <1>2, <1>3, <2>1, NextLine
  <2> QED BY <1>5, <2>1, <2>2
<1>12. StillInCell(p) /\ ~StillInCell(p)'
  <2>1. \A h \in 1..c : h >= line + 1 => f.code[bb][h] # p
    BY <1>5, <1>7
  <2>2. line >= line
    BY <1>5
  <2> QED BY <1>5, <1>6, <1>11, <2>1, <2>2
<1>13. \A q : q # p => (StillInCell(q)' <=> StillInCell(q))
  <2> SUFFICES ASSUME NEW q, q # p PROVE StillInCell(q)' <=> StillInCell(q)
    OBVIOUS
  <2>1. \A h \in 1..c : f.code[bb][h] = q => (h >= line <=> h >= line + 1)
    <3> TAKE h \in 1..c
    <3>1. f.code[bb][h] = q => h # line
      BY <1>6
    <3> QED BY <1>5, <3>1
  <2> QED BY <1>11, <2>1
<1>14. OldEnv' = OldEnv
  <2>1. OldNames' = OldNames
    BY <1>1 DEF OldNames
  <2>2. ASSUME NEW v \in OldNames PROVE OldValue(v)' = OldValue(v)
    <3>1. CASE IsPhi(v) /\ v = p
      BY <1>9, <1>10, <1>12, <3>1 DEF OldValue, RunOK
    <3>2. CASE IsPhi(v) /\ v # p
      <4>1. env'[LoadOf(v)] = env[LoadOf(v)]
        BY <1>9, <3>2 DEF RunOK, LoadOf
      <4> QED BY <1>3, <1>13, <3>2, <4>1 DEF OldValue
    <3>3. CASE ~IsPhi(v)
      <4>1. v # LoadOf(p)
        BY <2>2 DEF OldNames, LoadOf
      <4>2. env'[v] = env[v]
        BY <1>9, <4>1 DEF RunOK
      <4> QED BY <3>3, <4>2 DEF OldValue
    <3> QED BY <3>1, <3>2, <3>3
  <2> QED BY <2>1, <2>2 DEF OldEnv
<1>15. RunOK'
  <2>1. env' \in [Names -> Data] /\ line <= m /\ line < n
    BY <1>5, <1>9, <1>10 DEF RunOK
  <2> QED BY <1>2, <1>3, <1>4, <2>1, RunGoesOn
<1> QED BY <1>3, <1>11, <1>14, <1>15 DEF Before!state, OldEnv

LEMMA StoreStep ==
  ASSUME IInv, ShapeOK, RunOK, pc = "done", UNCHANGED pass, After!Store
  PROVE  UNCHANGED Before!state /\ RunOK'
<1>1. f \in Functions /\ bb \in Range(f.bbs) /\ bb \in Block /\ f' = f /\ ir' = ir /\ pc' = "done"
  BY Lists DEF IInv, RunOK, pass
<1>2. PICK c, n, m : Laid(bb, c, n, m)
  BY <1>1, Layout
<1>3. /\ After!Executes("store") /\ line' = line + 1 /\ bb' = bb /\ env' = env /\ seen' = seen
      /\ mem' = [mem EXCEPT ![After!rand(2)] = After!Value(After!rand(1))]
  BY DEF After!Store
<1>4. line \in 1..m /\ After!instr = ir.code[bb][line] /\ n <= line /\ line < m /\ ir.code[bb][line][1] = "store"
  BY <1>2, <1>3, Executing
<1>5. PICK p \in PhisOf(f), j \in Nat : ir.code[bb][line] = StoreOf(p, j) /\ Feeds(p, j, bb)
  BY <1>2, <1>4 DEF Laid, AllocaOf
<1>6. ir.operands[StoreOf(p, j)] = <<ir.operands[p][j], AllocaOf(p)>>
  <2>1. StoreOf(p, j) \in DOMAIN ir.operands
    <3>1. ir.code[bb] \in Seq(DOMAIN ir.operands) /\ line \in DOMAIN ir.code[bb]
      BY <1>1, <1>2, <1>4 DEF IInv, CodeOK, Laid
    <3> QED BY <1>5, <3>1
  <2> QED BY <2>1 DEF ShapeOK, CreatedOK
<1>7. After!rand(1) = ir.operands[p][j] /\ After!rand(2) = AllocaOf(p)
  BY <1>4, <1>5, <1>6 DEF After!rand
<1>8. mem' = [mem EXCEPT ![AllocaOf(p)] = V1(ir.operands[p][j])]
  BY <1>3, <1>7 DEF V1
<1>9. V1(ir.operands[p][j]) \in Data
  <2>1. p \in InstrsOf(f) /\ p[1] = "phi" /\ f.operands[p] \in Seq(ValuesOf(f))
    BY <1>1, Phis
  <2>2. j \in DOMAIN f.operands[p]
    BY <1>5, <2>1 DEF Feeds
  <2>3. ~NamesBlock(p, f.operands[p], j)
    BY <1>5, <2>1 DEF Feeds, NamesBlock
  <2> QED BY <2>1, <2>2, <2>3, Operand
<1>10. OldLine' = OldLine /\ OldEnv' = OldEnv
  BY <1>1, <1>2, <1>3, <1>4, SameCells
<1>11. \A q, l : V1(ir.operands[q][l])' = V1(ir.operands[q][l])
  BY <1>1, <1>3 DEF V1, After!Value, After!Kind
<1>12. line \in Nat /\ m = Len(ir.code[bb]) /\ DOMAIN ir.code[bb] = 1..m /\ m \in Nat
  BY <1>2 DEF Laid, RunOK
<1>13. Fed'
  <2> SUFFICES ASSUME NEW h \in DOMAIN ir.code[bb], NEW q \in PhisOf(f), NEW g \in Nat,
                      h < line + 1, ir.code[bb][h] = StoreOf(q, g)
               PROVE  \E l \in Nat : Feeds(q, l, bb) /\ mem'[AllocaOf(q)] = V1(ir.operands[q][l])'
    BY <1>1, <1>3 DEF Fed, Feeds
  <2>1. CASE q = p
    <3>1. mem'[AllocaOf(q)] = V1(ir.operands[q][j])'
      BY <1>8, <1>11, <2>1 DEF RunOK
    <3> QED BY <1>5, <2>1, <3>1
  <2>2. CASE q # p
    <3>1. mem'[AllocaOf(q)] = mem[AllocaOf(q)]
      BY <1>8, <2>2 DEF RunOK, AllocaOf
    <3>2. h # line
      BY <1>5, <2>2 DEF StoreOf
    <3>3. h < line
      BY <1>12, <3>2
    <3>4. PICK l \in Nat : Feeds(q, l, bb) /\ mem[AllocaOf(q)] = V1(ir.operands[q][l])
      BY <3>3 DEF RunOK, Fed
    <3> QED BY <1>11, <3>1, <3>4
  <2> QED BY <2>1, <2>2
<1>14. RunOK'
  <2>1. Names' = Names
    BY <1>1 DEF Names
  <2>2. mem' \in [{AllocaOf(q) : q \in PhisOf(f)} -> Data]
    BY <1>8, <1>9 DEF RunOK
  <2>3. line' \in Nat /\ line' >= 1 /\ line' <= Len(ir'.code[bb']) + 1
    BY <1>1, <1>3, <1>4, <1>12
  <2> QED BY <1>1, <1>3, <1>13, <2>1, <2>2, <2>3 DEF RunOK
<1> QED BY <1>3, <1>10, <1>14 DEF Before!state, OldEnv

LEMMA RetStep ==
  ASSUME IInv, ShapeOK, RunOK, pc = "done", UNCHANGED pass, After!Ret
  PROVE  Before!Ret /\ RunOK'
<1>1. f \in Functions /\ bb \in Range(f.bbs) /\ f' = f /\ ir' = ir
  BY DEF IInv, RunOK, pass
<1>2. PICK c, n, m : Laid(bb, c, n, m)
  BY <1>1, Layout
<1>3. PICK x : x = f.code[bb][n]
  OBVIOUS
<1>4. /\ After!Executes("ret") /\ seen' = After!Observed(Len(ir.operands[After!instr]))
      /\ line' = line + 1 /\ bb' = bb /\ mem' = mem /\ env' = env
  BY DEF After!Ret
<1>5. /\ line = m /\ After!instr = x /\ x[1] = "ret" /\ ir.code[bb][line][1] = "ret"
      /\ c \in Nat /\ n \in Nat /\ m \in Nat /\ c < n /\ n <= m /\ n = Len(f.code[bb])
  <2>1. line = m /\ After!instr = ir.code[bb][line] /\ ir.code[bb][line][1] = "ret"
    BY <1>2, <1>4, Executing
  <2> QED BY <1>2, <1>3, <2>1 DEF Laid
<1>6. x \in InstrsOf(f)
  <2>1. n \in 1..n
    BY <1>5
  <2> QED BY <1>1, <1>3, <1>5, <2>1, Block_
<1>7. OldLine = n /\ OldLine' = n + 1 /\ \A p : ~StillInCell(p) /\ ~StillInCell(p)'
  <2>1. /\ OldLine = IF line >= n THEN n ELSE IF line <= c THEN c + 1 ELSE line
        /\ OldLine' = IF line = m THEN n + 1 ELSE IF line + 1 >= n THEN n
                      ELSE IF line + 1 <= c THEN c + 1 ELSE line + 1
        /\ \A p : StillInCell(p) <=> \E h \in 1..c : h >= line /\ f.code[bb][h] = p
        /\ \A p : StillInCell(p)' <=> \E h \in 1..c : h >= line + 1 /\ f.code[bb][h] = p
    <3>1. line <= m
      BY <1>5
    <3> QED BY <1>2, <1>4, <3>1, NextLine
  <2> QED BY <1>5, <2>1
<1>8. Before!instr = x /\ Before!Executes("ret")
  BY <1>3, <1>5, <1>7 DEF Before!instr, Before!Executes, Before!Kind
<1>9. Before!Observed(Len(f.operands[x])) = After!Observed(Len(f.operands[x])) /\ Len(ir.operands[x]) = Len(f.operands[x])
  <2>1. \A j \in 1..Len(f.operands[x]) : j \in DOMAIN f.operands[x] /\ ~NamesBlock(x, f.operands[x], j)
    <3>1. f.operands[x] \in Seq(ValuesOf(f))
      BY <1>1, <1>6, Reads
    <3> QED BY <1>5, <3>1 DEF NamesBlock, IsPhi
  <2>2. Before!Observed(Len(f.operands[x])) = After!Observed(Len(f.operands[x]))
    <3>1. line > c
      BY <1>5
    <3> QED BY <1>2, <1>5, <1>6, <1>8, <2>1, <3>1, ReadsAgree
  <2> QED BY <1>6, <2>2, SameLength
<1>10. OldEnv' = OldEnv
  <2>1. OldNames' = OldNames
    BY <1>1 DEF OldNames
  <2>2. \A v : OldValue(v)' = OldValue(v)
    BY <1>4, <1>7 DEF OldValue
  <2> QED BY <2>1, <2>2 DEF OldEnv
<1>11. Before!Ret
  <2>1. seen' = Before!Observed(Len(f.operands[x])) /\ OldLine' = OldLine + 1
    BY <1>4, <1>5, <1>7, <1>9
  <2> QED BY <1>1, <1>4, <1>8, <1>10, <2>1 DEF Before!Ret, OldEnv
<1>12. RunOK'
  <2>1. env' \in [Names -> Data] /\ line <= m
    BY <1>4, <1>5 DEF RunOK
  <2> QED BY <1>2, <1>4, <1>5, <2>1, RunGoesOn
<1> QED BY <1>11, <1>12

\* What a phi reads when bb is left is in its cell then.
LEMMA CellFed ==
  ASSUME IInv, ShapeOK, RunOK, pc = "done", NEW c, NEW n, NEW m, Laid(bb, c, n, m), line = m,
         NEW p \in PhisOf(f), Before!Incoming(p) # {}
  PROVE  \E v \in Before!Incoming(p) : mem[AllocaOf(p)] = Before!Value(v)
<1>1. f \in Functions /\ bb \in Range(f.bbs) /\ bb[1] = "bb"
  BY Lists, BlockAssumption DEF IInv, RunOK
<1>2. p \in InstrsOf(f) /\ p[1] = "phi" /\ f.operands[p] \in Seq(ValuesOf(f))
  BY <1>1, Phis
<1>3. Before!Incoming(p) = {f.operands[p][g - 1] : g \in {j \in DOMAIN f.operands[p] : f.operands[p][j] = bb}}
  BY DEF Before!Incoming
<1>4. PICK g \in DOMAIN f.operands[p] : f.operands[p][g] = bb
  BY <1>3
<1>5. g % 2 = 0
  <2> SUFFICES ASSUME g % 2 # 0 PROVE FALSE
    OBVIOUS
  <2>1. ~NamesBlock(p, f.operands[p], g)
    BY <1>2 DEF NamesBlock
  <2>2. f.operands[p][g][1] \in {"arg", "const", "op", "phi"}
    BY <1>1, <1>2, <2>1, Reads
  <2> QED BY <1>1, <1>4, <2>2
<1>6. g \in Nat /\ g >= 1
  BY <1>2
<1>7. g - 1 \in Nat /\ (g - 1) % 2 = 1 /\ (g - 1) + 1 = g
  BY <1>5, <1>6
<1>8. Feeds(p, g - 1, bb)
  BY <1>4, <1>7 DEF Feeds
<1>9. StoreOf(p, g - 1) \in Range(ir.code[bb])
  BY <1>1, <1>7, <1>8, AllDone DEF ShapeOK, StoresOK
<1>10. PICK h \in DOMAIN ir.code[bb] : ir.code[bb][h] = StoreOf(p, g - 1)
  BY <1>9 DEF Range
<1>11. h < line
  <2>1. h \in 1..m /\ ir.code[bb][h][1] = "store"
    BY <1>10 DEF Laid, StoreOf
  <2> QED BY <2>1, StorePlace
<1>12. PICK l \in Nat : Feeds(p, l, bb) /\ mem[AllocaOf(p)] = V1(ir.operands[p][l])
  BY <1>7, <1>10, <1>11 DEF RunOK, Fed
<1>13. l \in DOMAIN f.operands[p] /\ ~NamesBlock(p, f.operands[p], l)
       /\ l + 1 \in DOMAIN f.operands[p] /\ f.operands[p][l + 1] = bb
  BY <1>2, <1>12 DEF Feeds, NamesBlock
<1>14. f.operands[p][l] \in Before!Incoming(p)
  <2>1. (l + 1) - 1 = l
    OBVIOUS
  <2> QED BY <1>3, <1>13, <2>1
<1>15. V0(f.operands[p][l]) = V1(ir.operands[p][l])
  <2>1. line > c
    BY DEF Laid
  <2>2. ~StillInCell(f.operands[p][l])
    BY <2>1, NoneInCell
  <2>3. ir.operands[p][l] = Now(f.operands[p][l]) /\ V0(f.operands[p][l]) = V1(Now(f.operands[p][l]))
    BY <1>2, <1>13, <2>2, Operand
  <2> QED BY <2>3
<1> QED BY <1>12, <1>14, <1>15 DEF V0

LEMMA BranchStep ==
  ASSUME IInv, ShapeOK, RunOK, pc = "done", UNCHANGED pass, After!Branch
  PROVE  Before!Branch /\ RunOK'
<1> DEFINE cond1   == Len(ir.operands[After!instr]) = 3
           target1 == IF ~cond1 THEN After!rand(1)
                      ELSE IF After!Value(After!rand(1)) # 0 THEN After!rand(2) ELSE After!rand(3)
           cond0   == Len(f.operands[Before!instr]) = 3
           target0 == IF ~cond0 THEN Before!rand(1)
                      ELSE IF Before!Value(Before!rand(1)) # 0 THEN Before!rand(2) ELSE Before!rand(3)
<1>1. f \in Functions /\ bb \in Range(f.bbs) /\ f' = f /\ ir' = ir /\ pc' = "done"
  BY DEF IInv, RunOK, pass
<1>2. PICK c, n, m : Laid(bb, c, n, m)
  BY <1>1, Layout
<1>3. PICK x : x = f.code[bb][n]
  OBVIOUS
<1>4. /\ After!Executes("br") /\ mem' = mem
      /\ seen' = After!Observed(IF cond1 THEN 1 ELSE 0)
      /\ bb' = target1 /\ line' = After!First(target1)
      /\ \E new \in [After!Phis(target1) -> Data] :
           env' = [v \in DOMAIN env |-> IF v \in After!Phis(target1) THEN new[v] ELSE env[v]]
  BY DEF After!Branch
<1>5. /\ line = m /\ After!instr = x /\ x[1] = "br"
      /\ c \in Nat /\ n \in Nat /\ m \in Nat /\ c < n /\ n <= m /\ n = Len(f.code[bb])
  <2>1. line = m /\ After!instr = ir.code[bb][line] /\ ir.code[bb][line][1] = "br"
    BY <1>2, <1>4, Executing
  <2> QED BY <1>2, <1>3, <2>1 DEF Laid
<1>6. x \in InstrsOf(f)
  <2>1. n \in 1..n
    BY <1>5
  <2> QED BY <1>1, <1>3, <1>5, <2>1, Block_
<1>7. PICK L : L = Len(f.operands[x])
  OBVIOUS
<1>8. L \in {1, 3} /\ Len(ir.operands[x]) = L /\ DOMAIN f.operands[x] = 1..L
  BY <1>1, <1>5, <1>6, <1>7, Reads, SameLength
<1>9. ASSUME NEW j \in 1..L, j > 1 \/ L = 1
      PROVE  f.operands[x][j] \in Range(f.bbs) /\ ir.operands[x][j] = f.operands[x][j]
  <2>1. NamesBlock(x, f.operands[x], j)
    BY <1>5, <1>7, <1>9 DEF NamesBlock
  <2>2. f.operands[x][j] \in Range(f.bbs)
    BY <1>1, <1>6, <1>8, <2>1, Reads
  <2>3. f.operands[x][j][1] = "bb"
    BY <1>1, <2>2, Lists, BlockAssumption
  <2>4. ir.operands[x][j] = Now(f.operands[x][j])
    BY <1>6, <1>8 DEF ShapeOK, OperandsOK
  <2>5. Now(f.operands[x][j]) = f.operands[x][j]
    BY <2>3, AllDone DEF Now, PhisOf, IsPhi
  <2> QED BY <2>2, <2>4, <2>5
<1>10. OldLine = n /\ \A p : ~StillInCell(p)
  <2>1. line \in Nat /\ line >= 1 /\ line > c
    BY <1>5 DEF RunOK
  <2>2. OldAt(bb, line) = IF line > m THEN n + 1 ELSE IF line >= n THEN n ELSE IF line <= c THEN c + 1 ELSE line
    BY <1>2, <2>1, OldAtIs
  <2> QED BY <1>2, <1>5, <2>1, <2>2, LineNow, NoneInCell
<1>11. Before!instr = x /\ Before!Executes("br")
  BY <1>3, <1>5, <1>10 DEF Before!instr, Before!Executes, Before!Kind
<1>12. cond0 = cond1 /\ cond1 = (L = 3)
  BY <1>5, <1>7, <1>8, <1>11
<1>13. /\ Before!Observed(IF cond1 THEN 1 ELSE 0) = After!Observed(IF cond1 THEN 1 ELSE 0)
       /\ cond1 => Before!Value(Before!rand(1)) = After!Value(After!rand(1))
  <2>1. PICK N : N = IF cond1 THEN 1 ELSE 0
    OBVIOUS
  <2>2. \A j \in 1..N : j \in DOMAIN f.operands[x] /\ ~NamesBlock(x, f.operands[x], j)
    <3> TAKE j \in 1..N
    <3>1. j = 1 /\ L = 3
      BY <1>12, <2>1
    <3>2. j \in DOMAIN f.operands[x]
      BY <1>8, <3>1
    <3>3. Len(f.operands[x]) # 1 /\ ~IsPhi(x)
      BY <1>5, <1>7, <3>1 DEF IsPhi
    <3> QED BY <3>1, <3>2, <3>3 DEF NamesBlock
  <2>3. line > c
    BY <1>5
  <2>4. /\ Before!Observed(N) = After!Observed(N)
        /\ \A j \in 1..N : Before!Value(Before!rand(j)) = After!Value(After!rand(j))
    BY <1>2, <1>5, <1>6, <1>11, <2>2, <2>3, ReadsAgree
  <2>5. cond1 => 1 \in 1..N
    BY <2>1
  <2> QED BY <2>1, <2>4, <2>5, Zenon
<1>14. target0 = target1 /\ target1 \in Range(f.bbs)
  <2>1. \A j : Before!rand(j) = f.operands[x][j] /\ After!rand(j) = ir.operands[x][j]
    BY <1>5, <1>11 DEF Before!rand, After!rand
  <2>2. CASE L = 1
    <3>1. f.operands[x][1] \in Range(f.bbs) /\ ir.operands[x][1] = f.operands[x][1]
      BY <1>9, <2>2
    <3> QED BY <1>12, <2>1, <2>2, <3>1
  <2>3. CASE L = 3
    <3>1. /\ f.operands[x][2] \in Range(f.bbs) /\ ir.operands[x][2] = f.operands[x][2]
          /\ f.operands[x][3] \in Range(f.bbs) /\ ir.operands[x][3] = f.operands[x][3]
      BY <1>9, <2>3
    <3> QED BY <1>12, <1>13, <2>1, <2>3, <3>1
  <2> QED BY <1>8, <2>2, <2>3
<1>15. PICK t : t = target1
  OBVIOUS
<1>16. PICK ct, nt, mt : Laid(t, ct, nt, mt)
  BY <1>14, <1>15, Layout
<1>17. /\ Before!Phis(t) = {f.code[t][h] : h \in 1..ct} /\ Before!First(t) = ct + 1
       /\ After!Phis(t) = {} /\ After!First(t) = 1
  BY <1>16, FirstPlaces
<1> HIDE DEF target0, target1, cond0, cond1
<1>18. bb' = t /\ line' = 1 /\ env' = env
  <2>1. bb' = t /\ line' = 1
    BY <1>4, <1>15, <1>17
  <2>2. env' = [v \in DOMAIN env |-> env[v]]
    BY <1>4, <1>15, <1>17
  <2> QED BY <2>1, <2>2 DEF RunOK
<1>19. OldLine' = ct + 1 /\ \A p : StillInCell(p)' <=> p \in Before!Phis(t)
  <2>1. ct \in Nat /\ nt \in Nat /\ mt \in Nat /\ ct < nt /\ nt <= mt
    BY <1>16 DEF Laid
  <2>2. OldAt(t, 1) = IF 1 > mt THEN nt + 1 ELSE IF 1 >= nt THEN nt ELSE IF 1 <= ct THEN ct + 1 ELSE 1
    BY <1>16, OldAtIs
  <2>3. \A p : CellAt(p, t, 1) <=> \E h \in 1..ct : h >= 1 /\ f.code[t][h] = p
    BY <1>16, CellAtIs
  <2>4. OldLine' = OldAt(t, 1) /\ \A p : StillInCell(p)' <=> CellAt(p, t, 1)
    BY <1>18, LineNext
  <2>5. OldLine' = ct + 1
    BY <2>1, <2>2, <2>4
  <2>6. \A p : StillInCell(p)' <=> p \in Before!Phis(t)
    BY <1>17, <2>1, <2>3, <2>4
  <2> QED BY <2>5, <2>6
<1>20. Before!Phis(t) \subseteq PhisOf(f)
  BY <1>16, <1>17 DEF Laid
<1> DEFINE new0 == [p \in Before!Phis(t) |-> mem[AllocaOf(p)]]
<1>21. new0 \in [Before!Phis(t) -> Data]
  BY <1>20 DEF RunOK
<1>22. ASSUME NEW p \in Before!Phis(t), Before!Incoming(p) # {}
       PROVE  \E v \in Before!Incoming(p) : new0[p] = Before!Value(v)
  BY <1>2, <1>5, <1>20, <1>22, CellFed
<1>23. OldEnv' = [v \in DOMAIN OldEnv |-> IF v \in Before!Phis(t) THEN new0[v] ELSE OldEnv[v]]
  <2>1. OldNames' = OldNames
    BY <1>1 DEF OldNames
  <2>2. ASSUME NEW v \in OldNames
        PROVE  OldValue(v)' = IF v \in Before!Phis(t) THEN mem[AllocaOf(v)] ELSE OldValue(v)
    <3>1. CASE v \in Before!Phis(t)
      <4>1. IsPhi(v)
        BY <1>20, <3>1 DEF PhisOf
      <4> QED BY <1>4, <1>19, <3>1, <4>1 DEF OldValue
    <3>2. CASE v \notin Before!Phis(t)
      BY <1>10, <1>18, <1>19, <3>2 DEF OldValue
    <3> QED BY <3>1, <3>2
  <2> QED BY <2>1, <2>2 DEF OldEnv
<1>24. Before!Branch
  <2>1. seen' = Before!Observed(IF cond0 THEN 1 ELSE 0)
    BY <1>4, <1>12, <1>13
  <2>2. bb' = target0 /\ OldLine' = Before!First(target0) /\ t = target0
    BY <1>14, <1>15, <1>17, <1>18, <1>19
  <2>3. \E new \in [Before!Phis(t) -> Data] :
          /\ \A p \in Before!Phis(t) :
               Before!Incoming(p) # {} => \E v \in Before!Incoming(p) : new[p] = Before!Value(v)
          /\ OldEnv' = [v \in DOMAIN OldEnv |-> IF v \in Before!Phis(t) THEN new[v] ELSE OldEnv[v]]
    <3> HIDE DEF new0
    <3> QED BY <1>21, <1>22, <1>23
  <2> USE DEF target0, cond0
  <2> HIDE DEF new0
  <2> QED BY <1>1, <1>11, <2>1, <2>2, <2>3 DEF Before!Branch, OldEnv
<1>25. RunOK'
  <2>1. Names' = Names
    BY <1>1 DEF Names
  <2>2. Fed'
    BY <1>1, <1>16, <1>18 DEF Fed, Laid
  <2>3. Len(ir.code[t]) \in Nat /\ t \in Range(f.bbs)
    BY <1>14, <1>15, <1>16 DEF Laid
  <2> QED BY <1>1, <1>4, <1>18, <2>1, <2>2, <2>3 DEF RunOK
<1> QED BY <1>24, <1>25

-----------------------------------------------------------------------------
\* In the entry there is no phi and no load, whatever the pass has done.
LEMMA EntryPlain ==
  ASSUME IInv, ShapeOK
  PROVE  \A h \in DOMAIN ir.code[entry] : ir.code[entry][h][1] # "load"
<1>1. f \in Functions /\ entry \in Range(f.bbs) /\ entry \in Block
  BY Lists DEF IInv
<1>2. PICK n : n = Len(f.code[entry])
  OBVIOUS
<1>3. /\ n \in Nat /\ n >= 1 /\ DOMAIN f.code[entry] = 1..n
      /\ DOMAIN ir.code[entry] = 1..Len(ir.code[entry]) /\ Len(ir.code[entry]) \in Nat
      /\ \A h \in 1..n : f.code[entry][h] \in InstrsOf(f)
  BY <1>1, <1>2, Block_
<1> SUFFICES ASSUME NEW h \in DOMAIN ir.code[entry] PROVE ir.code[entry][h][1] # "load"
  OBVIOUS
<1>4. CASE h < n
  <2>1. h \in 1..(n - 1) /\ h \in 1..n
    BY <1>3, <1>4
  <2>2. ir.code[entry][h] = Now(f.code[entry][h])
    BY <1>1, <1>2, <2>1 DEF ShapeOK, PlacesOK, BlockOK
  <2>3. f.code[entry][h] \notin Loaded
    <3>1. f.code[entry][h] \in Range(f.code[entry])
      BY <1>3, <2>1 DEF Range
    <3>2. ~IsPhi(f.code[entry][h])
      BY <1>1, <3>1, Kinds
    <3> QED BY <3>2 DEF Loaded, Collected, PhisOf
  <2>4. f.code[entry][h] \in ValuesOf(f)
    BY <1>1, <1>3, <2>1, Kinds
  <2>5. f.code[entry][h][1] \notin {"alloca", "load", "store"}
    BY <1>1, <2>4, Kinds
  <2> QED BY <2>2, <2>3, <2>5 DEF Now
<1>5. CASE h >= n /\ ~(h = Len(ir.code[entry]) /\ ~IsOut(entry))
  <2>1. \/ \E p \in PhisOf(f) : ir.code[entry][h] = AllocaOf(p)
        \/ \E p \in PhisOf(f), j \in Nat : ir.code[entry][h] = StoreOf(p, j)
    BY <1>1, <1>2, <1>5 DEF ShapeOK, PlacesOK, BlockOK
  <2> QED BY <2>1 DEF AllocaOf, StoreOf
<1>6. CASE h = Len(ir.code[entry]) /\ ~IsOut(entry)
  <2>1. ir.code[entry][h] = LastOf(entry) /\ LastOf(entry)[1] \in {"br", "ret"}
    BY <1>1, <1>6, LastOnly, Kinds DEF ShapeOK
  <2> QED BY <2>1
<1> QED BY <1>3, <1>4, <1>5, <1>6

LEMMA EntryNotInCell ==
  ASSUME IInv, ShapeOK, bb = entry
  PROVE  \A p : ~StillInCell(p)
BY EntryPlain DEF StillInCell, LoadOf

\* When the pass is done the execution is still at the first instruction.
LEMMA EntryStart ==
  ASSUME IInv, ShapeOK, pc = "done", bb = entry, line = 1
  PROVE  OldLine = 1
<1>1. f \in Functions /\ entry \in Range(f.bbs)
  BY Lists DEF IInv
<1>2. PICK c, n, m : Laid(entry, c, n, m)
  BY <1>1, Layout
<1>3. /\ c \in Nat /\ n \in Nat /\ m \in Nat /\ c < n /\ n <= m /\ DOMAIN ir.code[entry] = 1..m
      /\ \A h \in 1..c : ir.code[entry][h] = LoadOf(f.code[entry][h])
  BY <1>2 DEF Laid
<1>4. c = 0
  <2> SUFFICES ASSUME c # 0 PROVE FALSE
    OBVIOUS
  <2>1. 1 \in 1..c /\ 1 \in DOMAIN ir.code[entry]
    BY <1>3
  <2> QED BY <1>3, <2>1, EntryPlain DEF LoadOf
<1>5. OldAt(entry, 1) = IF 1 > m THEN n + 1 ELSE IF 1 >= n THEN n ELSE IF 1 <= c THEN c + 1 ELSE 1
  BY <1>2, OldAtIs
<1>6. OldLine = OldAt(bb, line)
  BY LineNow
<1> QED BY <1>3, <1>4, <1>5, <1>6

LEMMA AtEntry ==
  IInv /\ ShapeOK /\ bb = entry /\ line = 1 =>
    OldLine = 1 /\ OldEnv = [v \in OldNames |-> IF IsPhi(v) THEN env[LoadOf(v)] ELSE env[v]]
<1> SUFFICES ASSUME IInv, ShapeOK, bb = entry, line = 1
             PROVE  OldLine = 1 /\ OldEnv = [v \in OldNames |-> IF IsPhi(v) THEN env[LoadOf(v)] ELSE env[v]]
  OBVIOUS
<1>1. OldLine = 1
  <2>1. CASE pc = "done"
    BY <2>1, EntryStart
  <2>2. CASE pc # "done"
    BY <2>2 DEF OldLine
  <2> QED BY <2>1, <2>2
<1>2. \A v \in OldNames : OldValue(v) = IF IsPhi(v) THEN env[LoadOf(v)] ELSE env[v]
  BY EntryNotInCell DEF OldValue
<1> QED BY <1>1, <1>2 DEF OldEnv

SInv == IInv /\ ShapeOK /\ RunOK

LEMMA InitSInv == Init => SInv /\ Before!Start(entry)
<1> SUFFICES ASSUME Init PROVE SInv /\ Before!Start(entry)
  OBVIOUS
<1>1. IInv /\ ShapeOK
  BY InitPassOK, InitShape DEF Init
<1>2. f \in Functions /\ pc = "entry" /\ bb = entry /\ line = 1 /\ seen = << >>
  BY <1>1 DEF Init, InitPass, IInv
<1>3. PICK args \in [{v \in Names : v[1] = "arg"} -> Data] :
        env = [v \in Names |-> IF v[1] = "arg" THEN args[v] ELSE 0]
  BY DEF Init
<1>4. env \in [Names -> Data]
  <2>1. 0 \in Data
    BY DataAssumption
  <2> QED BY <1>3, <2>1
<1>5. mem \in [{AllocaOf(p) : p \in PhisOf(f)} -> Data]
  BY DEF Init
<1>6. RunOK
  BY <1>2, <1>4, <1>5, Lists DEF RunOK
<1>7. OldEnv \in [OldNames -> Data]
  <2> SUFFICES ASSUME NEW v \in OldNames PROVE OldValue(v) \in Data
    BY DEF OldEnv
  <2>1. ~StillInCell(v)
    BY <1>1, <1>2, EntryNotInCell
  <2>2. CASE IsPhi(v)
    <3>1. v \in InstrsOf(f)
      BY <1>2, <2>2, Reads DEF OldNames, IsPhi
    <3>2. LoadOf(v) \in Names
      BY <2>2, <3>1 DEF Names, PhisOf
    <3> QED BY <1>4, <2>1, <2>2, <3>2 DEF OldValue
  <2>3. CASE ~IsPhi(v)
    <3>1. v \in Names
      BY DEF OldNames, Names
    <3> QED BY <1>4, <2>3, <3>1 DEF OldValue
  <2> QED BY <2>2, <2>3
<1>8. OldLine = 1 /\ DOMAIN OldEnv = OldNames
  BY <1>2 DEF OldLine, OldEnv
<1>9. Before!Start(entry)
  BY <1>2, <1>7, <1>8 DEF Before!Start, OldEnv
<1> QED BY <1>1, <1>6, <1>9 DEF SInv

\* The pass itself changes nothing of what is executed.
LEMMA CompileStep ==
  ASSUME SInv, Compile, IInv', ShapeOK'
  PROVE  UNCHANGED Before!state /\ RunOK'
<1>1. IInv /\ ShapeOK /\ RunOK
  BY DEF SInv
<1>2. /\ pc # "done" /\ f' = f /\ bb' = bb /\ line' = line /\ env' = env /\ mem' = mem /\ seen' = seen
      /\ bb = entry /\ line = 1 /\ entry' = entry
  <2>1. pc # "done" /\ f' = f
    BY DEF Compile, NextPass, TakeTerminator, CollectPhis, ReplacePhi, ReturnTerminator, NextPhi,
           StoreOperand, LastOperand, FinishPass
  <2> QED BY <1>1, <2>1 DEF Compile, RunOK, entry
<1>3. OldLine = 1 /\ OldEnv = [v \in OldNames |-> IF IsPhi(v) THEN env[LoadOf(v)] ELSE env[v]]
  BY <1>1, <1>2, AtEntry
<1>4. (IInv /\ ShapeOK /\ bb = entry /\ line = 1)' =>
        (OldLine = 1 /\ OldEnv = [v \in OldNames |-> IF IsPhi(v) THEN env[LoadOf(v)] ELSE env[v]])'
  BY AtEntry, PTL
<1>5. OldLine' = 1 /\ OldEnv' = [v \in OldNames' |-> IF IsPhi(v) THEN env'[LoadOf(v)] ELSE env'[v]]
  BY <1>2, <1>4
<1>6. OldNames' = OldNames /\ Names' = Names
  BY <1>2 DEF OldNames, Names
<1>7. OldLine' = OldLine /\ OldEnv' = OldEnv
  BY <1>2, <1>3, <1>5, <1>6
<1>8. Len(ir'.code[bb]) \in Nat /\ \A h \in DOMAIN ir'.code[bb] : ~(h < 1)
  <2>1. bb \in Block
    BY <1>1, <1>2, Lists DEF IInv
  <2>2. ir'.code[bb] \in Seq(DOMAIN ir'.operands)
    BY <2>1 DEF IInv, CodeOK
  <2> QED BY <2>2
<1>9. RunOK'
  <2>1. Fed'
    BY <1>2, <1>8 DEF Fed
  <2> QED BY <1>1, <1>2, <1>6, <1>8, <2>1 DEF RunOK
<1> QED BY <1>2, <1>7, <1>9 DEF Before!state, OldEnv

LEMMA ExecuteStep ==
  ASSUME SInv, Execute
  PROVE  [Before!Step]_(Before!state) /\ RunOK'
<1>1. IInv /\ ShapeOK /\ RunOK /\ pc = "done" /\ UNCHANGED pass /\ After!Step
  BY DEF SInv, Execute
<1>2. CASE After!Op
  BY <1>1, <1>2, OpStep DEF Before!Step
<1>3. CASE After!Call
  <2>1. PICK c, n, m : Laid(bb, c, n, m)
    BY <1>1, Layout DEF RunOK
  <2>2. After!Executes("call")
    BY <1>3 DEF After!Call, After!Computes
  <2> QED BY <1>1, <2>1, <2>2, Executing
<1>4. CASE After!Alloca
  BY <1>1, <1>4, AllocaStep
<1>5. CASE After!Load
  BY <1>1, <1>5, LoadStep
<1>6. CASE After!Store
  BY <1>1, <1>6, StoreStep
<1>7. CASE After!Branch
  BY <1>1, <1>7, BranchStep DEF Before!Step
<1>8. CASE After!Ret
  BY <1>1, <1>8, RetStep DEF Before!Step
<1> QED BY <1>1, <1>2, <1>3, <1>4, <1>5, <1>6, <1>7, <1>8 DEF After!Step

(***************************************************************************)
(* What an execution of the code after the pass does is what one of the    *)
(* function before it may do: the stores before a branch leave in the cell *)
(* of each phi of the block it goes to what the phi reads on that edge,    *)
(* and the loads that begin the block take it from there before anything   *)
(* reads it.                                                               *)
(***************************************************************************)
THEOREM PhisImplemented == Spec => Implements
<1>1. Init => SInv /\ Before!Start(entry)
  BY InitSInv
<1>2. IInv /\ [Next]_vars => IInv'
  BY InvarianceStep
<1>3. SInv /\ [Next]_vars => SInv' /\ [Before!Step]_(Before!state)
  <2> SUFFICES ASSUME SInv, [Next]_vars PROVE SInv' /\ [Before!Step]_(Before!state)
    OBVIOUS
  <2>1. IInv' /\ ShapeOK'
    BY <1>2, ShapeKept DEF SInv
  <2>2. CASE Compile
    BY <2>1, <2>2, CompileStep DEF SInv
  <2>3. CASE Execute
    BY <2>1, <2>3, ExecuteStep DEF SInv
  <2>4. CASE UNCHANGED vars
    <3>1. /\ UNCHANGED pass /\ bb' = bb /\ line' = line /\ env' = env /\ mem' = mem /\ seen' = seen
          /\ f' = f /\ ir' = ir /\ pc' = pc
      BY <2>4 DEF vars, pass
    <3>2. RunOK'
      BY <3>1 DEF SInv, RunOK, Fed, V1, After!Value, After!Kind, Names, Feeds, entry
    <3>3. UNCHANGED Before!state
      BY <3>1 DEF Before!state, OldLine, Ahead, OldNames, OldValue, StillInCell
    <3> QED BY <2>1, <3>2, <3>3 DEF SInv
  <2> QED BY <2>2, <2>3, <2>4 DEF Next
<1> QED BY <1>1, <1>3, PTL DEF Spec, Implements
=============================================================================
