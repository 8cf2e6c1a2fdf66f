--------------------------- MODULE LinearScan_proofs ---------------------------
(***************************************************************************)
(* What LinearScan guarantees for every register file and every module.    *)
(***************************************************************************)
EXTENDS LinearScan, FiniteSetTheorems, TLAPS

-----------------------------------------------------------------------------
\* Facts about the function being allocated.

LEMMA FunctionType ==
  ASSUME m_ \in Modules, fn \in DOMAIN m_
  PROVE  IsFunction(f_)
BY ModuleAssumption DEF f_

\* Reg(-1) is not a register of the machine.
LEMMA NoRegNotInPool == NoReg \notin Pool
<1>1. \A i \in TempIds \cup {ArgIds[k] : k \in DOMAIN ArgIds} : i \in Nat
  BY RegisterAssumption
<1>2. \A r \in Pool : r.id \in Nat
  BY <1>1 DEF Pool, Reg
<1>3. NoReg.id = -1
  BY DEF NoReg, Reg
<1>4. QED BY <1>2, <1>3

\* The registers pre_allocate_args hands out are argument registers, and two
\* parameters never get the same one.
LEMMA ArgRegDistinct ==
  ASSUME IsFunction(f_)
  PROVE  /\ \A k \in DOMAIN f_.args : ArgReg(k) \in Pool
         /\ \A j, k \in DOMAIN f_.args : ArgReg(j) = ArgReg(k) => j = k
<1> DEFINE Class(k) == {j \in 1..k : f_.float[f_.args[j]] = f_.float[f_.args[k]]}
<1> DEFINE n(k) == Cardinality(Class(k))
<1> DEFINE All(c) == {k \in DOMAIN f_.args : f_.float[f_.args[k]] = c}
<1>1. /\ DOMAIN f_.args = 1..Len(f_.args) /\ Len(f_.args) \in Nat
      /\ \A k \in DOMAIN f_.args : /\ k \in Nat /\ k > 0
                                   /\ f_.float[f_.args[k]] \in BOOLEAN
                                   /\ 1..k \subseteq DOMAIN f_.args
  BY DEF IsFunction
<1>2. \A k \in Nat : IsFiniteSet(Class(k))
  <2>1. TAKE k \in Nat
  <2>2. IsFiniteSet(1..k)
    BY FS_Interval
  <2>3. Class(k) \in SUBSET (1..k)
    OBVIOUS
  <2>4. QED BY <2>2, <2>3, FS_Subset, Zenon
<1>3. \A c \in BOOLEAN : IsFiniteSet(All(c)) /\ Cardinality(All(c)) <= Len(ArgIds)
  <2>1. TAKE c \in BOOLEAN
  <2>2. IsFiniteSet(DOMAIN f_.args)
    <3>1. IsFiniteSet(1..Len(f_.args))
      BY <1>1, FS_Interval
    <3>2. QED BY <3>1, <1>1, Zenon
  <2>3. All(c) \in SUBSET (DOMAIN f_.args)
    OBVIOUS
  <2>4. IsFiniteSet(All(c))
    BY <2>2, <2>3, FS_Subset, Zenon
  <2>5. QED BY <2>4 DEF IsFunction
<1>4. \A k \in DOMAIN f_.args : n(k) \in 1..Len(ArgIds)
  <2>1. TAKE k \in DOMAIN f_.args
  <2> DEFINE c == f_.float[f_.args[k]]
  <2>2. Class(k) \in SUBSET All(c)
    BY <1>1
  <2>3. c \in BOOLEAN /\ k \in Nat
    BY <1>1
  <2>4. IsFiniteSet(Class(k)) /\ IsFiniteSet(All(c)) /\ Cardinality(All(c)) <= Len(ArgIds)
    BY <2>3, <1>2, <1>3
  <2>5. n(k) <= Cardinality(All(c))
    BY <2>2, <2>4, FS_Subset, Zenon
  <2>6. n(k) \in Nat /\ Cardinality(All(c)) \in Nat
    BY <2>4, FS_CardinalityType, Zenon
  <2>7. k \in Class(k)
    BY <1>1
  <2>8. n(k) # 0
    <3>1. Class(k) # {}
      BY <2>7, Zenon
    <3>2. QED BY <3>1, <2>4, FS_EmptySet, Zenon
  <2> HIDE DEF n, All, c
  <2>9. QED BY <2>4, <2>5, <2>6, <2>8, RegisterAssumption
<1>5. \A k \in DOMAIN f_.args : ArgReg(k) = Reg(ArgIds[n(k)], f_.float[f_.args[k]])
  BY DEF ArgReg
<1>6. ASSUME NEW j \in DOMAIN f_.args, NEW k \in DOMAIN f_.args, j < k,
             f_.float[f_.args[j]] = f_.float[f_.args[k]]
      PROVE  n(j) # n(k)
  <2>1. Class(j) \in SUBSET Class(k) /\ k \notin Class(j) /\ k \in Class(k)
    BY <1>1, <1>6
  <2>2. IsFiniteSet(Class(k))
    BY <1>1, <1>2
  <2>3. QED BY <2>1, <2>2, FS_Subset, Zenon
<1> HIDE DEF n, Class, All
<1>7. \A j, k \in DOMAIN f_.args :
        f_.float[f_.args[j]] = f_.float[f_.args[k]] /\ n(j) = n(k) => j = k
  <2>1. TAKE j, k \in DOMAIN f_.args
  <2>2. j < k \/ k < j \/ j = k
    BY <1>1
  <2>3. QED BY <2>2, <1>6
<1>8. ASSUME NEW k \in DOMAIN f_.args PROVE ArgReg(k) \in Pool
  <2>1. ArgReg(k) = Reg(ArgIds[n(k)], f_.float[f_.args[k]])
    BY <1>5
  <2>2. n(k) \in DOMAIN ArgIds /\ f_.float[f_.args[k]] \in BOOLEAN
    BY <1>1, <1>4, RegisterAssumption
  <2>3. QED BY <2>1, <2>2 DEF Pool
<1>9. ASSUME NEW j \in DOMAIN f_.args, NEW k \in DOMAIN f_.args, ArgReg(j) = ArgReg(k)
      PROVE  j = k
  <2>1. ArgIds[n(j)] = ArgIds[n(k)] /\ f_.float[f_.args[j]] = f_.float[f_.args[k]]
    BY <1>5, <1>9 DEF Reg
  <2>2. n(j) \in DOMAIN ArgIds /\ n(k) \in DOMAIN ArgIds
    BY <1>4, RegisterAssumption
  <2>3. n(j) = n(k)
    BY <2>1, <2>2, RegisterAssumption
  <2>4. QED BY <2>1, <2>3, <1>7
<1>10. QED BY <1>8, <1>9

-----------------------------------------------------------------------------
(***************************************************************************)
(* The inductive invariant.  What the scan has visited starts no later     *)
(* than what it has still to visit; a value in a register that is neither  *)
(* a holder of it nor spilled has ended before everything still to visit;  *)
(* and a valid register has one holder or is available.                    *)
(***************************************************************************)
Visited == DOMAIN f_.start \ pending

Before ==
  pc = "args" => /\ pending = DOMAIN f_.start
                 /\ active = {}
                 /\ DOMAIN reg_mappings = {}
                 /\ DOMAIN stack_mappings = {}
                 /\ available_regs = Pool

InOrder == \A v \in Visited, w \in pending : f_.start[v] <= f_.start[w]

Placement ==
  /\ \A v \in active : /\ v \in Visited /\ ~IsArg(v)
                       /\ v \in DOMAIN reg_mappings \ DOMAIN stack_mappings
  /\ \A v \in DOMAIN reg_mappings : v \in Visited \/ IsArg(v)
  /\ \A v \in DOMAIN stack_mappings : v \in Visited /\ ~IsArg(v)
  /\ \A v \in Visited : v \in DOMAIN reg_mappings \cup DOMAIN stack_mappings
  /\ pc # "args" => \A v \in DOMAIN f_.start : IsArg(v) => v \in DOMAIN reg_mappings
  /\ pc = "done" => pending = {}

Gone ==
  \A v \in DOMAIN reg_mappings \ DOMAIN stack_mappings :
    v \notin Holders => \A w \in pending : f_.end[v] < f_.start[w]

Exclusive ==
  /\ \A v, w \in Holders : v # w /\ reg_mappings[v] = reg_mappings[w]
                           => reg_mappings[v] = NoReg
  /\ \A v \in Holders : reg_mappings[v] \in available_regs => reg_mappings[v] = NoReg

NoLeak ==
  pc # "args" => \A r \in Pool : \/ r \in available_regs
                                 \/ \E v \in Holders : reg_mappings[v] = r

IInv ==
  /\ m_ \in Modules
  /\ TypeOK
  /\ Before
  /\ InOrder
  /\ Placement
  /\ Gone
  /\ Exclusive
  /\ NoLeak
  /\ NoInterference

LEMMA InitIInv == Init => IInv
<1> SUFFICES ASSUME Init PROVE IInv
  OBVIOUS
<1>1. m_ \in Modules /\ fn \in DOMAIN m_
  BY ModuleAssumption DEF Init
<1>2. IsFunction(f_)
  BY <1>1, FunctionType
<1>3. TypeOK
  BY <1>1, <1>2 DEF Init, TypeOK, IsFunction, Register, Empty
<1>4. Holders = {}
  BY DEF Init, Holders, Empty
<1>5. QED
  BY <1>1, <1>3, <1>4 DEF Init, IInv, Before, InOrder, Placement, Gone, Exclusive,
     NoLeak, NoInterference, Resident, Visited, Empty

-----------------------------------------------------------------------------
\* pre_allocate_args establishes the invariant of the scan.

LEMMA PreAllocateIInv == IInv /\ PreAllocateArgs => IInv'
<1> SUFFICES ASSUME IInv, PreAllocateArgs PROVE IInv'
  OBVIOUS
<1> USE DEF IInv
<1>1. IsFunction(f_)
  BY FunctionType DEF TypeOK
<1>2. f_' = f_ /\ UsedArgs \subseteq DOMAIN f_.args
  BY DEF PreAllocateArgs, f_, UsedArgs
<1>3. /\ DOMAIN reg_mappings' = {f_.args[k] : k \in UsedArgs}
      /\ reg_mappings' = [v \in DOMAIN reg_mappings' |-> reg_mappings'[v]]
      /\ \A v \in DOMAIN reg_mappings' :
           \E k \in UsedArgs : v = f_.args[k] /\ reg_mappings'[v] = ArgReg(k)
  <2> DEFINE at(v) == CHOOSE k \in UsedArgs : f_.args[k] = v
  <2> DEFINE S == {f_.args[k] : k \in UsedArgs}
  <2>1. reg_mappings' = [v \in S |-> ArgReg(at(v))]
    BY DEF PreAllocateArgs
  <2>2. \A v \in S : at(v) \in UsedArgs /\ f_.args[at(v)] = v
    OBVIOUS
  <2> HIDE DEF at, S
  <2>3. DOMAIN reg_mappings' = S /\ \A v \in S : reg_mappings'[v] = ArgReg(at(v))
    BY <2>1
  <2>4. QED BY <2>1, <2>2, <2>3 DEF S
<1>4. ASSUME NEW k \in UsedArgs
      PROVE  reg_mappings'[f_.args[k]] = ArgReg(k) /\ f_.args[k] \in DOMAIN reg_mappings'
  <2>1. f_.args[k] \in DOMAIN reg_mappings'
    BY <1>3
  <2>2. PICK j \in UsedArgs : /\ f_.args[k] = f_.args[j]
                              /\ reg_mappings'[f_.args[k]] = ArgReg(j)
    BY <1>3, <2>1
  <2>3. \A i, l \in DOMAIN f_.args : f_.args[i] = f_.args[l] => i = l
    BY <1>1 DEF IsFunction
  <2> QED BY <1>2, <2>1, <2>2, <2>3
<1>5. \A v : IsArg(v)' <=> IsArg(v)
  BY <1>2 DEF IsArg
<1>6. \A v \in DOMAIN reg_mappings' : IsArg(v) /\ v \in DOMAIN f_.start
  BY <1>2, <1>3 DEF IsArg, UsedArgs
<1>7. \A v \in DOMAIN f_.start : IsArg(v) => v \in DOMAIN reg_mappings'
  BY <1>4 DEF IsArg, UsedArgs
<1>8. \A v \in DOMAIN reg_mappings' : reg_mappings'[v] \in Pool
  BY <1>1, <1>2, <1>3, ArgRegDistinct
<1>9. \A v, w \in DOMAIN reg_mappings' : reg_mappings'[v] = reg_mappings'[w] => v = w
  BY <1>1, <1>2, <1>3, ArgRegDistinct
<1>10. /\ Holders' = DOMAIN reg_mappings'
       /\ active' = {} /\ pending' = DOMAIN f_.start /\ DOMAIN stack_mappings' = {}
       /\ pc' = "scan" /\ m_' = m_ /\ fn' = fn
  BY <1>5, <1>6 DEF Holders, PreAllocateArgs, Before
<1>11. /\ available_regs' \subseteq Pool
       /\ \A v \in DOMAIN reg_mappings' : reg_mappings'[v] \notin available_regs'
       /\ \A r \in Pool : r \in available_regs' \/ \E v \in DOMAIN reg_mappings' : reg_mappings'[v] = r
  <2>1. available_regs' = Pool \ {ArgReg(k) : k \in UsedArgs}
    BY DEF PreAllocateArgs, Before
  <2>2. \A r : r \in {ArgReg(k) : k \in UsedArgs}
               <=> \E v \in DOMAIN reg_mappings' : reg_mappings'[v] = r
    <3>1. ASSUME NEW k \in UsedArgs
          PROVE  \E v \in DOMAIN reg_mappings' : reg_mappings'[v] = ArgReg(k)
      BY <1>4
    <3>2. ASSUME NEW v \in DOMAIN reg_mappings'
          PROVE  \E k \in UsedArgs : reg_mappings'[v] = ArgReg(k)
      BY <1>3
    <3>3. QED BY <3>1, <3>2, Zenon
  <2>3. QED BY <2>1, <2>2, Zenon
<1>12. TypeOK'
  <2>1. reg_mappings' \in [DOMAIN reg_mappings' -> Register]
    BY <1>3, <1>8 DEF Register
  <2>2. stack_mappings' = stack_mappings /\ stack_size' = stack_size
    BY DEF PreAllocateArgs
  <2>3. QED BY <2>1, <2>2, <1>2, <1>6, <1>10, <1>11 DEF TypeOK, Register
<1>13. NoInterference'
  BY <1>9, <1>10 DEF NoInterference, Resident
<1>14. QED
  BY <1>2, <1>5, <1>6, <1>7, <1>9, <1>10, <1>11, <1>12, <1>13
     DEF Before, InOrder, Placement, Gone, Exclusive, NoLeak, Visited

-----------------------------------------------------------------------------
\* ExpireOldIntervals, on its own, keeps registers exclusive and accounted for.

Args == {v \in DOMAIN reg_mappings : IsArg(v)}

LEMMA ExpireFacts ==
  ASSUME IInv, NEW i \in pending, IsNext(i)
  PROVE  /\ StillActive(i) \subseteq active
         /\ AvailableRegs(i) \subseteq Register
         /\ \A v \in active \ StillActive(i), w \in pending : f_.end[v] < f_.start[w]
         /\ \A v \in StillActive(i) \cup Args :
              reg_mappings[v] \in AvailableRegs(i) => reg_mappings[v] = NoReg
         /\ \A r \in Pool : \/ r \in AvailableRegs(i)
                            \/ \E v \in StillActive(i) \cup Args : reg_mappings[v] = r
<1> USE DEF IInv
<1>1. IsFunction(f_)
  BY FunctionType DEF TypeOK
<1>2. StillActive(i) \subseteq active /\ Expired(i) = active \ StillActive(i)
  BY DEF StillActive, Expired
<1>3. \A v \in active \cup Args : v \in DOMAIN reg_mappings /\ v \in Holders
  BY DEF Placement, Holders, Args
<1>4. AvailableRegs(i) \subseteq Register
  BY <1>2, <1>3 DEF AvailableRegs, TypeOK
<1>5. \A v \in active \ StillActive(i), w \in pending : f_.end[v] < f_.start[w]
  BY <1>1, <1>2 DEF IsNext, Expired, TypeOK, IsFunction
<1>6. ASSUME NEW v \in StillActive(i) \cup Args, reg_mappings[v] \in AvailableRegs(i)
      PROVE  reg_mappings[v] = NoReg
  <2>1. CASE reg_mappings[v] \in available_regs
    BY <2>1, <1>2, <1>3 DEF Exclusive
  <2>2. CASE \E j \in Expired(i) : reg_mappings[v] = reg_mappings[j]
    <3>1. PICK j \in Expired(i) : reg_mappings[v] = reg_mappings[j]
      BY <2>2
    <3>2. v # j /\ j \in Holders /\ v \in Holders
      BY <1>2, <1>3 DEF Placement, Args
    <3>3. QED BY <3>1, <3>2 DEF Exclusive
  <2>3. QED BY <1>6, <2>1, <2>2 DEF AvailableRegs
<1>7. ASSUME NEW r \in Pool
      PROVE  \/ r \in AvailableRegs(i)
             \/ \E v \in StillActive(i) \cup Args : reg_mappings[v] = r
  BY <1>2 DEF IsNext, NoLeak, Holders, Args, AvailableRegs
<1>8. QED BY <1>2, <1>4, <1>5, <1>6, <1>7

\* What every iteration leaves alone, and what the order of the visit gives.
LEMMA IterationFacts ==
  ASSUME IInv, NEW i \in pending, IsNext(i),
         pending' = pending \ {i}, UNCHANGED <<m_, fn, pc>>
  PROVE  /\ m_' \in Modules /\ fn' \in DOMAIN m_' /\ f_' = f_
         /\ \A v : IsArg(v)' <=> IsArg(v)
         /\ pc' = "scan" /\ pending' \subseteq DOMAIN f_.start
         /\ Visited' = Visited \cup {i} /\ i \notin Visited /\ i \in DOMAIN f_.start
         /\ InOrder' /\ Before'
         /\ IsFunction(f_)
<1> USE DEF IInv
<1>1. f_' = f_ /\ m_' \in Modules /\ fn' \in DOMAIN m_'
  BY DEF f_, TypeOK
<1>2. IsFunction(f_)
  BY FunctionType DEF TypeOK
<1>3. i \in DOMAIN f_.start /\ pending \subseteq DOMAIN f_.start
  BY DEF TypeOK
<1>4. Visited' = Visited \cup {i} /\ i \notin Visited
  BY <1>1, <1>3 DEF Visited
<1>5. InOrder'
  BY <1>1, <1>4 DEF InOrder, IsNext
<1>6. QED
  BY <1>1, <1>2, <1>3, <1>4, <1>5 DEF IsArg, IsNext, Before

-----------------------------------------------------------------------------
\* One lemma per action of the scan.

LEMMA SkipArgIInv == ASSUME IInv, NEW i \in pending, SkipArg(i) PROVE IInv'
<1> USE DEF IInv
<1>1. IsNext(i) /\ IsArg(i) /\ pending' = pending \ {i} /\ UNCHANGED <<m_, fn, pc>>
      /\ active' = StillActive(i) /\ available_regs' = AvailableRegs(i)
      /\ UNCHANGED <<reg_mappings, stack_mappings, stack_size>>
  BY DEF SkipArg
<1>2. /\ f_' = f_ /\ (\A v : IsArg(v)' <=> IsArg(v)) /\ pc' = "scan"
      /\ Visited' = Visited \cup {i} /\ i \in DOMAIN f_.start
      /\ m_' \in Modules /\ fn' \in DOMAIN m_' /\ InOrder' /\ Before'
      /\ pending' \subseteq DOMAIN f_.start
  BY <1>1, IterationFacts
<1>3. Holders' = StillActive(i) \cup Args
  BY <1>1, <1>2 DEF Holders, Args
<1>4. TypeOK'
  BY <1>1, <1>2, ExpireFacts DEF TypeOK
<1>5. Placement'
  <2>1. i \in DOMAIN reg_mappings
    BY <1>1, <1>2 DEF Placement, IsNext
  <2>2. QED BY <2>1, <1>1, <1>2, ExpireFacts DEF Placement, IsNext
<1>6. Gone'
  <2>1. SUFFICES ASSUME NEW v \in DOMAIN reg_mappings \ DOMAIN stack_mappings,
                        v \notin Holders', NEW w \in pending'
                 PROVE  f_.end[v] < f_.start[w]
    BY <1>1, <1>2 DEF Gone
  <2>2. CASE v \in active
    BY <2>1, <2>2, <1>1, <1>3, ExpireFacts
  <2>3. CASE v \notin Holders
    BY <2>1, <2>3, <1>1 DEF Gone
  <2>4. QED BY <2>1, <2>2, <2>3, <1>3 DEF Holders, Args
<1>7. Exclusive'
  <2>1. Holders' \subseteq Holders
    BY <1>1, <1>3, ExpireFacts DEF Holders, Args
  <2>2. QED BY <2>1, <1>1, <1>3, ExpireFacts DEF Exclusive
<1>8. NoLeak'
  BY <1>1, <1>3, ExpireFacts DEF NoLeak
<1>9. NoInterference'
  BY <1>1, <1>2 DEF NoInterference, Resident, Overlap
<1>10. QED BY <1>2, <1>4, <1>5, <1>6, <1>7, <1>8, <1>9

\* A value that takes over register r, which no other value may still be using.
LEMMA NewResident ==
  ASSUME IInv, NEW i \in pending, IsNext(i), ~IsArg(i), NEW r,
         f_' = f_,
         reg_mappings' = Put(reg_mappings, i, r),
         DOMAIN stack_mappings \subseteq DOMAIN stack_mappings',
         \A v \in Holders \cap DOMAIN reg_mappings :
           reg_mappings[v] = r /\ r # NoReg
           => v \in DOMAIN stack_mappings' \/ f_.end[v] < f_.start[i]
  PROVE  NoInterference'
<1> USE DEF IInv
<1>1. IsFunction(f_) /\ i \in DOMAIN f_.start
  BY FunctionType DEF TypeOK
<1>2. /\ DOMAIN reg_mappings' = DOMAIN reg_mappings \cup {i}
      /\ reg_mappings'[i] = r
      /\ \A v \in DOMAIN reg_mappings : v # i => reg_mappings'[v] = reg_mappings[v]
  BY DEF Put
<1>3. ASSUME NEW v \in DOMAIN f_.start, v # i, Resident(v)', reg_mappings'[v] = r, r # NoReg
      PROVE  f_.end[v] < f_.start[i]
  <2>1. v \in DOMAIN reg_mappings \ DOMAIN stack_mappings /\ reg_mappings[v] = r
        /\ v \notin DOMAIN stack_mappings'
    BY <1>2, <1>3 DEF Resident
  <2>2. CASE v \in Holders
    BY <2>1, <2>2, <1>3
  <2>3. CASE v \notin Holders
    BY <2>1, <2>3 DEF Gone
  <2>4. QED BY <2>2, <2>3
<1>4. ASSUME NEW v \in DOMAIN f_.start, NEW w \in DOMAIN f_.start,
             Resident(v)', Resident(w)', v # w, reg_mappings'[v] = reg_mappings'[w]
      PROVE  ~(f_.start[v] <= f_.end[w] /\ f_.start[w] <= f_.end[v])
  <2>1. /\ f_.start[v] \in Nat /\ f_.end[v] \in Nat
        /\ f_.start[w] \in Nat /\ f_.end[w] \in Nat
    BY <1>1 DEF IsFunction
  <2>2. CASE v = i
    BY <2>1, <2>2, <1>2, <1>3, <1>4 DEF Resident
  <2>3. CASE w = i
    BY <2>1, <2>3, <1>2, <1>3, <1>4 DEF Resident
  <2>4. CASE v # i /\ w # i
    BY <2>1, <2>4, <1>2, <1>4 DEF Resident, NoInterference, Overlap
  <2>5. QED BY <2>2, <2>3, <2>4
<1>5. QED BY <1>4 DEF NoInterference, Overlap

LEMMA AssignRegIInv == ASSUME IInv, NEW i \in pending, AssignReg(i) PROVE IInv'
<1> USE DEF IInv
<1>1. /\ IsNext(i) /\ ~IsArg(i) /\ pending' = pending \ {i}
      /\ UNCHANGED <<m_, fn, pc, stack_mappings, stack_size>>
      /\ active' = StillActive(i) \cup {i}
  BY DEF AssignReg, WantsReg
<1>2. /\ f_' = f_ /\ (\A v : IsArg(v)' <=> IsArg(v)) /\ pc' = "scan"
      /\ Visited' = Visited \cup {i} /\ i \in DOMAIN f_.start /\ i \notin Visited
      /\ m_' \in Modules /\ fn' \in DOMAIN m_' /\ InOrder' /\ Before'
      /\ pending' \subseteq DOMAIN f_.start
  BY <1>1, IterationFacts
<1>3. PICK r : /\ r \in AvailableRegs(i) \cup {NoReg}
               /\ Found(r, AvailableRegs(i), f_.float[i])
               /\ reg_mappings' = Put(reg_mappings, i, r)
               /\ available_regs' = AvailableRegs(i) \ {r}
  BY DEF AssignReg
<1>4. i \notin DOMAIN reg_mappings /\ i \notin DOMAIN stack_mappings /\ i \notin active
  BY <1>1, <1>2 DEF Placement
<1>5. /\ DOMAIN reg_mappings' = DOMAIN reg_mappings \cup {i}
      /\ reg_mappings' = [v \in DOMAIN reg_mappings' |-> reg_mappings'[v]]
      /\ reg_mappings'[i] = r
      /\ \A v \in DOMAIN reg_mappings : reg_mappings'[v] = reg_mappings[v]
  BY <1>3, <1>4 DEF Put
<1>6. r = NoReg \/ r \in AvailableRegs(i)
  BY <1>3
<1>7. Holders' = StillActive(i) \cup Args \cup {i}
  BY <1>1, <1>2, <1>5 DEF Holders, Args
<1>8. StillActive(i) \cup Args \subseteq Holders \cap DOMAIN reg_mappings
  BY ExpireFacts, <1>1 DEF Holders, Args, Placement
<1>9. TypeOK'
  <2>1. r \in Register
    BY <1>1, <1>6, ExpireFacts DEF Register
  <2>2. reg_mappings' \in [DOMAIN reg_mappings' -> Register]
    BY <2>1, <1>5 DEF TypeOK
  <2>3. QED BY <2>2, <1>1, <1>2, <1>3, <1>5, ExpireFacts DEF TypeOK
<1>10. Placement'
  BY <1>1, <1>2, <1>4, <1>5, ExpireFacts DEF Placement, IsNext
<1>11. Gone'
  <2>1. SUFFICES ASSUME NEW v \in DOMAIN reg_mappings \ DOMAIN stack_mappings,
                        v \notin Holders', NEW w \in pending'
                 PROVE  f_.end[v] < f_.start[w]
    BY <1>1, <1>2, <1>5, <1>7 DEF Gone
  <2>2. CASE v \in active
    BY <2>1, <2>2, <1>1, <1>7, ExpireFacts
  <2>3. CASE v \notin Holders
    BY <2>1, <2>3, <1>1 DEF Gone
  <2>4. QED BY <2>1, <2>2, <2>3, <1>7 DEF Holders, Args
<1>12. Exclusive'
  <2>1. \A v \in StillActive(i) \cup Args : reg_mappings[v] = r => r = NoReg
    BY <1>1, <1>6, ExpireFacts
  <2>2. QED BY <2>1, <1>1, <1>3, <1>5, <1>7, <1>8, ExpireFacts DEF Exclusive
<1>13. NoLeak'
  BY <1>1, <1>3, <1>5, <1>7, <1>8, ExpireFacts DEF NoLeak
<1>14. NoInterference'
  <2>1. ASSUME NEW v \in Holders \cap DOMAIN reg_mappings, reg_mappings[v] = r, r # NoReg
        PROVE  f_.end[v] < f_.start[i]
    <3>1. v \notin StillActive(i) \cup Args
      BY <2>1, <1>1, <1>6, ExpireFacts
    <3>2. v \in active \ StillActive(i)
      BY <2>1, <3>1 DEF Holders, Args
    <3>3. QED BY <3>2, <1>1, ExpireFacts
  <2>2. QED BY <2>1, <1>1, <1>2, <1>3, NewResident
<1>15. QED BY <1>2, <1>9, <1>10, <1>11, <1>12, <1>13, <1>14

LEMMA SpillActiveIInv == ASSUME IInv, NEW i \in pending, SpillActive(i) PROVE IInv'
<1> USE DEF IInv
<1>1. /\ IsNext(i) /\ ~IsArg(i) /\ pending' = pending \ {i}
      /\ UNCHANGED <<m_, fn, pc>>
      /\ available_regs' = AvailableRegs(i)
  BY DEF SpillActive, WantsSpill
<1>2. /\ f_' = f_ /\ (\A v : IsArg(v)' <=> IsArg(v)) /\ pc' = "scan"
      /\ Visited' = Visited \cup {i} /\ i \in DOMAIN f_.start /\ i \notin Visited
      /\ m_' \in Modules /\ fn' \in DOMAIN m_' /\ InOrder' /\ Before'
      /\ pending' \subseteq DOMAIN f_.start /\ IsFunction(f_)
  BY <1>1, IterationFacts
<1>3. PICK spill \in active :
        /\ IsLast(spill, StillActive(i))
        /\ reg_mappings' = Put(reg_mappings, i, reg_mappings[spill])
        /\ stack_size' = stack_size + f_.size[spill]
        /\ stack_mappings' = Put(stack_mappings, spill, -f_.size[spill])
        /\ active' = (StillActive(i) \ {spill}) \cup {i}
  BY DEF SpillActive
<1> DEFINE r == reg_mappings[spill]
<1>4. /\ i \notin DOMAIN reg_mappings /\ i \notin DOMAIN stack_mappings /\ i \notin active
      /\ spill \in StillActive(i) /\ spill \in DOMAIN reg_mappings /\ ~IsArg(spill)
      /\ spill \in Visited /\ spill # i /\ spill \in DOMAIN f_.start
  BY <1>1, <1>2, <1>3 DEF Placement, IsLast, Visited
<1>5. /\ DOMAIN reg_mappings' = DOMAIN reg_mappings \cup {i}
      /\ reg_mappings' = [v \in DOMAIN reg_mappings' |-> reg_mappings'[v]]
      /\ reg_mappings'[i] = r
      /\ \A v \in DOMAIN reg_mappings : reg_mappings'[v] = reg_mappings[v]
  BY <1>3, <1>4 DEF Put
<1>6. /\ DOMAIN stack_mappings' = DOMAIN stack_mappings \cup {spill}
      /\ stack_mappings' = [v \in DOMAIN stack_mappings' |-> stack_mappings'[v]]
      /\ stack_mappings'[spill] = -f_.size[spill]
      /\ \A v \in DOMAIN stack_mappings : v # spill => stack_mappings'[v] = stack_mappings[v]
  BY <1>3 DEF Put
<1>7. Holders' = ((StillActive(i) \cup Args) \ {spill}) \cup {i}
  BY <1>1, <1>2, <1>3, <1>4, <1>5 DEF Holders, Args
<1>8. StillActive(i) \cup Args \subseteq Holders \cap DOMAIN reg_mappings
  BY ExpireFacts, <1>1 DEF Holders, Args, Placement
<1>9. TypeOK'
  <2>1. r \in Register /\ f_.size[spill] \in Nat
    BY <1>2, <1>4 DEF TypeOK, IsFunction
  <2>2. reg_mappings' \in [DOMAIN reg_mappings' -> Register]
    BY <2>1, <1>5 DEF TypeOK
  <2>3. stack_mappings' \in [DOMAIN stack_mappings' -> Int]
    BY <2>1, <1>6 DEF TypeOK
  <2>4. stack_size' \in Nat
    BY <2>1, <1>3 DEF TypeOK
  <2>5. active' \subseteq DOMAIN f_.start
    BY <1>2, <1>3, <1>1, ExpireFacts DEF TypeOK
  <2>6. DOMAIN reg_mappings' \subseteq DOMAIN f_.start
        /\ DOMAIN stack_mappings' \subseteq DOMAIN f_.start
    BY <1>2, <1>4, <1>5, <1>6 DEF TypeOK
  <2>7. QED BY <2>2, <2>3, <2>4, <2>5, <2>6, <1>1, <1>2, ExpireFacts DEF TypeOK
<1>10. Placement'
  BY <1>1, <1>2, <1>3, <1>4, <1>5, <1>6, ExpireFacts DEF Placement, IsNext
<1>11. Gone'
  <2>1. SUFFICES ASSUME NEW v \in DOMAIN reg_mappings \ DOMAIN stack_mappings,
                        v # spill, v \notin Holders', NEW w \in pending'
                 PROVE  f_.end[v] < f_.start[w]
    BY <1>1, <1>2, <1>5, <1>6, <1>7 DEF Gone
  <2>2. CASE v \in active
    BY <2>1, <2>2, <1>1, <1>7, ExpireFacts
  <2>3. CASE v \notin Holders
    BY <2>1, <2>3, <1>1 DEF Gone
  <2>4. QED BY <2>1, <2>2, <2>3, <1>7 DEF Holders, Args
<1>12. Exclusive'
  <2>1. \A v \in (StillActive(i) \cup Args) \ {spill} : reg_mappings[v] = r => r = NoReg
    BY <1>4, <1>8 DEF Exclusive
  <2>2. r \in AvailableRegs(i) => r = NoReg
    BY <1>1, <1>4, ExpireFacts
  <2>3. QED BY <2>1, <2>2, <1>1, <1>5, <1>7, <1>8, ExpireFacts DEF Exclusive
<1>13. NoLeak'
  <2>1. SUFFICES ASSUME NEW q \in Pool, q \notin AvailableRegs(i)
                 PROVE  \E v \in Holders' : reg_mappings'[v] = q
    BY <1>1 DEF NoLeak
  <2>2. PICK v \in StillActive(i) \cup Args : reg_mappings[v] = q
    BY <2>1, <1>1, ExpireFacts
  <2>3. CASE v = spill
    BY <2>2, <2>3, <1>5, <1>7
  <2>4. CASE v # spill
    BY <2>2, <2>4, <1>5, <1>7, <1>8
  <2>5. QED BY <2>3, <2>4
<1>14. NoInterference'
  <2>1. ASSUME NEW v \in Holders \cap DOMAIN reg_mappings, reg_mappings[v] = r, r # NoReg
        PROVE  v \in DOMAIN stack_mappings'
    BY <2>1, <1>4, <1>6, <1>8 DEF Exclusive
  <2>2. DOMAIN stack_mappings \subseteq DOMAIN stack_mappings'
    BY <1>6
  <2>3. QED BY <2>1, <2>2, <1>1, <1>2, <1>3, NewResident
<1>15. QED BY <1>2, <1>9, <1>10, <1>11, <1>12, <1>13, <1>14

LEMMA SpillSelfIInv == ASSUME IInv, NEW i \in pending, SpillSelf(i) PROVE IInv'
<1> USE DEF IInv
<1>1. /\ IsNext(i) /\ ~IsArg(i) /\ pending' = pending \ {i}
      /\ UNCHANGED <<m_, fn, pc, reg_mappings>>
      /\ active' = StillActive(i) /\ available_regs' = AvailableRegs(i)
      /\ stack_size' = stack_size + f_.size[i]
      /\ stack_mappings' = Put(stack_mappings, i, -f_.size[i])
  BY DEF SpillSelf, WantsSpill
<1>2. /\ f_' = f_ /\ (\A v : IsArg(v)' <=> IsArg(v)) /\ pc' = "scan"
      /\ Visited' = Visited \cup {i} /\ i \in DOMAIN f_.start /\ i \notin Visited
      /\ m_' \in Modules /\ fn' \in DOMAIN m_' /\ InOrder' /\ Before'
      /\ pending' \subseteq DOMAIN f_.start /\ IsFunction(f_)
  BY <1>1, IterationFacts
<1>3. i \notin DOMAIN reg_mappings /\ i \notin DOMAIN stack_mappings /\ i \notin active
  BY <1>1, <1>2 DEF Placement
<1>4. /\ DOMAIN stack_mappings' = DOMAIN stack_mappings \cup {i}
      /\ stack_mappings' = [v \in DOMAIN stack_mappings' |-> stack_mappings'[v]]
      /\ stack_mappings'[i] = -f_.size[i]
      /\ \A v \in DOMAIN stack_mappings : stack_mappings'[v] = stack_mappings[v]
  BY <1>1, <1>3 DEF Put
<1>5. Holders' = StillActive(i) \cup Args
  BY <1>1, <1>2 DEF Holders, Args
<1>6. StillActive(i) \cup Args \subseteq Holders \cap DOMAIN reg_mappings
  BY ExpireFacts, <1>1 DEF Holders, Args, Placement
<1>7. TypeOK'
  <2>1. f_.size[i] \in Nat
    BY <1>2, <1>3 DEF TypeOK, IsFunction
  <2>2. stack_mappings' \in [DOMAIN stack_mappings' -> Int]
    BY <2>1, <1>4 DEF TypeOK
  <2>3. stack_size' \in Nat
    BY <2>1, <1>1 DEF TypeOK
  <2>4. QED BY <2>2, <2>3, <1>1, <1>2, <1>4, ExpireFacts DEF TypeOK
<1>8. Placement'
  BY <1>1, <1>2, <1>3, <1>4, ExpireFacts DEF Placement, IsNext
<1>9. Gone'
  <2>1. SUFFICES ASSUME NEW v \in DOMAIN reg_mappings \ DOMAIN stack_mappings,
                        v \notin Holders', NEW w \in pending'
                 PROVE  f_.end[v] < f_.start[w]
    BY <1>1, <1>2, <1>4 DEF Gone
  <2>2. CASE v \in active
    BY <2>1, <2>2, <1>1, <1>5, ExpireFacts
  <2>3. CASE v \notin Holders
    BY <2>1, <2>3, <1>1 DEF Gone
  <2>4. QED BY <2>1, <2>2, <2>3, <1>5 DEF Holders, Args
<1>10. Exclusive'
  BY <1>1, <1>5, <1>6, ExpireFacts DEF Exclusive
<1>11. NoLeak'
  BY <1>1, <1>5, ExpireFacts DEF NoLeak
<1>12. NoInterference'
  BY <1>1, <1>2, <1>4 DEF NoInterference, Resident, Overlap
<1>13. QED BY <1>2, <1>7, <1>8, <1>9, <1>10, <1>11, <1>12

LEMMA NextFunctionIInv == IInv /\ NextFunction => IInv'
<1> SUFFICES ASSUME IInv, NextFunction PROVE IInv'
  OBVIOUS
<1>1. m_' \in Modules /\ fn' \in DOMAIN m_'
  BY ModuleAssumption DEF NextFunction, IInv, TypeOK
<1>2. IsFunction(f_')
  BY <1>1, ModuleAssumption DEF f_
<1>3. f_' = m_[fn + 1]
  BY DEF NextFunction, f_
<1>4. TypeOK'
  BY <1>1, <1>2, <1>3 DEF NextFunction, TypeOK, IsFunction, Register, Empty
<1>5. Holders' = {}
  BY DEF NextFunction, Holders, Empty
<1>6. QED
  BY <1>1, <1>3, <1>4, <1>5 DEF NextFunction, IInv, Before, InOrder, Placement, Gone,
     Exclusive, NoLeak, NoInterference, Resident, Visited, Empty

\* Steps that change neither the function nor the allocation.
LEMMA FinishIInv == IInv /\ (Finish \/ UNCHANGED vars) => IInv'
<1> SUFFICES ASSUME IInv, Finish \/ UNCHANGED vars PROVE IInv'
  OBVIOUS
<1>1. /\ UNCHANGED <<m_, fn, pending, active, available_regs, reg_mappings,
                     stack_mappings, stack_size>>
      /\ pc' = pc \/ (pc = "scan" /\ pc' = "done" /\ pending = {})
  BY DEF Finish, vars
<1>2. f_' = f_ /\ (\A v : IsArg(v)' <=> IsArg(v)) /\ Holders' = Holders /\ Visited' = Visited
  BY <1>1 DEF f_, IsArg, Holders, Visited
<1>3. TypeOK' /\ Before' /\ InOrder' /\ Gone' /\ Exclusive' /\ NoLeak'
  BY <1>1, <1>2 DEF IInv, TypeOK, Before, InOrder, Gone, Exclusive, NoLeak
<1>4. Placement'
  BY <1>1, <1>2 DEF IInv, Placement
<1>5. NoInterference'
  BY <1>1, <1>2 DEF IInv, NoInterference, Resident, Overlap
<1>6. QED BY <1>1, <1>3, <1>4, <1>5 DEF IInv

LEMMA NextIInv == IInv /\ [Next]_vars => IInv'
<1> SUFFICES ASSUME IInv, [Next]_vars PROVE IInv'
  OBVIOUS
<1>1. CASE PreAllocateArgs
  BY <1>1, PreAllocateIInv
<1>2. CASE \E i \in Val : Scan(i)
  <2>1. PICK i \in Val : Scan(i)
    BY <1>2
  <2>2. i \in pending
    BY <2>1 DEF Scan, SkipArg, AssignReg, SpillActive, SpillSelf, WantsReg, WantsSpill, IsNext
  <2>3. QED
    BY <2>1, <2>2, SkipArgIInv, AssignRegIInv, SpillActiveIInv, SpillSelfIInv DEF Scan
<1>3. CASE Finish \/ UNCHANGED vars
  BY <1>3, FinishIInv
<1>4. CASE NextFunction
  BY <1>4, NextFunctionIInv
<1>5. QED BY <1>1, <1>2, <1>3, <1>4 DEF Next

LEMMA Invariant == Spec => []IInv
<1>1. QED BY InitIInv, NextIInv, PTL DEF Spec
-----------------------------------------------------------------------------
(***************************************************************************)
(* Type correctness of the allocator's maps.                               *)
(***************************************************************************)
THEOREM TypeCorrect == Spec => []TypeOK
<1>1. IInv => TypeOK
  BY DEF IInv
<1>2. QED BY <1>1, Invariant, PTL

(***************************************************************************)
(* No two values that stay in the same register for the whole of their     *)
(* intervals overlap: ExpireOldIntervals, assign_reg and SpillAtInterval   *)
(* together never hand out a register that is still needed.                *)
(***************************************************************************)
THEOREM Interference == Spec => []NoInterference
<1>1. IInv => NoInterference
  BY DEF IInv
<1>2. QED BY <1>1, Invariant, PTL

(***************************************************************************)
(* free_reg gives back exactly what assign_reg and pre_allocate_args took: *)
(* each register is available or has one holder.                           *)
(***************************************************************************)
THEOREM Conservation == Spec => []RegistersConserved
<1>1. NoReg \notin Pool
  BY NoRegNotInPool
<1>2. IInv => RegistersConserved
  <2>1. SUFFICES ASSUME IInv, pc # "args", NEW r \in Pool
                 PROVE  \/ r \in available_regs /\ \A v \in Holders : reg_mappings[v] # r
                        \/ /\ r \notin available_regs
                           /\ \E v \in Holders : /\ reg_mappings[v] = r
                                                 /\ \A w \in Holders \ {v} : reg_mappings[w] # r
    BY DEF RegistersConserved
  <2>2. CASE r \in available_regs
    BY <2>1, <2>2, <1>1 DEF IInv, Exclusive
  <2>3. CASE r \notin available_regs
    <3>1. PICK v \in Holders : reg_mappings[v] = r
      BY <2>1, <2>3 DEF IInv, NoLeak
    <3>2. \A w \in Holders \ {v} : reg_mappings[w] # r
      BY <2>1, <3>1, <1>1 DEF IInv, Exclusive
    <3>3. QED BY <2>3, <3>1, <3>2
  <2>4. QED BY <2>2, <2>3
<1>3. QED BY <1>2, Invariant, PTL

-----------------------------------------------------------------------------
(***************************************************************************)
(* Where Reg(-1) comes from.  It is handed on, freed and found again, so   *)
(* the invariant is about every place it can be in.                        *)
(***************************************************************************)
SomeRanOut == \E u \in DOMAIN f_.start : RanOut(u)
InvalidReg == NoReg \in available_regs \/ \E v \in DOMAIN reg_mappings : reg_mappings[v] = NoReg
Sound      == InvalidReg => SomeRanOut

\* When no register of its class is free for i, each is held by a rival of i.
LEMMA ClassUsedUp ==
  ASSUME IInv, NEW i \in pending, IsNext(i), ~IsArg(i),
         OfClass(AvailableRegs(i), f_.float[i]) = {}
  PROVE  RanOut(i)
<1> DEFINE C == OfClass(Pool, f_.float[i])
           R == Rivals(i)
           H == [r \in C |-> CHOOSE v \in R : reg_mappings[v] = r]
<1>1. /\ IsFunction(f_) /\ i \in DOMAIN f_.start /\ pending \subseteq DOMAIN f_.start
      /\ active \subseteq DOMAIN f_.start /\ DOMAIN reg_mappings \subseteq DOMAIN f_.start
  BY FunctionType DEF IInv, TypeOK
<1>2. ASSUME NEW r \in C PROVE \E v \in R : reg_mappings[v] = r
  <2>1. r \in Pool /\ r \notin AvailableRegs(i) BY DEF OfClass
  <2>2. PICK v \in StillActive(i) \cup Args : reg_mappings[v] = r BY <2>1, ExpireFacts
  <2>3. CASE v \in Args BY <1>1, <2>2, <2>3 DEF Args, Rivals
  <2>4. CASE v \in StillActive(i)
    <3>1. v \in active /\ v \in Visited /\ ~(f_.end[v] < f_.start[i])
      BY <2>4 DEF StillActive, Expired, IInv, Placement
    <3>2. f_.start[v] <= f_.start[i] /\ v # i BY <3>1 DEF IInv, InOrder, Visited
    <3>3. f_.start[i] <= f_.end[v] BY <1>1, <3>1 DEF IsFunction
    <3> QED BY <1>1, <2>2, <3>1, <3>2, <3>3 DEF Rivals
  <2> QED BY <2>2, <2>3, <2>4
<1>3. H \in Injection(C, R)
  <2>1. \A r \in C : H[r] \in R /\ reg_mappings[H[r]] = r BY <1>2
  <2> HIDE DEF C, R
  <2>2. H \in [C -> R] BY <2>1
  <2>3. \A r, q \in C : H[r] = H[q] => r = q BY <2>1
  <2> QED BY <2>2, <2>3 DEF Injection, IsInjective
<1>4. IsFiniteSet(R)
  <2>1. R \subseteq DOMAIN f_.start BY DEF Rivals
  <2>2. IsFiniteSet(DOMAIN f_.start) BY <1>1 DEF IsFunction
  <2> QED BY <2>1, <2>2, FS_Subset, Zenon
<1> HIDE DEF C, R, H
<1>5. IsFiniteSet(C) /\ Cardinality(C) <= Cardinality(R) BY <1>3, <1>4, FS_Injection, Zenon
<1>6. Cardinality(C) \in Nat /\ Cardinality(R) \in Nat BY <1>4, <1>5, FS_CardinalityType
<1> QED BY <1>5, <1>6 DEF RanOut, C, R

LEMMA AssignSound == ASSUME IInv, Sound, NEW i \in pending, AssignReg(i) PROVE Sound'
<1>1. IsNext(i) /\ ~IsArg(i) /\ f_' = f_ /\ i \in DOMAIN f_.start
  BY DEF AssignReg, WantsReg, IInv, TypeOK, f_
<1>2. SomeRanOut' <=> SomeRanOut BY <1>1 DEF SomeRanOut, RanOut, Rivals, IsArg
<1>3. PICK r : /\ Found(r, AvailableRegs(i), f_.float[i])
               /\ reg_mappings' = Put(reg_mappings, i, r)
               /\ available_regs' = AvailableRegs(i) \ {r}
  BY DEF AssignReg
<1>4. InvalidReg' => InvalidReg \/ r = NoReg
  BY <1>3 DEF InvalidReg, Put, AvailableRegs, Expired, IInv, Placement
<1>5. r = NoReg => InvalidReg \/ RanOut(i)
  <2>1. CASE r \in AvailableRegs(i)
    BY <2>1 DEF AvailableRegs, Expired, InvalidReg, IInv, Placement
  <2>2. CASE OfClass(AvailableRegs(i), f_.float[i]) = {} BY <1>1, <2>2, ClassUsedUp
  <2> QED BY <1>3, <2>1, <2>2 DEF Found, OfClass
<1> QED BY <1>1, <1>2, <1>4, <1>5 DEF Sound, SomeRanOut

LEMMA NextSound == IInv /\ Sound /\ [Next]_vars => Sound'
<1> SUFFICES ASSUME IInv, Sound, [Next]_vars PROVE Sound'
  OBVIOUS
<1>1. CASE PreAllocateArgs
  <2>1. IsFunction(f_) /\ f_' = f_ /\ UsedArgs \subseteq DOMAIN f_.args
    BY <1>1, FunctionType DEF IInv, TypeOK, PreAllocateArgs, f_, UsedArgs
  <2>2. \A v \in DOMAIN reg_mappings' : reg_mappings'[v] \in Pool
    <3>1. \A v \in DOMAIN reg_mappings' : \E k \in UsedArgs : reg_mappings'[v] = ArgReg(k)
      <4> DEFINE S == {f_.args[k] : k \in UsedArgs}
                 at(v) == CHOOSE k \in UsedArgs : f_.args[k] = v
      <4>1. reg_mappings' = [v \in S |-> ArgReg(at(v))] BY <1>1 DEF PreAllocateArgs
      <4>2. \A v \in S : at(v) \in UsedArgs OBVIOUS
      <4> HIDE DEF S, at
      <4> QED BY <4>1, <4>2
    <3> QED BY <2>1, <3>1, ArgRegDistinct
  <2>3. available_regs' \subseteq Pool BY <1>1 DEF PreAllocateArgs, IInv, Before
  <2> QED BY <2>2, <2>3, NoRegNotInPool DEF Sound, InvalidReg
<1>2. CASE \E i \in Val : Scan(i)
  <2>1. PICK i \in Val : Scan(i)
    BY <1>2
  <2>2. i \in pending
    BY <2>1 DEF Scan, SkipArg, AssignReg, SpillActive, SpillSelf, WantsReg, WantsSpill, IsNext
  <2>3. CASE AssignReg(i) BY <2>2, <2>3, AssignSound
  <2>4. CASE SkipArg(i) \/ SpillActive(i) \/ SpillSelf(i)
    <3>1. f_' = f_ BY <2>4 DEF SkipArg, SpillActive, SpillSelf, f_
    <3>2. SomeRanOut' <=> SomeRanOut BY <3>1 DEF SomeRanOut, RanOut, Rivals, IsArg
    <3>3. available_regs' = AvailableRegs(i) BY <2>4 DEF SkipArg, SpillActive, SpillSelf
    <3>4. \/ reg_mappings' = reg_mappings
          \/ \E spill \in active : reg_mappings' = Put(reg_mappings, i, reg_mappings[spill])
      BY <2>4 DEF SkipArg, SpillActive, SpillSelf
    <3>5. InvalidReg' => InvalidReg
      BY <3>3, <3>4 DEF InvalidReg, Put, AvailableRegs, Expired, IInv, Placement
    <3> QED BY <3>2, <3>5 DEF Sound
  <2> QED BY <2>1, <2>3, <2>4 DEF Scan
<1>3. CASE Finish \/ UNCHANGED vars
  <2>1. UNCHANGED <<m_, fn, available_regs, reg_mappings>> BY <1>3 DEF Finish, vars
  <2> QED BY <2>1 DEF Sound, InvalidReg, SomeRanOut, RanOut, Rivals, IsArg, f_
<1>4. CASE NextFunction
  BY <1>4, NoRegNotInPool DEF NextFunction, Empty, Sound, InvalidReg
<1> QED BY <1>1, <1>2, <1>3, <1>4 DEF Next

(***************************************************************************)
(* Every interval ends up with a stack slot or a register of the machine,  *)
(* unless more values compete for a class at some point than it has        *)
(* registers, which is how assign_reg comes to hand out Reg(-1).           *)
(***************************************************************************)
THEOREM Placed == Spec => []AllPlaced
<1>1. Init => Sound BY NoRegNotInPool DEF Init, Empty, Sound, InvalidReg
<1>2. IInv /\ Sound => AllPlaced
  BY DEF IInv, AllPlaced, Placement, Visited, TypeOK, Sound, InvalidReg, SomeRanOut
<1> QED BY <1>1, <1>2, NextSound, Invariant, PTL DEF Spec

(***************************************************************************)
(* In every step that sends a value to the stack, that value ends no       *)
(* earlier than any that keeps a register: *active.rbegin() against i.     *)
(***************************************************************************)
THEOREM Longest == Spec => SpillLongest
<1> DEFINE Spills == \A v \in DOMAIN stack_mappings' \ DOMAIN stack_mappings :
                       \A w \in active' : f_.end[w] <= f_.end[v]
<1>1. IInv /\ Next => Spills
  <2> SUFFICES ASSUME IInv, Next,
                      NEW v \in DOMAIN stack_mappings' \ DOMAIN stack_mappings, NEW w \in active'
               PROVE  f_.end[w] <= f_.end[v]
    OBVIOUS
  <2>1. f_.end \in [DOMAIN f_.start -> Nat] /\ active \subseteq DOMAIN f_.start /\ pending \subseteq DOMAIN f_.start
    BY FunctionType DEF IInv, TypeOK, IsFunction
  <2>2. PICK i \in Val : SpillActive(i) \/ SpillSelf(i)
    <3>1. CASE NextFunction
      BY <3>1 DEF NextFunction, Empty
    <3> QED BY <3>1 DEF Next, Scan, PreAllocateArgs, SkipArg, AssignReg, Finish
  <2>3. i \in DOMAIN f_.start
    BY <2>1, <2>2 DEF SpillActive, SpillSelf, WantsSpill, IsNext
  <2>4. CASE SpillActive(i)
    <3>1. PICK spill \in active : /\ IsLast(spill, StillActive(i))
                                  /\ f_.end[i] < f_.end[spill]
                                  /\ stack_mappings' = Put(stack_mappings, spill, -f_.size[spill])
                                  /\ active' = (StillActive(i) \ {spill}) \cup {i}
      BY <2>4 DEF SpillActive
    <3>2. v = spill
      BY <3>1 DEF Put
    <3> QED BY <2>1, <2>3, <3>1, <3>2 DEF IsLast, StillActive
  <2>5. CASE SpillSelf(i)
    <3>1. PICK spill \in active : IsLast(spill, StillActive(i)) /\ ~(f_.end[i] < f_.end[spill])
      BY <2>5 DEF SpillSelf
    <3>2. v = i /\ w \in StillActive(i)
      BY <2>5 DEF SpillSelf, Put
    <3>3. w \in DOMAIN f_.start /\ f_.end[w] <= f_.end[spill]
      BY <2>1, <3>1, <3>2 DEF IsLast, StillActive
    <3> QED BY <2>1, <2>3, <3>1, <3>2, <3>3
  <2> QED BY <2>2, <2>4, <2>5
<1>2. IInv /\ [Next]_vars => [Spills]_vars
  BY <1>1
<1> QED BY <1>2, Invariant, PTL DEF Spec, SpillLongest

=============================================================================
