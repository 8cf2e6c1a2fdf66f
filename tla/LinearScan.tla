------------------------------ MODULE LinearScan ------------------------------
(***************************************************************************)
(* The register allocator of src/src/codegen/regalloc.cpp once the live    *)
(* intervals of a function are known: RegAlloc::pre_allocate_args and      *)
(* RegAlloc::LinearScanRegisterAllocation with the helpers it calls, for   *)
(* every function of a module in turn (RegAlloc::run).                     *)
(*                                                                         *)
(* A function is what init_func leaves behind: its parameters, the type    *)
(* class and the size of its values, the interval of each value that has   *)
(* one, and the bytes of the frame taken by saved registers and allocas.   *)
(* A point <bbindex, line_no> of an interval is a natural number: the      *)
(* allocator only compares points.  How intervals are computed is the      *)
(* subject of module LiveIntervals.                                        *)
(***************************************************************************)
EXTENDS Integers, Sequences, FiniteSets

CONSTANTS
  Val,       \* Value* of a function: its parameters and its named instructions
  TempIds,   \* register numbers of the temporaries, in regs and in fregs
  ArgIds,    \* register numbers of the argument registers, in args and in fargs
  Modules    \* the modules the allocator may be run on

Reg(id, f) == [id |-> id, f |-> f]

\* Reg() with its default arguments: operator bool() says it is no register.
NoReg == Reg(-1, FALSE)

regs   == {Reg(i, FALSE) : i \in TempIds}
fregs  == {Reg(i, TRUE) : i \in TempIds}
Pool   == {Reg(i, f) : i \in TempIds \cup {ArgIds[k] : k \in DOMAIN ArgIds},
                       f \in BOOLEAN}

\* active.size() never exceeds this: regs.size() + fregs.size().
Capacity == Cardinality(regs) + Cardinality(fregs)

IsFunction(f) ==
  /\ f.args \in Seq(Val)
  /\ \A j, k \in DOMAIN f.args : f.args[j] = f.args[k] => j = k
  /\ f.float \in [Val -> BOOLEAN]
  /\ f.size \in [Val -> Nat]
  /\ DOMAIN f.start \subseteq Val /\ IsFiniteSet(DOMAIN f.start)
  /\ f.start \in [DOMAIN f.start -> Nat]
  /\ f.end \in [DOMAIN f.start -> Nat]
  /\ f.frame \in Nat
  \* args[k] and fargs[k] are read without a check: no more parameters than
  \* registers of a class.
  /\ \A c \in BOOLEAN :
       Cardinality({k \in DOMAIN f.args : f.float[f.args[k]] = c}) <= Len(ArgIds)

ASSUME RegisterAssumption ==
  /\ TempIds \subseteq Nat /\ IsFiniteSet(TempIds) /\ TempIds # {}
  /\ ArgIds \in Seq(Nat)
  /\ \A j, k \in DOMAIN ArgIds : ArgIds[j] = ArgIds[k] => j = k
  /\ \A k \in DOMAIN ArgIds : ArgIds[k] \notin TempIds

ASSUME ModuleAssumption ==
  \A m \in Modules : /\ Len(m) \in Nat \ {0} /\ DOMAIN m = 1..Len(m)
                     /\ \A k \in DOMAIN m : IsFunction(m[k])

VARIABLES
  m_,              \* the module
  fn,              \* index in m_ of the function being allocated
  pc,              \* "args", "scan" or "done"
  pending,         \* values whose interval the loop over intervals has to visit
  active,          \* values whose interval is in active
  available_regs,
  reg_mappings,    \* partial function from values to registers
  stack_mappings,  \* partial function from spilled values to offsets
  stack_size

vars == <<m_, fn, pc, pending, active, available_regs, reg_mappings,
          stack_mappings, stack_size>>

f_ == m_[fn]

IsArg(v) == \E k \in DOMAIN f_.args : f_.args[k] = v

\* The partial function g with g[v] = x added or replaced.
Put(g, v, x) == [w \in DOMAIN g \cup {v} |-> IF w = v THEN x ELSE g[w]]
Empty == [v \in {} |-> NoReg]
-----------------------------------------------------------------------------
\* What init_func leaves for the first function of the module.
Init ==
  /\ m_ \in Modules
  /\ fn = 1
  /\ pc = "args"
  /\ pending = DOMAIN f_.start
  /\ active = {}
  /\ available_regs = Pool
  /\ reg_mappings = Empty
  /\ stack_mappings = Empty
  /\ stack_size = f_.frame

(***************************************************************************)
(* pre_allocate_args: the k-th parameter of its class gets the k-th        *)
(* argument register of that class if it is used at all.                   *)
(***************************************************************************)
ArgReg(k) ==
  LET class == {j \in 1..k : f_.float[f_.args[j]] = f_.float[f_.args[k]]}
  IN  Reg(ArgIds[Cardinality(class)], f_.float[f_.args[k]])

\* A definition named Bad... is what a slip in the code would make of the one
\* after it; no other definition refers to it.
BadUsedArgs == DOMAIN f_.args
UsedArgs == {k \in DOMAIN f_.args : f_.args[k] \in DOMAIN f_.start}

PreAllocateArgs ==
  /\ pc = "args"
  /\ pc' = "scan"
  /\ reg_mappings' = [v \in {f_.args[k] : k \in UsedArgs} |->
                        ArgReg(CHOOSE k \in UsedArgs : f_.args[k] = v)]
  /\ available_regs' = available_regs \ {ArgReg(k) : k \in UsedArgs}
  /\ UNCHANGED <<m_, fn, pending, active, stack_mappings, stack_size>>
-----------------------------------------------------------------------------
(***************************************************************************)
(* One iteration of the loop of LinearScanRegisterAllocation, for value i. *)
(* The set intervals is ordered by start, then by the address of the value *)
(* (IntervalLess): among equal starts any value may come first.            *)
(***************************************************************************)
IsNext(i) ==
  /\ pc = "scan"
  /\ i \in pending
  /\ \A j \in pending : f_.start[i] <= f_.start[j]

(***************************************************************************)
(* ExpireOldIntervals: active is ordered by end, so stopping at the first  *)
(* interval that reaches i removes exactly those that end before i starts. *)
(* Their registers go back to the pool, an invalid one included.           *)
(***************************************************************************)
BadExpired(i)    == {j \in active : f_.end[j] <= f_.start[i]}
Expired(i)       == {j \in active : f_.end[j] < f_.start[i]}
StillActive(i)   == active \ Expired(i)
BadAvailableRegs(i) == available_regs
AvailableRegs(i) == available_regs \cup {reg_mappings[j] : j \in Expired(i)}

\* A parameter keeps its pre-allocated register and is never put in active.
SkipArg(i) ==
  /\ IsNext(i)
  /\ IsArg(i)
  /\ active' = StillActive(i)
  /\ available_regs' = AvailableRegs(i)
  /\ pending' = pending \ {i}
  /\ UNCHANGED <<m_, fn, pc, reg_mappings, stack_mappings, stack_size>>

WantsReg(i)   == IsNext(i) /\ ~IsArg(i) /\ Cardinality(StillActive(i)) # Capacity
WantsSpill(i) == IsNext(i) /\ ~IsArg(i) /\ Cardinality(StillActive(i)) = Capacity

(***************************************************************************)
(* The register assign_reg finds: available_regs is ordered by number, so  *)
(* it is the first of the class of i; if there is none, r is left invalid. *)
(***************************************************************************)
OfClass(S, c) == {r \in S : r.f = c}
Found(r, S, c) ==
  \/ r \in OfClass(S, c) /\ \A q \in OfClass(S, c) : r.id <= q.id
  \/ r = NoReg /\ OfClass(S, c) = {}

\* The two asserts of assign_reg; the program stops where one fails.
CanAssign(i) == AvailableRegs(i) # {} /\ i \notin DOMAIN reg_mappings

AssignReg(i) ==
  /\ WantsReg(i)
  /\ CanAssign(i)
  /\ \E r \in AvailableRegs(i) \cup {NoReg} :
       /\ Found(r, AvailableRegs(i), f_.float[i])
       /\ reg_mappings' = Put(reg_mappings, i, r)
       /\ available_regs' = AvailableRegs(i) \ {r}
  /\ active' = StillActive(i) \cup {i}
  /\ pending' = pending \ {i}
  /\ UNCHANGED <<m_, fn, pc, stack_mappings, stack_size>>

(***************************************************************************)
(* SpillAtInterval: *active.rbegin() is an interval with the largest end,  *)
(* again any one among equals.  The offset recorded for a spilled value is *)
(* minus its own size, not minus the size of the frame.                    *)
(***************************************************************************)
BadIsLast(s, S) == s \in S /\ \A j \in S : f_.end[s] <= f_.end[j]
IsLast(s, S) == s \in S /\ \A j \in S : f_.end[j] <= f_.end[s]

SpillActive(i) ==
  /\ WantsSpill(i)
  /\ \E spill \in active :
       /\ IsLast(spill, StillActive(i))
       /\ f_.end[i] < f_.end[spill]
       /\ reg_mappings' = Put(reg_mappings, i, reg_mappings[spill])
       /\ stack_size' = stack_size + f_.size[spill]
       /\ stack_mappings' = Put(stack_mappings, spill, -f_.size[spill])
       /\ active' = (StillActive(i) \ {spill}) \cup {i}
  /\ available_regs' = AvailableRegs(i)
  /\ pending' = pending \ {i}
  /\ UNCHANGED <<m_, fn, pc>>

SpillSelf(i) ==
  /\ WantsSpill(i)
  /\ \E spill \in active :
       IsLast(spill, StillActive(i)) /\ ~(f_.end[i] < f_.end[spill])
  /\ stack_size' = stack_size + f_.size[i]
  /\ stack_mappings' = Put(stack_mappings, i, -f_.size[i])
  /\ active' = StillActive(i)
  /\ available_regs' = AvailableRegs(i)
  /\ pending' = pending \ {i}
  /\ UNCHANGED <<m_, fn, pc, reg_mappings>>

\* The end of the loop: run() stores the maps of this function.
Finish ==
  /\ pc = "scan"
  /\ pending = {}
  /\ pc' = "done"
  /\ UNCHANGED <<m_, fn, pending, active, available_regs, reg_mappings,
                 stack_mappings, stack_size>>

BadNextFunctionPool ==
  /\ pc = "done"
  /\ fn < Len(m_)
  /\ fn' = fn + 1
  /\ pc' = "args"
  /\ pending' = DOMAIN m_[fn + 1].start
  /\ active' = {}
  /\ reg_mappings' = Empty
  /\ stack_mappings' = Empty
  /\ stack_size' = m_[fn + 1].frame
  /\ UNCHANGED <<m_, available_regs>>

\* The next iteration of run(): init_func resets everything it owns.
NextFunction ==
  /\ pc = "done"
  /\ fn < Len(m_)
  /\ fn' = fn + 1
  /\ pc' = "args"
  /\ pending' = DOMAIN m_[fn + 1].start
  /\ active' = {}
  /\ available_regs' = Pool
  /\ reg_mappings' = Empty
  /\ stack_mappings' = Empty
  /\ stack_size' = m_[fn + 1].frame
  /\ UNCHANGED m_

Scan(i) == SkipArg(i) \/ AssignReg(i) \/ SpillActive(i) \/ SpillSelf(i)

Next == PreAllocateArgs \/ (\E i \in Val : Scan(i)) \/ Finish \/ NextFunction

Spec == Init /\ [][Next]_vars
-----------------------------------------------------------------------------
Register == Pool \cup {NoReg}

TypeOK ==
  /\ fn \in DOMAIN m_
  /\ pc \in {"args", "scan", "done"}
  /\ pending \subseteq DOMAIN f_.start
  /\ active \subseteq DOMAIN f_.start
  /\ available_regs \subseteq Register
  /\ DOMAIN reg_mappings \subseteq DOMAIN f_.start
  /\ reg_mappings \in [DOMAIN reg_mappings -> Register]
  /\ DOMAIN stack_mappings \subseteq DOMAIN f_.start
  /\ stack_mappings \in [DOMAIN stack_mappings -> Int]
  /\ stack_size \in Nat

Overlap(v, w) == f_.start[v] <= f_.end[w] /\ f_.start[w] <= f_.end[v]

\* v stays in its register for the whole of its interval.
Resident(v) == /\ v \in DOMAIN reg_mappings \ DOMAIN stack_mappings
               /\ reg_mappings[v] # NoReg

(***************************************************************************)
(* Two values whose intervals overlap are never kept in one register.  An  *)
(* interval expires, is evicted, or leaves its register to another in      *)
(* different iterations; the pair that clashes need not be adjacent.       *)
(***************************************************************************)
NoInterference ==
  \A v, w \in DOMAIN f_.start :
    /\ Resident(v) /\ Resident(w) /\ v # w
    /\ reg_mappings[v] = reg_mappings[w]
    => ~Overlap(v, w)

\* The values whose register cannot be given to another one.
Holders == active \cup {v \in DOMAIN reg_mappings : IsArg(v)}

(***************************************************************************)
(* No register is lost and none is held twice: while the scan runs each    *)
(* one is either available or held by exactly one active value or used     *)
(* parameter.                                                              *)
(***************************************************************************)
RegistersConserved ==
  pc # "args" =>
    \A r \in Pool :
      \/ r \in available_regs /\ \A v \in Holders : reg_mappings[v] # r
      \/ /\ r \notin available_regs
         /\ \E v \in Holders : /\ reg_mappings[v] = r
                               /\ \A w \in Holders \ {v} : reg_mappings[w] # r

\* What may hold a register when the interval of v begins.
Rivals(v) ==
  {w \in DOMAIN f_.start \ {v} : IsArg(w) \/ (f_.start[w] <= f_.start[v] /\ f_.start[v] <= f_.end[w])}
\* They are as many as there are registers of the class of v.
RanOut(v) == Cardinality(Rivals(v)) >= Cardinality(OfClass(Pool, f_.float[v]))

(***************************************************************************)
(* Once the scan ends every interval has a stack slot or a register, and   *)
(* that is a register of the machine unless the code ran out of them: the  *)
(* limit on active counts both classes, so one class can be used up below  *)
(* it.  Then assign_reg leaves Reg(-1), which is handed on and even freed. *)
(* No history of spills, expiries and functions before makes it appear     *)
(* where, at the start of every interval, fewer compete than a class has.  *)
(***************************************************************************)
AllPlaced ==
  pc = "done" =>
    \A v \in DOMAIN f_.start \ DOMAIN stack_mappings :
      /\ v \in DOMAIN reg_mappings
      /\ reg_mappings[v] = NoReg => \E u \in DOMAIN f_.start : RanOut(u)

\* The value SpillAtInterval sends to the stack ends last of all candidates.
SpillLongest ==
  [][\A v \in DOMAIN stack_mappings' \ DOMAIN stack_mappings :
       \A w \in active' : f_.end[w] <= f_.end[v]]_vars
=============================================================================
