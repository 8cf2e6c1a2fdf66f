---------------------------- MODULE Mem2RegSemantics ----------------------------
(***************************************************************************)
(* A function is executed as it was before Mem2Reg and as it is after it,  *)
(* side by side.  The two stop at each instruction that is neither a load  *)
(* nor a store nor an alloca, go on together, and get the same result      *)
(* where what they read is the same.                                       *)
(*                                                                         *)
(* What is read from a cell nothing was stored to is Undef.  Before the    *)
(* pass a result computed from it is Undef as well, and a branch on it     *)
(* ends the execution: the program has no meaning from there on.           *)
(***************************************************************************)
EXTENDS Mem2Reg

CONSTANTS
  Data,    \* the values a program computes with, 0 among them
  Undef

VARIABLES
  bb,                                 \* the block both are in
  line0, env0, mem0, seen0,           \* the execution before the pass
  line1, env1, seen1                  \* the execution after it

old == <<line0, env0, mem0, seen0>>
new == <<line1, env1, seen1>>
vars == <<pass, bb, old, new>>

Value == Data \cup {Undef}

Before == INSTANCE IRMachine WITH
  ir <- f, line <- line0, env <- env0, mem <- mem0, seen <- seen0, Data <- Value
\* A load that stays reads a cell that is gone.
After == INSTANCE IRMachine WITH
  line <- line1, env <- env1, seen <- seen1, mem <- [v \in Allocas(f) |-> Undef], Data <- Value

Named(v) == v[1] \in {"arg", "op", "load"}

Init ==
  /\ InitPass
  /\ bb = root
  /\ line0 = 1 /\ line1 = 1
  /\ \E args \in [{v \in ValuesIn(f) : v[1] = "arg"} -> Data] :
       /\ env0 = [v \in {w \in ValuesIn(f) : Named(w)} |->
                    IF v[1] = "arg" THEN args[v] ELSE Undef]
       /\ env1 = [v \in DOMAIN env0 \cup {PhiOf(a, b) : a \in Allocas(f), b \in Block} |->
                    IF v \in DOMAIN env0 THEN env0[v] ELSE Undef]
  /\ mem0 = [v \in Allocas(f) |-> Undef]
  /\ seen0 = << >> /\ seen1 = << >>

Rename == NextPass /\ UNCHANGED <<bb, old, new>>

\* Each execution of an alloca makes a new cell.
NewCell ==
  /\ Before!Executes("alloca")
  /\ mem0' = [mem0 EXCEPT ![Before!instr] = Undef]
  /\ line0' = line0 + 1
  /\ UNCHANGED <<bb, env0, seen0>>

Memory0 == pc = "done" /\ (Before!Load \/ Before!Store \/ NewCell) /\ UNCHANGED <<pass, new>>

Waits0 == \E kind \in {"op", "br", "ret"} : Before!Executes(kind)
Waits1 == \E kind \in {"op", "br", "ret"} : After!Executes(kind)

Memory1 == pc = "done" /\ Waits0 /\ UNCHANGED <<pass, old>> /\ (After!Load \/ After!Alloca)

\* What is read at the instruction both wait at, blocks aside.
Read0 == [i \in {j \in DOMAIN f.operands[Before!instr] : Before!rand(j)[1] # "bb"} |->
            Before!Value(Before!rand(i))]
Read1 == [i \in {j \in DOMAIN ir.operands[After!instr] : After!rand(j)[1] # "bb"} |->
            After!Value(After!rand(i))]

Op ==
  /\ Before!Op
  /\ After!Op
  /\ env1'[After!instr] \in Data
  /\ env0'[Before!instr] = IF Undef \in Range(Read0) THEN Undef ELSE env1'[After!instr]

\* A phi without an operand for the branch is Undef.
Branch ==
  /\ Undef \notin Range(Read0)
  /\ Before!Branch
  /\ After!Branch
  /\ \A p \in After!Phis(bb') : After!Incoming(p) = {} => env1'[p] = Undef

Together ==
  /\ pc = "done" /\ Waits0 /\ Waits1
  /\ UNCHANGED pass
  /\ Op \/ Branch \/ (Before!Ret /\ After!Ret)

Next == Rename \/ Memory0 \/ Memory1 \/ Together

Spec == Init /\ [][Next]_vars
-----------------------------------------------------------------------------
(***************************************************************************)
(* Where both wait, they wait at the same instruction, and what the one    *)
(* reads the other does, unless it has no value.  So a load has become the *)
(* value stored last on whatever path execution took.                      *)
(***************************************************************************)
SameReads ==
  pc = "done" /\ Waits0 /\ Waits1 =>
    /\ Before!instr = After!instr
    /\ DOMAIN Read0 = DOMAIN Read1
    /\ \A i \in DOMAIN Read0 : Read0[i] # Undef => Read1[i] = Read0[i]
=============================================================================
