------------------------------- MODULE IRMachine -------------------------------
(***************************************************************************)
(* Execution of a function of light IR, as LLVM defines it for the         *)
(* instructions the passes tell apart.  An instruction <<"op", n>> stands  *)
(* for any computation or effect: it reads its operands and may give any   *)
(* result; so does a call, for the passes that treat it on its own.  What  *)
(* an observer sees of an execution is the instruction executed last and   *)
(* the values it read.                                                     *)
(*                                                                         *)
(* The phis of a block are executed at once, by the branch into it; a phi  *)
(* without an operand for the block the branch comes from may have any     *)
(* value.  Memory holds only the cells of the allocas of the function.     *)
(***************************************************************************)
EXTENDS Integers, Sequences, FiniteSets

CONSTANT Data   \* the values a program computes with, 0 among them

VARIABLES
  ir,     \* code and operands of the function
  bb,     \* the block being executed
  line,   \* the next instruction of it, one past its end after a return
  env,    \* values of arguments and instructions
  mem,    \* contents of the cells
  seen    \* the instruction executed last, loads and stores aside, and what it read

state == <<bb, line, env, mem, seen>>

Kind(x) == x[1]

instr == ir.code[bb][line]
rand(i) == ir.operands[instr][i]
Value(v) == IF Kind(v) = "const" THEN v[2] ELSE env[v]

\* Where the phis of a block end.
Phis(b)  == {x \in {ir.code[b][j] : j \in DOMAIN ir.code[b]} : Kind(x) = "phi"}
First(b) == Cardinality(Phis(b)) + 1

Executes(kind) == line <= Len(ir.code[bb]) /\ Kind(instr) = kind

Observed(n) == <<instr, [i \in 1..n |-> Value(rand(i))]>>

Computes(kind) ==
  /\ Executes(kind)
  /\ seen' = Observed(Len(ir.operands[instr]))
  /\ \E d \in Data : env' = [env EXCEPT ![instr] = d]
  /\ line' = line + 1
  /\ UNCHANGED <<ir, bb, mem>>

Op   == Computes("op")
Call == Computes("call")

Alloca ==
  /\ Executes("alloca")
  /\ line' = line + 1
  /\ UNCHANGED <<ir, bb, env, mem, seen>>

Load ==
  /\ Executes("load")
  /\ env' = [env EXCEPT ![instr] = mem[rand(1)]]
  /\ line' = line + 1
  /\ UNCHANGED <<ir, bb, mem, seen>>

Store ==
  /\ Executes("store")
  /\ mem' = [mem EXCEPT ![rand(2)] = Value(rand(1))]
  /\ line' = line + 1
  /\ UNCHANGED <<ir, bb, env, seen>>

\* The operands the phi p has for the block that is left.
Incoming(p) ==
  {ir.operands[p][i - 1] : i \in {j \in DOMAIN ir.operands[p] : ir.operands[p][j] = bb}}

\* A branch with three operands goes to the second if the first is not zero.
Branch ==
  /\ Executes("br")
  /\ LET cond   == Len(ir.operands[instr]) = 3
         target == IF ~cond THEN rand(1) ELSE IF Value(rand(1)) # 0 THEN rand(2) ELSE rand(3)
     IN  /\ seen' = Observed(IF cond THEN 1 ELSE 0)
         /\ bb' = target
         /\ line' = First(target)
         /\ \E new \in [Phis(target) -> Data] :
              /\ \A p \in Phis(target) :
                   Incoming(p) # {} => \E v \in Incoming(p) : new[p] = Value(v)
              /\ env' = [v \in DOMAIN env |-> IF v \in Phis(target) THEN new[v] ELSE env[v]]
  /\ UNCHANGED <<ir, mem>>

Ret ==
  /\ Executes("ret")
  /\ seen' = Observed(Len(ir.operands[instr]))
  /\ line' = line + 1
  /\ UNCHANGED <<ir, bb, env, mem>>

Step == Op \/ Call \/ Alloca \/ Load \/ Store \/ Branch \/ Ret

\* The arguments are whatever the caller passes.
Start(entry) ==
  /\ bb = entry
  /\ line = 1
  /\ env \in [DOMAIN env -> Data]
  /\ seen = << >>

Spec == Start(bb) /\ [][Step]_state
=============================================================================
