---------------------------- MODULE HoistSemantics ----------------------------
(***************************************************************************)
(* A function is executed as it was before LoopInvHoist and as it is       *)
(* after it, side by side.  An instruction of kind "op" has no effect and  *)
(* its result depends on what it reads only, the same in both; results     *)
(* says which one, chosen when it is first computed.  The two stop at      *)
(* calls, branches and returns and go on together; a call may store        *)
(* anything to the globals.                                                *)
(***************************************************************************)
EXTENDS LoopInvHoist

CONSTANTS
  Data,    \* the values a program computes with
  Undef    \* what an instruction holds before it is executed

VARIABLES
  bb,                         \* the block both are in
  line0, env0, mem0, seen0,   \* the execution before the pass
  line1, env1, mem1, seen1,   \* the execution after it
  results

old == <<line0, env0, mem0, seen0>>
new == <<line1, env1, mem1, seen1>>
vars == <<search, pass, bb, old, new, results>>

Value == Data \cup {Undef}

Before == INSTANCE IRMachine WITH
  ir <- f, line <- line0, env <- env0, mem <- mem0, seen <- seen0, Data <- Value
After == INSTANCE IRMachine WITH
  line <- line1, env <- env1, mem <- mem1, seen <- seen1, Data <- Value

Init ==
  /\ InitHoist
  /\ bb = Entry(f)
  /\ line0 = 1 /\ line1 = 1
  /\ \E args \in [{v \in ValuesIn(f) : v[1] = "arg"} -> Data] :
       env0 = [v \in ValuesIn(f) |-> IF v[1] = "arg" THEN args[v] ELSE Undef]
  /\ env1 = env0
  /\ mem0 \in [{v \in ValuesIn(f) : v[1] = "global"} -> Data]
  /\ mem1 = mem0
  /\ seen0 = << >> /\ seen1 = << >>
  /\ results = << >>

Hoist == NextHoist /\ UNCHANGED <<bb, old, new, results>>

Stops == {"call", "br", "ret"}
Waits0 == \E kind \in Stops : Before!Executes(kind)
Waits1 == \E kind \in Stops : After!Executes(kind)

\* The result d for the computation key is the one it had before.
Gives(key, d) ==
  /\ d \in Data
  /\ key \in DOMAIN results => results[key] = d
  /\ results' = [k \in DOMAIN results \cup {key} |-> IF k = key THEN d ELSE results[k]]

Alone0 ==
  /\ hoist = "done" /\ ~Waits0
  /\ UNCHANGED <<search, pass, bb, new>>
  /\ \/ /\ Before!Op
        /\ Gives(Before!Observed(Len(f.operands[Before!instr])), env0'[Before!instr])
     \/ (Before!Load \/ Before!Store) /\ UNCHANGED results

Alone1 ==
  /\ hoist = "done" /\ Waits0 /\ ~Waits1
  /\ UNCHANGED <<search, pass, bb, old>>
  /\ \/ /\ After!Op
        /\ Gives(After!Observed(Len(ir.operands[After!instr])), env1'[After!instr])
     \/ (After!Load \/ After!Store) /\ UNCHANGED results

\* The function called may store to the globals.
CallSame ==
  /\ \E d \in Data, stored \in [DOMAIN mem0 -> Data] :
       /\ env0' = [env0 EXCEPT ![Before!instr] = d]
       /\ env1' = [env1 EXCEPT ![After!instr] = d]
       /\ mem0' = stored /\ mem1' = stored
  /\ line0' = line0 + 1 /\ line1' = line1 + 1
  /\ UNCHANGED <<bb, seen0, seen1>>

Together ==
  /\ hoist = "done" /\ Waits0 /\ Waits1
  /\ UNCHANGED <<search, pass, results>>
  /\ \/ Before!Executes("call") /\ After!Executes("call") /\ CallSame
     \/ Before!Branch /\ After!Branch
     \/ Before!Ret /\ After!Ret

Next == Hoist \/ Alone0 \/ Alone1 \/ Together

Spec == Init /\ [][Next]_vars /\ WF_vars(Hoist)
-----------------------------------------------------------------------------
\* In the code of the pass no instruction is before one of its block it reads.
OperandsFirst ==
  \A b \in Block : \A i, j \in DOMAIN ir.code[b] :
    ir.code[b][j] \in Range(ir.operands[ir.code[b][i]]) => j < i \/ Stays(ir.code[b][i])

\* A store has left a loop, or a load one that calls or stores to the same address.
BlockOf(x) == CHOOSE b \in Block : x \in Range(f.code[b])
Left(x) == {L \in DOMAIN loop2base : BlockOf(x) \in L /\ parent[x] \notin L}
Writes(L, addr) ==
  \E y \in InstrsIn(f) :
    BlockOf(y) \in L /\ (y[1] = "call" \/ (y[1] = "store" /\ f.operands[y][2] = addr))
MovesMemory ==
  \E x \in InstrsIn(f) :
    \/ x[1] = "store" /\ Left(x) # {}
    \/ x[1] = "load" /\ \E L \in Left(x) : Writes(L, f.operands[x][1])

(***************************************************************************)
(* report-phase2.md:42: what is moved does not depend on the loop and has  *)
(* no side effect.  Where both executions wait, they wait at the same      *)
(* call, branch or return, read the same, and the memory is the same.  The *)
(* pass does not see to that itself in two cases, and they are left out:   *)
(* when an address is lower than that of an operand moved along            *)
(* (LoopInvHoist.cpp:51), and when it has moved a store, or a load of what *)
(* the loop may have stored (24-41).                                       *)
(***************************************************************************)
SameBehaviour ==
  hoist = "done" /\ OperandsFirst /\ ~MovesMemory /\ Waits0 /\ Waits1 =>
    LET n == Len(f.operands[Before!instr])
    IN  /\ Before!instr = After!instr
        /\ mem0 = mem1
        /\ \A i \in 1..n : Before!rand(i)[1] # "bb" =>
             Before!Value(Before!rand(i)) = After!Value(After!rand(i))

(***************************************************************************)
(* LoopInvHoist::run comes to an end: every component the search finds has *)
(* a base, taking it out leaves less to search, and a loop that was dealt  *)
(* with is not met again, however much has been moved into it.             *)
(***************************************************************************)
HoistEnds == <>(hoist = "done")
=============================================================================
