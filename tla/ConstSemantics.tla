---------------------------- MODULE ConstSemantics ----------------------------
(***************************************************************************)
(* A function is executed as it was before ConstPropagation and as it is   *)
(* after it, side by side.  The two stop at calls, branches and returns    *)
(* and go on together; a call may store anything to the globals.           *)
(*                                                                         *)
(* The arithmetic is that of the machine: integers of Width bits, whose    *)
(* division by zero gives -1.  Floats are taken to be the same on the host *)
(* and on the machine.                                                     *)
(***************************************************************************)
EXTENDS ConstPropagation

CONSTANTS
  Data,    \* what arguments, globals and the results of calls may be
  Undef    \* what an instruction holds before it is executed

\* Operand i of x is the address of a load or store.
IsAddress(x, i) == (x[1] = "load" /\ i = 1) \/ (x[1] = "store" /\ i = 2)
IsValue(g, v)   == v \in InstrsIn(g) \cup Constants \/ v[1] = "arg"

\* The branch x at the end of b goes to successors of b.
IsBranch(g, b, x) ==
  LET ops_ == g.operands[x]
  IN  /\ Len(ops_) \in {1, 3}
      /\ \A i \in DOMAIN ops_ : IF Len(ops_) = 3 /\ i = 1 THEN IsValue(g, ops_[i]) ELSE ops_[i] \in SuccOf(g, b)

\* The phi x has for each predecessor p of its block one value, which is computed where p ends.
IsPhiFor(g, x, p) ==
  LET ops_ == g.operands[x]
  IN  \E i \in DOMAIN ops_ :
        /\ i > 1 /\ ops_[i] = p
        /\ IsValue(g, ops_[i - 1])
        /\ ops_[i - 1] \in InstrsIn(g) => Available(g, ops_[i - 1], p, Len(g.code[p]) + 1)
        /\ \A k \in DOMAIN ops_ : ops_[k] = p => k = i

\* The function can be executed: labels are blocks, phis come first, branches last
\* and none leads to the entry.
IsExecutable(g) ==
  /\ \A b \in Block : b[1] = "bb"
  /\ \A x \in InstrsIn(g) :
       /\ x[1] \in {"op", "load", "store", "phi", "call", "br", "ret"}
       /\ IF x[1] = "op" THEN g.opcode[x] \in Binary \cup {"fptosi", "sitofp", "zext"} ELSE g.opcode[x] = x[1]
       /\ \A i \in DOMAIN g.operands[x] :
            IF IsAddress(x, i) THEN g.operands[x][i][1] \in {"global", "cell"}
            ELSE x[1] \in {"br", "phi"} \/ IsValue(g, g.operands[x][i])
  /\ \A b \in Blocks(g) : \A j \in DOMAIN g.code[b] :
       LET x == g.code[b][j]
       IN  /\ x[1] = "br" => j = Len(g.code[b]) /\ IsBranch(g, b, x)
           /\ x[1] = "phi" => /\ \A i \in 1..(j - 1) : g.code[b][i][1] = "phi"
                              /\ \A p \in PredsOf(g, b) : IsPhiFor(g, x, p)
  /\ \A b \in Blocks(g) : Entry(g) \notin SuccOf(g, b)

\* Instruction i of b stores under the key k, and is the last to do so before j.
StoresTo(g, b, i, k)   == g.code[b][i][1] = "store" /\ Key(g.operands[g.code[b][i]][2]) = k
StoredLast(g, b, i, j, k) ==
  i < j /\ StoresTo(g, b, i, k) /\ \A h \in (i + 1)..(j - 1) : ~StoresTo(g, b, h, k)
Calls(g, b, i, j) == \E h \in (i + 1)..(j - 1) : g.code[b][h][1] = "call"

\* What the map says of a cell is true where it is loaded: the store was to the same
\* address and nothing was called since, and what the globals begin with is taken for
\* their content only by main.
MapIsTrue(g) ==
  \A b \in Blocks(g) : \A j \in DOMAIN g.code[b] : g.code[b][j][1] = "load" =>
    LET addr == g.operands[g.code[b][j]][1]
    IN  /\ \A i \in DOMAIN g.code[b] : StoredLast(g, b, i, j, Key(addr)) =>
             /\ g.operands[g.code[b][i]][2] = addr
             /\ addr[1] = "global" => ~Calls(g, b, i, j)
        /\ g.first /\ b = Entry(g) /\ addr[1] = "global" /\ (\A i \in 1..(j - 1) : ~StoresTo(g, b, i, Key(addr))) =>
             g.main /\ ~Calls(g, b, 0, j)

ASSUME ExecutionAssumption == \A g \in Functions : IsExecutable(g) /\ MapIsTrue(g)
ASSUME UndefAssumption     == Undef \notin Int

VARIABLES
  bb0,                        \* the block both are in
  line0, env0, mem0, seen0,   \* the execution before the pass
  line1, env1, mem1, seen1    \* the execution after it

old == <<line0, env0, mem0, seen0>>
new == <<line1, env1, mem1, seen1>>
vars == <<pass, bb0, old, new>>

Value == (-MaxFloat)..MaxFloat \cup {Undef}

Before == INSTANCE IRMachine WITH
  ir <- f, bb <- bb0, line <- line0, env <- env0, mem <- mem0, seen <- seen0, Data <- Value
After == INSTANCE IRMachine WITH
  bb <- bb0, line <- line1, env <- env1, mem <- mem1, seen <- seen1, Data <- Value

Named(v) == v[1] \notin {"const", "bb", "global", "cell"}
Cells(g) == {v \in ValuesIn(g) : v[1] \in {"global", "cell"}}

\* main is called first, when the globals are zero.
Init ==
  /\ InitPass
  /\ bb0 = f.bbs[1]
  /\ line0 = 1 /\ line1 = 1
  /\ \E args \in [{v \in ValuesIn(f) : v[1] = "arg"} -> Data] :
       env0 = [v \in {w \in ValuesIn(f) : Named(w)} \cup {<<"fconst", n>> : n \in (-MaxFloat)..MaxFloat} \cup {Zero} |->
                 CASE v[1] = "arg" -> args[v] [] v[1] = "fconst" -> v[2] [] v = Zero -> 0
                   [] OTHER -> Undef]
  /\ env1 = env0
  /\ mem0 \in [Cells(f) -> IF f.main THEN {0} ELSE Data]
  /\ mem1 = mem0
  /\ seen0 = << >> /\ seen1 = << >>

Propagate == NextPass /\ UNCHANGED <<bb0, old, new>>

\* Two's complement, and division as multiplication defines it.
Divides(q, a, b) ==
  \E r \in MinInt..(-MinInt) :
    /\ a = q * b + r
    /\ Abs(r) < Abs(b)
    /\ r # 0 => (r < 0) = (a < 0)
IntResult(o, a, b) ==
  CHOOSE n \in MinInt..(-MinInt - 1) :
    CASE o = "add" -> (n - (a + b)) % (2 ^ Width) = 0
      [] o = "sub" -> (n - (a - b)) % (2 ^ Width) = 0
      [] o = "mul" -> (n - (a * b)) % (2 ^ Width) = 0
      [] o = "sdiv" -> IF b = 0 THEN n = -1
                       ELSE IF a = MinInt /\ b = -1 THEN n = a ELSE Divides(n, a, b)

Holds(o, a, b) ==
  CASE o \in {"eq", "feq"} -> a = b [] o \in {"ne", "fne"} -> ~(a = b)
    [] o \in {"lt", "flt"} -> a < b [] o \in {"ge", "fge"} -> ~(a < b)
    [] o \in {"gt", "fgt"} -> b < a [] o \in {"le", "fle"} -> ~(b < a)

\* An integer part n of the float a.
IntPart(n, a) == Abs(2 * n) <= Abs(a) /\ Abs(a - 2 * n) < 2

Result(o, args) ==
  CASE Undef \in Range(args) -> Undef
    [] o \in IntOps -> IntResult(o, args[1], args[2])
    [] o \in FloatOps -> compute_f(o, args[1], args[2])
    [] o \in Compares \cup FCompares -> IF Holds(o, args[1], args[2]) THEN 1 ELSE 0
    [] o = "fptosi" -> CHOOSE n \in MinInt..(-MinInt - 1) : IntPart(n, args[1])
    [] o = "sitofp" -> Near(2 * args[1])
    [] o = "bittofp" -> Near(2 * (0 - args[1]))
    [] o = "zext" -> args[1]

\* sitofp of the bit of a comparison, whose sign it is: a bit that is set is -1.
FromBit(x) ==
  /\ f.opcode[x] = "sitofp"
  /\ f.operands[x][1] \in InstrsIn(f) /\ f.opcode[f.operands[x][1]] \in Compares \cup FCompares
OpOf(x) == IF FromBit(x) THEN "bittofp" ELSE f.opcode[x]

Stops == {"call", "br", "ret"}
Waits0 == \E kind \in Stops : Before!Executes(kind)
Waits1 == \E kind \in Stops : After!Executes(kind)

Alone0 ==
  /\ pc = "done" /\ ~Waits0
  /\ UNCHANGED <<pass, bb0, new>>
  /\ \/ Before!Op /\ env0'[Before!instr] = Result(OpOf(Before!instr), seen0'[2])
     \/ Before!Load
     \/ Before!Store

Alone1 ==
  /\ pc = "done" /\ Waits0 /\ ~Waits1
  /\ UNCHANGED <<pass, bb0, old>>
  /\ \/ After!Op /\ env1'[After!instr] = Result(OpOf(After!instr), seen1'[2])
     \/ After!Load
     \/ After!Store

\* The function called may store to the globals.
Globals0 == {v \in DOMAIN mem0 : v[1] = "global"}
CallSame ==
  /\ \E d \in Data, stored \in [Globals0 -> Data] :
       /\ env0' = [env0 EXCEPT ![Before!instr] = d]
       /\ env1' = [env1 EXCEPT ![After!instr] = d]
       /\ mem0' = [v \in DOMAIN mem0 |-> IF v \in Globals0 THEN stored[v] ELSE mem0[v]]
       /\ mem1' = [v \in DOMAIN mem1 |-> IF v \in Globals0 THEN stored[v] ELSE mem1[v]]
  /\ line0' = line0 + 1 /\ line1' = line1 + 1
  /\ UNCHANGED <<bb0, seen0, seen1>>

Together ==
  /\ pc = "done" /\ Waits0 /\ Waits1
  /\ UNCHANGED pass
  /\ \/ Before!Executes("call") /\ After!Executes("call") /\ CallSame
     \/ Before!Branch /\ After!Branch
     \/ Before!Ret /\ After!Ret

Next == Propagate \/ Alone0 \/ Alone1 \/ Together

Spec == Init /\ [][Next]_vars
-----------------------------------------------------------------------------
\* The pass has made a float of the bit of a comparison that holds, as of an integer.
FoldsBit ==
  \E x \in delete_list :
    LET bit == ir.operands[x][1] IN FromBit(x) /\ bit[1] = "const" /\ bit[2] # 0

(***************************************************************************)
(* report-phase2.md:31: only what can be computed is replaced.  Where both *)
(* executions wait, they wait at the same call, branch or return, read the *)
(* same, and the memory is the same.  Left out are functions in which the  *)
(* pass folds a comparison that holds and then its conversion to a float:  *)
(* what was -1.0 is 1.0 from then on (ConstPropagation.cpp:184-192).       *)
(***************************************************************************)
SameBehaviour ==
  pc = "done" /\ ~FoldsBit /\ Waits0 /\ Waits1 =>
    LET n == Len(f.operands[Before!instr])
    IN  /\ Before!instr = After!instr
        /\ mem0 = mem1
        /\ \A i \in 1..n : Before!rand(i)[1] # "bb" =>
             Before!Value(Before!rand(i)) = After!Value(After!rand(i))
=============================================================================
