------------------------------- MODULE FrontEnd -------------------------------
(***************************************************************************)
(* The front end on one program: the parser's tree becomes a syntax tree,  *)
(* the builder visits its declarations one after the other, and the module *)
(* it built is executed from main, as LLVM defines it.                     *)
(***************************************************************************)
EXTENDS CminusfBuilder, Numbers

CONSTANTS
  Programs,   \* the programs considered
  Inputs      \* what a program may read

ASSUME InputsAssumption == \A in \in Inputs : Len(in) > 0

VARIABLES
  program, input,  \* what is compiled, and what its execution reads
  pc,              \* "parse", "build", "run", "done"
  todo,            \* the declarations to be visited
  s,               \* the builder and the module
  frames,          \* the calls being executed, main first
  mem,             \* the cells
  in, out,         \* what is left to read, and what was printed
  result           \* of main

machine == <<frames, mem, in, out, result>>
vars == <<program, input, pc, todo, s, machine>>

Parser == INSTANCE SyntaxAnalyzer
Source == INSTANCE CminusMeaning

Init ==
  /\ program \in Programs
  /\ input \in Inputs
  /\ pc = "parse"
  /\ todo = << >>
  /\ s = InitBuilder
  /\ frames = << >> /\ mem = << >> /\ in = input /\ out = << >> /\ result = 0

Transform_ ==
  /\ pc = "parse"
  /\ todo' = transform_node_iter(Parser!Program(program)).declarations
  /\ pc' = "build"
  /\ UNCHANGED <<program, input, s, machine>>

VisitProgram ==
  /\ pc = "build" /\ todo # << >>
  /\ s' = visit(Head(todo), s)
  /\ todo' = Tail(todo)
  /\ UNCHANGED <<program, input, pc, machine>>
-----------------------------------------------------------------------------
Cells(t) == IF is_array_type(t) THEN t[3] ELSE 1
Zeros(n) == [i \in 1..n |-> 0]

\* A new call of f: its entry block is executed first.
Frame(f, args) == [bb |-> s.blocks[f][1], line |-> 1, env |-> << >>, args |-> args]

\* The cells of the globals, in their order, begin at zero.
GlobalCell(g) ==
  LET before == SubSeq(s.globals, 1, (CHOOSE i \in DOMAIN s.globals : s.globals[i] = g) - 1)
  IN  1 + FoldLeft(LAMBDA n, h : n + Cells(element_type(get_type(h))), 0, before)

StartMain ==
  /\ pc = "build" /\ todo = << >>
  /\ mem' = FoldLeft(LAMBDA m, g : m \o Zeros(Cells(element_type(get_type(g)))), << >>, s.globals)
  /\ frames' = <<Frame("main", << >>)>>
  /\ pc' = "run"
  /\ UNCHANGED <<program, input, todo, s, in, out, result>>

frame == Last(frames)
instr == s.code[frame.bb][frame.line]
Executes(op) == pc = "run" /\ frame.line <= Len(s.code[frame.bb]) /\ instr.op = op

Value(v) ==
  CASE v[1] \in {"const", "fconst"} -> v[2]
    [] v[1] = "arg"    -> frame.args[v[2]]
    [] v[1] = "global" -> GlobalCell(v)
    [] v[1] = "instr"  -> frame.env[v]
rand(i) == Value(instr.operands[i])

NextLine == [frame EXCEPT !.line = @ + 1]
Goto(bb) == [frame EXCEPT !.bb = bb, !.line = 1]
WithResult(x) == [NextLine EXCEPT !.env = (instr.value :> x) @@ @]
Replace(f) == frames' = [frames EXCEPT ![Len(frames)] = f]

Kept == UNCHANGED <<program, input, todo, s>>

Symbol ==
  [add |-> "+", sub |-> "-", mul |-> "*", sdiv |-> "/", fadd |-> "+", fsub |-> "-", fmul |-> "*", fdiv |-> "/",
   eq |-> "==", ne |-> "!=", gt |-> ">", ge |-> ">=", lt |-> "<", le |-> "<=",
   feq |-> "==", fne |-> "!=", fgt |-> ">", fge |-> ">=", flt |-> "<", fle |-> "<="]

\* A bit that is set is minus one to sitofp.
Signed == IF get_type(instr.operands[1]) = Int1 THEN -rand(1) ELSE rand(1)

Computed ==
  CASE instr.op \in BinaryOps  -> IntArithmetic(Symbol[instr.op], rand(1), rand(2))
    [] instr.op \in FBinaryOps -> FloatArithmetic(Symbol[instr.op], rand(1), rand(2))
    [] instr.op \in CmpOps \cup FCmpOps -> Compare(Symbol[instr.op], rand(1), rand(2))
    [] instr.op = "zext"   -> rand(1)
    [] instr.op = "sitofp" -> ToFloat(Signed)
    [] instr.op = "fptosi" -> ToInt(rand(1))
    [] instr.op = "load"   -> mem[rand(1)]
    [] instr.op = "getelementptr" -> rand(1) + rand(Len(instr.operands))

Compute ==
  /\ \E op \in DOMAIN Symbol \cup {"zext", "sitofp", "fptosi", "load", "getelementptr"} : Executes(op)
  /\ Replace(WithResult(Computed))
  /\ UNCHANGED <<pc, mem, in, out, result>> /\ Kept

Alloca ==
  /\ Executes("alloca")
  /\ Replace(WithResult(Len(mem) + 1))
  /\ mem' = mem \o Zeros(Cells(element_type(get_type(instr.value))))
  /\ UNCHANGED <<pc, in, out, result>> /\ Kept

Store ==
  /\ Executes("store")
  /\ mem' = [mem EXCEPT ![rand(2)] = rand(1)]
  /\ Replace(NextLine)
  /\ UNCHANGED <<pc, in, out, result>> /\ Kept

Branch_ ==
  /\ Executes("br")
  /\ Replace(Goto(IF Len(instr.operands) = 1 THEN instr.operands[1]
                  ELSE IF rand(1) # 0 THEN instr.operands[2] ELSE instr.operands[3]))
  /\ UNCHANGED <<pc, mem, in, out, result>> /\ Kept

callee == instr.operands[1][2]
args   == [i \in 1..(Len(instr.operands) - 1) |-> rand(i + 1)]

CallFunction ==
  /\ Executes("call") /\ callee \in DOMAIN s.blocks
  /\ frames' = Append(frames, Frame(callee, args))
  /\ UNCHANGED <<pc, mem, in, out, result>> /\ Kept

CallInput ==
  /\ Executes("call") /\ callee = "input"
  /\ Replace(WithResult(Head(in)))
  /\ in' = Tail(in)
  /\ UNCHANGED <<pc, mem, out, result>> /\ Kept

Printed ==
  CASE callee = "output"      -> <<"int", args[1]>>
    [] callee = "outputFloat" -> <<"float", args[1]>>
    [] callee = "outputArray" -> <<"array", SubSeq(mem, args[1], args[1] + args[2] - 1)>>

CallOutput ==
  /\ Executes("call") /\ callee \in {"output", "outputFloat", "outputArray"}
  /\ out' = Append(out, Printed)
  /\ Replace(NextLine)
  /\ UNCHANGED <<pc, mem, in, result>> /\ Kept

\* neg_idx_except ends the program.
CallExcept ==
  /\ Executes("call") /\ callee = "neg_idx_except"
  /\ out' = Append(out, <<"negative index">>)
  /\ frames' = << >> /\ pc' = "done"
  /\ UNCHANGED <<mem, in, result>> /\ Kept

Returned == IF instr.operands = << >> THEN 0 ELSE rand(1)

Return ==
  /\ Executes("ret")
  /\ IF Len(frames) = 1
     THEN pc' = "done" /\ frames' = << >> /\ result' = Returned
     ELSE LET caller == frames[Len(frames) - 1]
              call   == s.code[caller.bb][caller.line]
              \* A function that returns nothing leaves nothing in the environment.
              env    == IF instr.operands = << >> THEN caller.env ELSE (call.value :> Returned) @@ caller.env
          IN  /\ frames' = Append(SubSeq(frames, 1, Len(frames) - 2),
                                  [caller EXCEPT !.line = @ + 1, !.env = env])
              /\ UNCHANGED <<pc, result>>
  /\ UNCHANGED <<mem, in, out>> /\ Kept

Finished == pc = "done" /\ UNCHANGED vars

Next == Transform_ \/ VisitProgram \/ StartMain \/ Compute \/ Alloca \/ Store \/ Branch_ \/ CallFunction
          \/ CallInput \/ CallOutput \/ CallExcept \/ Return \/ Finished

Spec == Init /\ [][Next]_vars
-----------------------------------------------------------------------------
Built == pc \notin {"parse", "build"} \/ (pc = "build" /\ todo = << >>)

(***************************************************************************)
(* lightir.md:56 and :169: a block has one terminator, its last            *)
(* instruction, whatever returns its statements hold; and the neighbours   *)
(* create_br and create_cond_br record are those the terminators name,     *)
(* which is what every pass walks.                                         *)
(***************************************************************************)
Terminators(bb) == {i \in DOMAIN s.code[bb] : s.code[bb][i].op \in {"br", "ret"}}
Targets(bb) ==
  {v \in Range(Last(s.code[bb]).operands) : get_type(v) = LabelType}
OneTerminator ==
  Built =>
    \A bb \in DOMAIN s.code :
      /\ Terminators(bb) = {Len(s.code[bb])} /\ s.code[bb] # << >>
      /\ Range(s.succ[bb]) = Targets(bb)
      /\ Range(s.pre[bb]) = {p \in DOMAIN s.code : bb \in Targets(p)}

(***************************************************************************)
(* convert and the assertions of BinaryInst, CmpInst, FCmpInst, CallInst,  *)
(* LoadInst and GetElementPtrInst (the first three are not called): every  *)
(* operand has the type its instruction is defined for, and no assertion   *)
(* of the builder fails.                                                   *)
(***************************************************************************)
OperandTypes(i) == [k \in DOMAIN i.operands |-> get_type(i.operands[k])]
WellTyped(i) ==
  LET t == OperandTypes(i)
  IN  CASE i.op \in BinaryOps \cup CmpOps   -> t = <<Int32, Int32>>
        [] i.op \in FBinaryOps \cup FCmpOps -> t = <<FloatType, FloatType>>
        [] i.op = "zext"   -> t = <<Int1>> /\ get_type(i.value) = Int32
        [] i.op = "sitofp" -> t[1] \in {Int1, Int32}
        [] i.op = "fptosi" -> t = <<FloatType>>
        [] i.op = "store"  -> t[2] = PointerType(t[1])
        [] i.op = "load"   -> t = <<PointerType(get_type(i.value))>>
        [] i.op = "getelementptr" ->
             /\ t[Len(t)] = Int32
             /\ Len(t) = 3 <=> is_array_type(element_type(t[1]))
        [] i.op = "call"   -> Tail(t) = t[1][3]
        [] i.op = "br"     -> Len(t) = 1 \/ t[1] = Int1
        [] OTHER -> TRUE
AllWellTyped ==
  Built => ~s.aborted /\ \A bb \in DOMAIN s.code : \A i \in DOMAIN s.code[bb] : WellTyped(s.code[bb][i])

(***************************************************************************)
(* What one visit sets and another reads does not reach the next           *)
(* declaration: return_in_branch, in_branch, address_only and the scopes   *)
(* entered are as they were at first.  pre_returns is never reset          *)
(* (cminusf_builder.cpp:218, :249): what the last declarations leave in it *)
(* makes of the next one the same names and instructions, but for a jump   *)
(* into each of the blocks it adds.                                        *)
(***************************************************************************)
Number(t, op) == Cardinality({at \in UNION {{bb} \X DOMAIN t.code[bb] : bb \in DOMAIN t.code} :
                                t.code[at[1]][at[2]].op = op})
SameButJumps(t, u) ==
  /\ t.scope = u.scope
  /\ \A op \in {i.op : i \in UNION {Range(c) : c \in Range(t.code) \cup Range(u.code)}} \ {"br"} :
       Number(t, op) = Number(u, op)
  /\ Number(t, "br") - Number(u, "br") = Cardinality(DOMAIN t.code) - Cardinality(DOMAIN u.code)
NothingLeftOver ==
  /\ ~s.return_in_branch /\ ~s.in_branch /\ ~s.address_only /\ in_global(s.scope)
  /\ pc = "build" /\ todo # << >> =>
       SameButJumps(visit(Head(todo), s), visit(Head(todo), [s EXCEPT !.pre_returns = FALSE]))

(***************************************************************************)
(* cminusf.md: the compiled program prints what the program means, up to   *)
(* the negative index that ends it, and main returns what it means.        *)
(***************************************************************************)
SameMeaning ==
  pc = "done" => [out |-> out, result |-> result] = Source!Meaning(program, input)
=============================================================================
