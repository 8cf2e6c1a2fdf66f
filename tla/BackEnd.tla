-------------------------------- MODULE BackEnd --------------------------------
(***************************************************************************)
(* The back end on one function: the intervals of its values, their        *)
(* registers, the text, and what a processor does that executes it.        *)
(*                                                                         *)
(* A case is a function without phis, and an execution of it: arguments,   *)
(* the cells a pointer argument points to, and the values its calls return.*)
(***************************************************************************)
EXTENDS Codegen, Riscv

CONSTANTS
  Cases,   \* [f, args, pointed, input]
  Junks,   \* what may be read where nothing was written
  Fuel     \* an execution is given up after so many instructions

ASSUME CasesAssumption ==
  \A k \in Cases : /\ Len(k.args) = Len(k.f.args) /\ Len(k.args) <= 8
                   /\ \A i \in DOMAIN k.f.args : is_pointer_type(get_type(k.f.args[i])) => k.pointed # << >>

VARIABLES
  case, junk,
  pc,          \* "intervals", "registers", "generate", "run", "done"
  \* RegAlloc::init_func
  li_pc, stack, visited, c, int2bb, bbcounter, instr_counter, val2interval,
  \* RegAlloc::LinearScanRegisterAllocation
  ls_pc, pending, active, available_regs, reg_mappings, stack_mappings, stack_size,
  \* Codegen
  g, block, line,
  \* the processor
  p, spent

intervals == <<li_pc, stack, visited, c, int2bb, bbcounter, instr_counter, val2interval>>
registers == <<ls_pc, pending, active, available_regs, reg_mappings>>
frame     == <<stack_mappings, stack_size>>
generator == <<g, block, line>>
processor == <<p, spent>>
vars == <<f_, case, junk, pc, intervals, registers, frame, generator, processor>>

\* What the allocator looks at of a function, whose entry block has lost its
\* terminator from the use lists (PhiElim).
Named(i)  == IF get_type(i.value) \in {VoidType, LabelType} THEN {} ELSE {i.value}
Bytes(i)  == 4 * Words(element_type(get_type(i.value)))
Shape(f) ==
  LET code == [bb \in Range(f.blocks) |->
                 [k \in DOMAIN f.code[bb] |->
                    LET i == f.code[bb][k]
                    IN  [val |-> Named(i), rands |-> {v \in Range(i.operands) : v[1] \in {"instr", "arg"}},
                         alloca |-> i.op = "alloca", size |-> IF i.op = "alloca" THEN Bytes(i) ELSE 0]]]
      entry == f.blocks[1]
      Read(v) == \E bb \in DOMAIN code : \E k \in DOMAIN code[bb] :
                   v \in code[bb][k].rands /\ (bb = entry => k < Len(code[bb]))
  IN  [bbs |-> f.blocks, code |-> code, succ |-> [bb \in DOMAIN code |-> f.succ[bb]],
       used_args |-> {v \in Range(f.args) : Read(v)},
       has_fcalls |-> \E bb \in DOMAIN code : \E k \in DOMAIN f.code[bb] : f.code[bb][k].op = "call"]

Functions == {k.f : k \in Cases}
Values(f) == Range(f.args) \cup UNION {{f.code[bb][k].value : k \in DOMAIN f.code[bb]} : bb \in Range(f.blocks)}
Val   == UNION {Values(f) : f \in Functions}
Blocks == UNION {Range(f.blocks) : f \in Functions}

LI == INSTANCE LiveIntervals WITH
        f_ <- Shape(f_), pc <- li_pc, Block <- Blocks, Functions <- {Shape(f) : f \in Functions}

\* Points as numbers in their order.
Point(q) == 1000 * q[1] + q[2]
Scanned ==
  [args |-> f_.args, float |-> [v \in Val |-> is_float_type(get_type(v))],
   size |-> [v \in Val |-> SizeOf(get_type(v))], frame |-> 0,
   start |-> [v \in DOMAIN val2interval |-> Point(val2interval[v].start)],
   end |-> [v \in DOMAIN val2interval |-> Point(val2interval[v].end)]]

LS == INSTANCE LinearScan WITH
        m_ <- <<Scanned>>, fn <- 1, pc <- ls_pc, Modules <- {}, TempIds <- temps, ArgIds <- args

NoText == [aborted |-> FALSE, text |-> << >>]

Init ==
  /\ case \in Cases
  /\ f_ = case.f
  /\ junk \in Junks
  /\ pc = "intervals"
  /\ LI!Init
  /\ ls_pc = "args" /\ pending = {} /\ active = {} /\ available_regs = {} /\ reg_mappings = << >>
  /\ g = NoText /\ block = 0 /\ line = 0
  /\ p = << >> /\ spent = 0

LiveIntervals ==
  /\ pc = "intervals" /\ li_pc # "done"
  /\ UNCHANGED <<f_, case, junk, pc>>
  /\ LI!Next
  /\ UNCHANGED <<registers, generator, processor>>

StartScan ==
  /\ pc = "intervals" /\ li_pc = "done"
  /\ pc' = "registers"
  /\ pending' = DOMAIN val2interval
  /\ available_regs' = LS!Pool
  /\ UNCHANGED <<f_, case, junk, intervals, ls_pc, active, reg_mappings, frame, generator, processor>>

LinearScan ==
  /\ pc = "registers" /\ ls_pc # "done"
  /\ UNCHANGED <<f_, case, junk, pc, intervals>>
  /\ \/ LS!PreAllocateArgs
     \/ \E i \in pending : LS!Scan(i)
     \/ LS!Finish
  /\ UNCHANGED <<generator, processor>>

Listed(S) == FoldSet(LAMBDA v, q : Append(q, v), << >>, S)

\* The addresses of the values are in some order: one, or its reverse.
StartFunction ==
  /\ pc = "registers" /\ ls_pc = "done"
  /\ pc' = "generate"
  /\ \E addresses \in {Listed(DOMAIN reg_mappings), Reverse(Listed(DOMAIN reg_mappings))} :
       g' = gen_function(reg_mappings, stack_mappings, stack_size, addresses)
  /\ block' = 1 /\ line' = 0
  /\ UNCHANGED <<f_, case, junk, intervals, registers, frame, processor>>

bb == f_.blocks[block]

gen_bb ==
  /\ pc = "generate" /\ ~g.aborted /\ block <= Len(f_.blocks) /\ line = 0
  /\ g' = [g EXCEPT !.label = (bb :> Len(g.text) + 1) @@ @]
  /\ line' = 1
  /\ UNCHANGED <<f_, case, junk, pc, intervals, registers, frame, block, processor>>

Generate ==
  /\ pc = "generate" /\ ~g.aborted /\ block <= Len(f_.blocks) /\ line > 0
  /\ g' = gen_instr(g, f_.code[bb][line])
  /\ IF line = Len(f_.code[bb]) THEN block' = block + 1 /\ line' = 0 ELSE line' = line + 1 /\ UNCHANGED block
  /\ UNCHANGED <<f_, case, junk, pc, intervals, registers, frame, processor>>
-----------------------------------------------------------------------------
Memory ==
  LET n == FoldLeft(LAMBDA k, v : k + Words(element_type(get_type(v))), 0, f_.globals)
  IN  [a \in {GlobalsAt + 4 * k : k \in 0..(n - 1)} |-> 0]
      @@ [a \in {PointedAt + 4 * k : k \in 0..(Len(case.pointed) - 1)} |-> case.pointed[(a - PointedAt) \div 4 + 1]]
      @@ [a \in {FloatsAt + 4 * k : k \in DOMAIN g.local_floats} |-> g.local_floats[(a - FloatsAt) \div 4]]

ArgumentRegister(k) ==
  LET Float(j) == is_float_type(get_type(f_.args[j]))
  IN  [id |-> args[Cardinality({j \in 1..k : Float(j) = Float(k)})], f |-> Float(k)]
Given(k) == IF is_pointer_type(get_type(f_.args[k])) THEN PointedAt ELSE case.args[k]

Start ==
  /\ pc = "generate" /\ ~g.aborted /\ block > Len(f_.blocks)
  /\ pc' = "run"
  /\ p' = [x |-> [r \in {ArgumentRegister(k) : k \in DOMAIN f_.args} |->
                    Given(CHOOSE k \in DOMAIN f_.args : ArgumentRegister(k) = r)]
                 @@ (Key(sp) :> StackAt) @@ (Key(s0) :> FrameOf) @@ (Key(ra) :> ReturnTo),
           mem |-> Memory, ip |-> 1, in |-> case.input, out |-> << >>, running |-> TRUE]
  /\ UNCHANGED <<f_, case, junk, intervals, registers, frame, generator, spent>>

Execute_ ==
  /\ pc = "run" /\ p.running /\ spent < Fuel
  /\ p' = Step(p, g.text, g.label, f_.globals, caller_saved_regs, junk)
  /\ spent' = spent + 1
  /\ UNCHANGED <<f_, case, junk, pc, intervals, registers, frame, generator>>

Stop ==
  /\ pc = "run" /\ (~p.running \/ spent = Fuel)
  /\ pc' = "done"
  /\ UNCHANGED <<f_, case, junk, intervals, registers, frame, generator, processor>>

Next ==
  \/ LiveIntervals \/ StartScan \/ LinearScan
  \/ StartFunction \/ gen_bb \/ Generate
  \/ Start \/ Execute_ \/ Stop

Spec == Init /\ [][Next]_vars
-----------------------------------------------------------------------------
(***************************************************************************)
(* Every immediate of the text can be encoded: twelve bits with a sign,    *)
(* for lui twenty without.  assign and bin_inst (codegen.cpp) look at the  *)
(* range; the offsets of loads, stores and the frame nobody looks at.      *)
(***************************************************************************)
ImmediatesFit ==
  pc = "run" /\ spent = 0 =>
    \A k \in DOMAIN g.text :
      LET i == g.text[k]
      IN  /\ i.op \in {"addi", "sd", "sw", "ld", "lw", "fsw", "flw"} => i.x \in IMM_MIN..IMM_MAX
          /\ i.op = "lui" => i.x \in 0..1048575

(***************************************************************************)
(* The parts of the frame, what fun_prologue saves, the arrays and other   *)
(* allocas (regalloc.cpp), and the slots registers are saved in            *)
(* (allocate_stack), do not overlap and are inside the frame.              *)
(***************************************************************************)
Part(part, first, size) == [part |-> part, bytes |-> first..(first + size - 1)]
Parts ==
  LET wide(r) == \E v \in Range(f_.args) : v \in g.wide /\ g.reg_mapping[v] = r
      allocas == {v \in DOMAIN g.stack_mapping : v[1] = "instr"}
  IN  {Part(<<"saved", k, FALSE>>, -8 * k, 8) : k \in DOMAIN Header}
      \cup {Part(<<"alloca", v[2], FALSE>>, g.stack_mapping[v], Bytes([value |-> v])) : v \in allocas}
      \cup {Part(<<"slot", r.id, r.f>>, g.s0_offset[r], IF wide(r) THEN 8 ELSE 4) : r \in DOMAIN g.s0_offset}
SlotsApart ==
  pc = "run" /\ spent = 0 =>
    \A x \in Parts : /\ x.bytes \subseteq (-g.stack_size)..(-1)
                     /\ \A y \in Parts \ {x} : x.bytes \cap y.bytes = {}

(***************************************************************************)
(* The text does what the function does: the same calls, the same result,  *)
(* the same values in memory, and the caller's registers as they were.     *)
(* Code generation (codegen.cpp) decides for every operand whether its     *)
(* register still holds it (fresh), its slot does, or it is built anew.    *)
(***************************************************************************)
Restored ==
  /\ \A r \in {<<sp, StackAt>>, <<s0, FrameOf>>, <<ra, ReturnTo>>} : Held(p, Key(r[1]), junk) = r[2]
Returned(r) ==
  \A k \in DOMAIN f_.blocks :
    LET i == Last(f_.code[f_.blocks[k]])
    IN  i.op = "ret" /\ i.operands # << >> =>
          Held(p, [id |-> 10, f |-> is_float_type(get_type(i.operands[1]))], junk) = r
Cells(n) == [k \in 1..n |-> Cell(p, IF k + Len(case.pointed) <= n THEN GlobalsAt + 4 * (k - 1)
                                    ELSE PointedAt + 4 * (k + Len(case.pointed) - n - 1), junk)]
CompiledFaithfully ==
  /\ ~g.aborted
  /\ pc = "done" =>
       LET m == Meaning(f_, case.args, case.pointed, case.input)
       IN  /\ ~p.running
           /\ p.out = m.out
           /\ Cells(Len(m.mem)) = m.mem
           /\ g.text[p.ip].op = "jr" => Restored /\ Returned(m.result)
=============================================================================
