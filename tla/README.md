# A verification of cminusfc in TLA+

cminusfc compiles Cminusf, a small C, to RISC-V assembly. It parses a program,
builds an SSA-like intermediate representation (*light IR*), optimises it,
allocates registers and prints assembly. It is one sequential process without
input or output in the middle: nothing runs concurrently, nothing is persisted,
nothing is retried. What makes it hard to test is elsewhere: fixpoint
iterations whose result must not depend on the order of lists, orders that
depend on addresses, data that several passes keep redundantly and that one of
them forgets, members of a pass reused for the next function, and control flow
that does not follow the linear order the back end works in. The properties
here are about that, and, from end to end, about two questions: does the light IR
of a program do what the language says, and does the assembly do what the light
IR says.

The modules are in plain TLA+, checked by TLC; `*_proofs.tla` hold theorems
checked by TLAPS. `PROJECT.json` maps each definition to the lines it models
and lists the hazards with the properties that cover them. Paths below are
relative to the repository.

## 1. The system

`src/cminusfc/cminusfc.cpp` runs the parts in a fixed order:

    parse -> AST -> CminusfBuilder -> [Mem2Reg] -> [LoopSearch] -> [ConstPropagation]
          -> [ActiveVars] -> [LoopInvHoist] -> print IR
          -> PhiElim -> RegAlloc -> Codegen -> print assembly

The passes in brackets are chosen by flags. They all share one mutable module:
functions, blocks, instructions, and the use lists and edge lists that say the
same thing twice. No pass declares what it needs or preserves.

| Part | State it keeps | Operations | Talks to | What is hard | What makes it correct |
|---|---|---|---|---|---|
| Parser, AST (`src/parser`, `src/common`) | the tree | build, visit | CminusfBuilder | list flattening | the tree is the program |
| CminusfBuilder (`src/cminusfc/cminusf_builder.cpp`) | scopes, the current block, `in_branch`, `return_in_branch`, `pre_returns`, `address_only`, `return_type` | one visit per kind of node | light IR through IRBuilder | flags set in one visit and read in another; blocks patched afterwards | one terminator per block, all blocks reachable, each name resolved in its scope |
| Light IR (`src/lightir`) | operands and use lists; instruction lists; predecessors and successors | `set_operand`, `replace_all_use_with`, `remove_use`, `remove_operands`, `add_instruction`, `delete_instr`, `create_br`, `remove` | every pass | the same fact kept in two places | the use list of a value names its readers; the edge lists are the terminators |
| Dominators (`src/optimization`) | numbering, `idom_`, frontiers, tree | `run` | Mem2Reg | iteration over a tree that is being changed | idoms and frontiers are those of the definitions |
| Mem2Reg | phis placed, stack of values per variable | `generate_phi`, `re_name`, `remove_alloca` | Dominators, use lists | global stacks shared by siblings | each load becomes the value stored last on every path |
| LoopSearch | components, bases, reserved edges | `run`, `get_parent_loop` | LoopInvHoist | removes bases and looks again | each natural loop once, with its base |
| LoopInvHoist | invariants of a loop | `run`, `inv_in_loop`, `moveout` | LoopSearch, use lists | order by address | no operand is read before it is computed |
| ConstPropagation | constants known in a block | `compute`, `run` | use lists | keys that collide, calls | a folded value is what execution computes |
| ActiveVars | `live_in`, `live_out`, phi uses | `calc_def_and_use`, `run` | printed | order of the visits, phis | the sets solve the data-flow equations |
| PhiElim (`src/codegen`) | slot of each phi | `run` | use lists | simultaneous reads by sequential stores | execution is unchanged |
| RegAlloc | block order, intervals, `active`, `available_regs`, the two maps, frame size | `init_func`, `pre_allocate_args`, `LinearScanRegisterAllocation` | Codegen | one linear order for a graph; limits per class and for both | values needed at once are in different places |
| Codegen | `free_regs`, `fresh`, offsets of saved registers | one method per instruction, prologue, epilogue, `call` | RegAlloc's maps | temporaries run out, arguments overwrite each other | each instruction reads the place its operand was written to |
| Driver, printing, logging | - | - | - | - | formatting and I/O |

## 2. What is modelled

| Module | Code | Shape |
|---|---|---|
| `LinearScan` | `regalloc.cpp` 24-70, 147-190: allocation once the intervals are known, for the functions of a module in turn | one action for `pre_allocate_args`, one for each outcome of a loop iteration (`SkipArg`, `AssignReg`, `SpillActive`, `SpillSelf`), `Finish`, `NextFunction` |
| `LiveIntervals` | `regalloc.cpp` 77-146: `dfs` and `init_func` | one action per step of the depth-first search, per block and per instruction scanned |
| `ActiveVars` | `ActiveVars.cpp`: `calc_def_and_use`, the iteration of `run` | use and def sets as operators; one action per visit of a block, `NextPass`, `Stop` |
| `Dominators` | `Dominators.cpp`: numbering, `create_idom`, `intersect`, frontier, tree | one action per iteration of each loop; the recursion of `post_order_visit` is a stack |
| `Dominance` | `Dominators.h`: what `get_idom`, `get_dominance_frontier` and `get_dom_tree_succ_blocks` promise | definitions over paths, for any graph |
| `LightIR` | `Value.cpp`, `User.cpp`, `BasicBlock.cpp`: operands, use lists and instruction lists | an operator for each method passes call; the data of a function are a record |
| `PhiElim` | `phi_elim.cpp`: the pass for one function | one action per block (`CollectPhis`), phi (`ReplacePhi`, `NextPhi`) and operand (`StoreOperand`), and for the terminator of the entry |
| `Mem2Reg` | `Mem2Reg.cpp`: the pass for one function | one action per variable and work-list entry of `generate_phi`; per instruction, successors, child and return of `re_name`, whose recursion is the stack `calls`; one for `remove_alloca` |
| `IRMachine` | external: execution of a function, as LLVM defines it | one action per kind of instruction |
| `Mem2RegSemantics` | composes `Mem2Reg` and two machines | a function before and after the pass, executed side by side |
| `PhiSemantics` | composes `PhiElim` and the machine: the pass, then an execution of what it leaves | implements an execution of the function before the pass |
| `LoopSearch` | `LoopSearch.cpp`: `run` for one function, `get_inner_loop`, `get_parent_loop` | one action per call, successor and return of `traverse`, whose recursion is the stack `calls`; one per base taken out |
| `LoopInvHoist` | `LoopInvHoist.cpp`: `run`, `inv_in_loop`, `moveout` | continues the variables of `LoopSearch`: one action per loop chosen, block scanned and loop emptied |
| `HoistSemantics` | composes `LoopInvHoist` and two machines | the function before and after, executed side by side |
| `ConstPropagation` | `ConstPropagation.cpp`: `run` with `ConstFolder` | one action per instruction: folded, a division, a store or load of a global, skipped |
| `ConstSemantics` | composes `ConstPropagation` and two machines | as above, with the operations computed on `Width` bits |
| `SyntaxAnalyzer` | `syntax_analyzer.y`: the productions | an operator per nonterminal, from a program to its parse tree |
| `AST` | `ast.cpp`: `transform_node_iter` | an operator per kind of node, from the parse tree to the AST |
| `IRBuilder` | constructors and types of `lightir` | operators on the state of the builder |
| `CminusfBuilder` | `Scope` of `cminusf_builder.hpp`; `cminusf_builder.cpp`: every `visit`; `convert` of `utils.cpp` | an operator per `visit`, from the state of the members to their next state |
| `CminusMeaning`, `Numbers` | the meaning `cminusf.md` gives a program; arithmetic | an interpreter of the AST |
| `FrontEnd` | composes the above; the runtime `io.c`; execution of light IR (external) | parse, one action per top-level declaration, one per instruction executed |
| `Codegen` | `codegen.cpp`, `instgen.cpp`: every method that emits an instruction | an operator per method, on the generator's maps and the text so far |
| `Riscv`, `IRMeaning` | external: a processor; what the light IR of a function does | one step of a machine; an interpreter |
| `BackEnd` | composes `LiveIntervals`, `LinearScan`, `Codegen` and the processor | the actions of the parts in turn, one per instruction generated, one per instruction executed |
| `SourcePrograms` | how the programs of the runs are written | |
| `MC*` | the instances TLC checks | programs, functions and graphs the builder lays out, register files |
| `LightIR_proofs` | | lemmas the proofs share: on paths and dominators in any graph; on what the constructors, `replace_all_use_with` and `delete_instr` do to operands and use lists |
| `LinearScan_proofs`, `LiveIntervals_proofs`, `ActiveVars_proofs`, `Dominators_proofs`, `PhiElim_proofs`, `Mem2Reg_proofs`, `ConstPropagation_proofs` | | theorems and their lemmas |

Variables have the names of the members and locals they stand for. What the
code does with data is abstracted to what the properties see:

- In `LinearScan`, `LiveIntervals` and `ActiveVars` an instruction is the value it defines, the values it reads and, for a phi,
  its pairs of value and predecessor; for an alloca, its size. Which operation
  it is does not matter to these parts.
- In `LightIR` a value is a kind and a name. A use is a pair `<<user, operand>>`;
  the order of a use list and repeated entries make no difference to its readers,
  so it is a set. `<<"op", n>>` stands for any computation, call or store to
  memory: it reads its operands and may give any result.
- A point `<bbindex, line_no>` is a pair in `LiveIntervals` and a natural number
  in `LinearScan`, which only compares points. Ties that the code breaks by
  address (`IntervalLess`, `ActiveLess`) are nondeterministic.
- A register has a number and a class. `NoReg` is `Reg()`, number -1, the value
  that `operator bool()` calls invalid.
- The class of a parameter or value is whether its type is float; pointers are
  in int registers, and the flag `d` that only widens the stores is left out.

### How the parts fit

`LiveIntervals` computes exactly what `LinearScan` takes as input: `val2interval`
becomes `start` and `end`, `stack_size` becomes `frame`. Their properties are
the two halves of one argument. `CoveredUnlessCarried` says a value is live only
inside its interval unless a loop carries it round; `NoInterference` says that
overlapping intervals are not kept in one register. Together: two values that
are live at once are not kept in one register unless a loop carries one of them
round. The exception is real (case `Carried` of *codegen_meaning*, below). `BackEnd`
instantiates both modules with `INSTANCE ... WITH` and runs them one after the other,
so that what they hand over to `Codegen` is what they compute and not an assumption.

`PhiSemantics` is the refinement. Before the pass, the branch into a block gives
all its phis their values at once. After it, a store on each edge fills a cell
and a load at the head of the block reads it. The mapping says where the value
of a phi is: in its cell from the branch until the load has been executed, in
the load from then on; loads, stores and allocas are stutters. It compares
instruction by instruction what is read and where the branches go, so the order
of the stores (`phi2alloca` is ordered by address), stores on edges that lead
elsewhere, and phis that read each other are all in question.

`Mem2RegSemantics` runs a function as it was and as the pass leaves it together.
The two stop at every instruction that is not a load, a store or an alloca, and
go on at once with the same result. A cell nothing was stored to holds `Undef`;
so does a phi without an operand for the edge taken. Where the old execution
reads `Undef` the new one may read anything, and after a branch on `Undef`
nothing is compared: the program has no meaning there.

`Mem2Reg` does not run `Dominators`; it takes frontier and tree by their
definitions (`Dominance`), which the run *dominators* checks of `Dominators`. The
order in which children are visited is the order of their addresses in the
code, hence any order here.

`LoopInvHoist` extends `LoopSearch`: the pass runs on the loops the search found in the
same behaviour, in any order of loops and of blocks in a loop, which are hash sets
of pointers in the code. `HoistSemantics` executes both functions: they stop at calls,
branches and the return, and must have read the same; an instruction of the new
function that is executed although the old one did not reach it does no harm, as
it has no effect but its result.

`FrontEnd` takes a program (a tuple) through `SyntaxAnalyzer`, `AST` and `CminusfBuilder` as
the code does, one top-level declaration at a time, and then executes `main` of the
module that came out, with frames, calls and memory cells. `CminusMeaning` interprets the
same program by the sections of `cminusf.md` and knows nothing of the builder. What
is printed, and with which value main returns, has to agree. Integers are numbers
small enough not to overflow, floats are halves, and a division by zero is not
reached.

`BackEnd` takes a function without phis through `LiveIntervals`, `LinearScan` and `Codegen`, and
executes the text on `Riscv`: registers by number and class, memory by address, four
bytes a cell. A call is external: it consumes its arguments, prints, and leaves `junk` in every
caller-saved register; a cell or register nothing was written to holds `junk` too.
`IRMeaning` gives what the light IR does. What is printed, left in memory, returned,
and the registers the caller expects to find again, have to agree.

### Preconditions

A module states what its input must satisfy in `IsFunction`, and TLC checks the
instances against it. They are facts about other parts:

- *LinearScan*: at most as many parameters of a class as argument registers;
  the code reads `args[k]` without looking (`regalloc.cpp:45`), and what is behind the
  array is unspecified.
- *LiveIntervals*: no phis (PhiElim has run); a name is defined once; the operands of
  an alloca are constants; a definition dominates its reads, and a parameter that is read
  has a use list that is not empty, which is all `init_func` looks at
  (`regalloc.cpp:115`). The case `Unread` of *codegen_meaning* is what happens to a
  parameter otherwise.
- *ActiveVars*: each value is defined once; a phi reads what its pairs say.
- *Dominators*: predecessor and successor lists have the same edges, between
  blocks of the function, and every block is reachable. Without that a walk of
  the frontier would go through a null pointer. Nothing jumps to the entry, which is
  what the builder lays out (`EntryAssumption`). Only the frontier needs that: the
  entry is in its own frontier if a loop leads back to it, and with one predecessor
  it is no join.
- *Mem2Reg*: no phis; allocas have no operands; blocks are values of their kind (`BlockAssumption`); the allocas here are those of scalars and
  pointers, which only loads and stores have as their address, and the others read arguments, constants, labels
  and the results of operations and loads; what is
  stored is no label; an instruction that is read is in the code and dominates its
  reads; a branch is the last of its block, and its labels are successors of it; every block is
  reachable, and code is in the blocks of the
  function, in one place each. Reading a variable without a value is allowed.
- *PhiElim*: exact use lists; phis at the beginning of a block and none in the
  entry, where Mem2Reg puts them, with pairs of operands; one terminator, at the end of each block;
  code is in the blocks of the function, in one place each, and there are no
  allocas, loads and stores but those of the pass. A branch has one operand or three; the
  operands that are to be labels are blocks of the function, all others arguments, constants,
  operations and phis. The entry reads no phi: none is computed before it. Constants are
  values of `Data` (`DataAssumption`).
- *LoopInvHoist*: a loop from which something is moved is entered from one block, as the
  builder lays loops out (`LoopInvHoist.cpp:47` takes the last it finds). Nothing is
  assumed of addresses, and loops may load and store.
- *ConstPropagation* (`IsFunction`): every block is reachable and listed once; an instruction is in
  one place, has as many operands as its operation takes and, unless it is a phi, reads what is
  computed before it. For the executions alone (`ExecutionAssumption`): instructions are
  of the kinds light IR has, labels are successors, phis have one value for each
  predecessor (`IsExecutable`); and what `map_` says of a cell is true where it is loaded
  (`MapIsTrue`): no block loads a global after a call it has stored the global
  before, or loads through one pointer after a store through another: both give
  the stored constant (`map_` has one key for all that is no global, and a call does
  not clear it). A function that is compiled first and is not `main` does not read
  a global before it stores it. Each of the three breaks `SameBehaviour`.
- *FrontEnd*: programs are correct (names declared, arguments as many as parameters)
  and avoid the constructs of *front_end_meaning*. A branch that returns an element of an array
  while the other returns too is left out as well: `OneTerminator` fails, because the jump is
  added to the first block of the branch and not to its last (`cminusf_builder.cpp:153`).
- *BackEnd*: at most eight parameters; the functions avoid the patterns of
  *codegen_meaning*; frames are below 2048 bytes. Larger frames break `ImmediatesFit`.

## 3. What the runs show

`tlc -config X.cfg M` in this directory; each of them takes under a minute.

### linear_scan (`MCLinearScan`, pass)

Every function of four instructions with any last uses, 0 or 2 parameters, used
or not, and any classes; and pairs of functions in which everything interferes.

- `NoInterference`: values with overlapping intervals are never kept in one
  register. It takes an expiry, a spill and a later assignment to break it.
- `RegistersConserved`: at any moment each register is either available or held
  by exactly one active value or used parameter, from one function to the next.
- `AllPlaced`: at the end every interval has a slot or a register, and the register is
  a real one unless, at the start of some interval of the function, as many values
  compete as its class has registers. Then `assign_reg` finds none and leaves `Reg(-1)`,
  which the run reaches: `Capacity` counts both classes together. The invalid register is
  kept, handed over and freed like any other, so that the value that gets it need
  not be one whose class has run out.
- `SpillLongest`: a value that goes to the stack is one that ends last of those that
  compete for a register.

*Bounds.* One temporary and two argument registers of each class stand for
seven and eight. That keeps what the code relies on: `Capacity` is twice the
temporaries of a class and there is one argument register more than
temporaries. `Capacity` is then 2 and four instructions fill it, spill from it
and refill it. Two parameters reach both classes of argument registers.

### live_intervals (`MCLiveIntervals`, pass)

An if/else, a while, and an if inside a while as the builder lays them out,
with the inner blocks created after the block behind the loop; a value (or
parameter) defined in any block and read in any blocks it dominates, early or
late; two allocas of different sizes, with calls and without.

- `ReadsInside`: each read lies in the interval. `init_func` ignores an operand
  it has not met, so the numbering must put definitions first.
- `CoveredUnlessCarried`: the value is live only inside its interval, liveness
  being defined by paths, unless it is live along an edge that goes back.
- `SlotsDisjoint`: slots of allocas overlap neither each other nor the saved
  registers.

*Bounds.* One value is enough, as intervals of different values are computed
independently; two allocas, as a slot only depends on the sum before it.

### active_vars (`MCActiveVars`, pass)

The same three graphs; a plain value and a value defined by a phi at the join or
the loop head, read in any blocks in their scope, the phi with any operands
available at its predecessors or missing ones.

- `NeverTooMuch`: nothing is reported live that is not in every solution of the
  equations in `Documentations/4-ir-opt/README.md`.
- `StopsAtSolution`: when the loop stops, the sets solve the equations for every
  variable that no phi reads, unless nothing at all was found live.
- `Terminates`.

### dominators (`MCDominators`, pass)

All graphs of four blocks with at most two successors reachable from the entry,
in every order of the successors, and three of seven blocks in two orders of
the predecessors: two ifs in a while, a loop with two entries, and a ladder on
which the iteration revises an idom it has set.

- `ParentsAbove`: in the tree being built a parent has a greater number than
  its child, in the middle of a pass too.
- `AssertsHold`: a processed predecessor exists, `intersect` never meets a null
  or two blocks of one number, the walks of the frontier never leave the tree.
- `IdomCorrect`, `FrontierCorrect`: the results are those of the definitions over
  paths (a dominator is in the way of every path from the entry).
- `Terminates`.

*Bounds.* Four blocks are the least with a join in a loop and an irreducible
loop; the graphs of seven make `Changed` matter, which four blocks do not.

### mem2reg (`MCMem2Reg`, pass)

An if/else, a while and an if inside a while, with assignments, increments and
swaps of variables, variables local to a branch or a loop body, reads of
variables that have no value on some or all paths, and a parameter that is an
array. The blocks are small because what can go wrong is between them.

- `DefsDominate`: the result is in SSA form: a read is dominated by its
  definition, a phi has at most one operand for each predecessor.
- `EmptyMeansUnassigned`: an empty stack occurs only where no store to the variable
  can reach. A block must pop what it pushed, no more, while its loads and stores
  are on their way out, and each join needs its phi, for phis are stores too.
- `UseListsExact`: in the result each use list names the operands that read it.
- `SameReads`: both executions reach the same instructions and read the same.

*Bounds.* Two variables suffice to swap and to have the phi of one be an operand
of the phi of the other; six blocks hold the nesting in which a frontier has to
be taken of a frontier. Executions are not bounded.

### phi_elim (`MCPhiElim`, pass)

A return, an if, a while and an if in a while, with phis whose operands are an
argument, a constant, a result, another phi of the block, the phi itself, or
missing for an edge; then every execution of the result.

- `Implements`: the execution after the pass is one of the function before it.
- `UseListsExact`: at the end the use list of a value names exactly the operands
  that read it, apart from the terminators the pass has put back. The pass needs
  it: an operand that is itself a phi becomes the right load only because erased
  phis are still in the use lists.

*Bounds.* Two values of data, and cells with any contents at first, so that a
load of a cell that was not written shows. Two phis in a loop head are enough
to swap, three phis for one to read one of another block. Executions are not
bounded: the state space of a loop is finite.

### loops (`MCLoopInvHoist`, pass)

Loops alone, nested, in sequence, around and inside an if, with computations in them; loops
that load and store globals; and
four graphs without, which the builder does not make: a loop left into the base of
the next, a base behind another, two branches back to one base, three loops in one another.

- `LoopsExact`: what the search finds are the natural loops, defined by dominators and
  paths, each with its header, whatever the order of the hash sets.
- `Nesting`: `get_inner_loop` gives the innermost loop of a block and `get_parent_loop` the
  next one further out. It takes several rounds, each on a graph that lost its
  bases, to get that wrong.
- `SameBehaviour`: the function computes the same, and leaves the same in memory. The pass does
  not bring that about by itself: it fails in two cases the run contains, and the
  property leaves them out by name. Without either exception TLC finds it violated.
  `OperandsFirst`: the invariants of a loop are moved in the order of a `std::set` of pointers
  (`LoopInvHoist.cpp:51`); where a reader has the lower address it ends up before its
  operand. `MovesMemory`: a load is called invariant because its address is, and a store
  because its operands are (`LoopInvHoist.cpp:24`); a load then misses what its
  loop stores, and a store is executed although its loop may not run, the first of the two faults
  `Reports/4-ir-opt/report-phase2.md:250-252` names. Of a computation that does not matter: done in
  vain it has no effect but its result. Nor does the second fault, the phis: a value moved out
  dominates what its block dominates, so a phi still reads it at the end of its predecessor.
- `MovesOutwards`: instructions only leave loops. `HoistEnds`: search and pass terminate.

*Bounds.* Eight blocks hold three nested loops; the invariants of a loop read each
other and the phi of the loop around.

### const_prop (`MCConstPropagation`, pass)

Every operation and comparison with the constants at the edges of four bits (and
floats around zero), chains through conversions, comparisons and phis, constants
made in a loop, globals stored and loaded within and across blocks.

- `OnlyZextLeft`: when the pass ends no operand is a replaced instruction, and where blocks are
  listed with definitions before uses (`ReadsEarlier`) the only instruction left whose
  operands are all constants is the `zext` of a folded comparison, for which `run` has no
  case (`ConstPropagation.cpp:153-218`). The run has such functions.
- `SameBehaviour`: the function computes the same, on integers of `Width` bits that
  wrap around, or the compiler itself ends on a division (`ConstPropagation.cpp:24`). One exception
  is part of the property (`FoldsBit`), and TLC finds it violated without: `sitofp` of
  the bit of a comparison that holds is -1.0 when it is executed, as in *front_end_meaning*, and 1.0 once the
  comparison has been folded to the int 1 and the conversion after it (`ConstPropagation.cpp:184-192`,
  `Constant.cpp:10`).
- `UseListsExact` as for Mem2Reg.

*Bounds.* Four bits have the minimum whose negation overflows, and every pair of
edges; the operations do not depend on the width otherwise.

### front_end (`MCFrontEnd`, pass)

Six programs: operators of every level on integers, floats and both; names that
shadow each other; arrays of both kinds, global, local and passed on, with indices
that are calls, elements, assignments and floats; branches and loops with and
without returns; recursion. Each with four inputs.

- `OneTerminator`: each block has one terminator, at its end, and its successors are
  the terminator's targets.
- `AllWellTyped`: the operands of each instruction have the types it is defined for.
  The `assert_valid` methods that would check it are never called.
- `NothingLeftOver`: `return_in_branch`, `in_branch`, `address_only` and the scopes are
  as at first when the next declaration is visited. `pre_returns` is not: a return in a branch
  sets it and nothing resets it (`cminusf_builder.cpp:218`, `:249`). The property says what
  that costs: the next declaration, visited with it and without it, gives the same names in
  scope and the same instructions, but for one more jump for each block more.
- `SameMeaning`: the program does what `cminusf.md` says.

*Bounds.* A program is a fixed text; the inputs drive the branches both ways, the
loops zero to several times, and an index out of range at the bottom. The depth of
statements is that of the pairs whose visits share a member.

### codegen (`MCBackEnd`, pass)

Six functions lowered from source (integers and immediates of every size, floats,
arrays, a frame of 2044 bytes, a leaf and a caller with parameters of both classes) and
four as PhiElim leaves them, each for several arguments or inputs, two values of
`junk` and both orders of the slots.

- `CompiledFaithfully`: the text does what the light IR does.
- `SlotsApart`: saved registers, allocas and the slots of registers do not overlap and lie in
  the frame.
- `ImmediatesFit`: every immediate can be encoded.

*Bounds.* `Fuel` = 1500 instructions is more than any execution needs; one that spends
it violates `CompiledFaithfully`. Two values of `junk` suffice, as a result that depends on
junk differs for one of them. One order of the slots and its reverse put each pair of
values both ways round. One function at a time is enough: the allocator
and the generator start anew for each.

### Where documents and code disagree

Two runs check a property a document states, on the programs where the code does
something else; each program violates the property by itself.

*front_end_meaning* (`SameMeaning`, against `Documentations/common/cminusf.md`):

- line 136: the value of an assignment is what was stored, and the variable's address
  is found first. `x = a = 1.5` stores 1.5 in the float `x` with an int `a`;
  `v[a = 1] = a` stores the old `a` (`cminusf_builder.cpp:306`).
- line 147: a comparison is the integer 1. `x = 0 < 1` stores -1.0 in a float (`utils.cpp:28`).
- line 91: statements are executed in order. A return in a while, or in an if inside a
  branch, makes the code after a later if unreachable (`cminusf_builder.cpp:172`).

*codegen_meaning* (`CompiledFaithfully`, against `Reports/5-bonus/README.md:31` and comments):

- `Freed`: the register of a stored value is taken for free while the value is still
  needed (`codegen.cpp:280`).
- `Converted`, `Kept`, `Compared`: an operand is read from its register after a call
  has changed it (lines 727, 166, 367).
- `First`, `Parameter`: array parameters on which the compiler ends (line 249).
- `Reused`: an index whose register becomes that of the converted value.
- `Carried`: a value carried round a loop loses its register inside it
  (`regalloc.cpp:137`; `Reports/5-bonus/report.md:39` reports the miscompilation).
- `Spilled`: there is no code for a spilled value; `SpillAtInterval` also leaves it in
  `reg_mappings`, so nothing throws, although `Reports/5-bonus/README.md:183` says so.
- `Unread`: an argument that only the terminator of the entry reads has an empty use
  list and no register (`phi_elim.cpp:44`, `regalloc.cpp:115`).

Seen while modelling, and stated by no run, because the statement that holds instead is
checked: the sets of ActiveVars do not solve the published equations
(`4-ir-opt/README.md:111`) for a variable that a block reads and that is an operand of its
phis for another edge (`NeverTooMuch`, `StopsAtSolution`); the assert of `Mem2Reg.cpp:132` fails for a variable
declared in the first branch of an if (`EmptyMeansUnassigned`); with two used int
parameters and fourteen int values alive, `assign_reg` gives the invalid register
`Reg(-1)`, as the limit on `active` counts both classes (`regalloc.cpp:62`; `AllPlaced` says when);
LoopInvHoist moves an instruction before its operand, a store out of a loop that may not run, and a load
past a store (`SameBehaviour` of *loops* names the three, `report-phase2.md:42` asks for none of them);
ConstPropagation turns a float that is -1.0 into 1.0 (`SameBehaviour` of *const_prop*); it
leaves the `zext` of a constant in the code (`OnlyZextLeft`), and it
visits the blocks once, in the order in which they were made, in which the block behind an if comes
before the blocks of an if inside it, so that in
`if (a) return 0; else { if (a) output(a); x = 1 + 2; } return x + 1;` the last sum is
visited while `x` is still an instruction (`ConstPropagation.cpp:151`) and an addition of
two constants stays in the code, although `Reports/4-ir-opt/report-phase2.md:31` has a
variable replaced whose value can be computed (`OnlyZextLeft` says when).

### Fairness and deadlock

The passes are loops of a sequential program. Where a run checks termination,
the specification is `FairSpec`, weak fairness of the whole next-state relation:
the program goes on while it can. Nothing stronger is assumed. A pass that has
ended, or has failed an assert, has no next step, so deadlock is not checked; that it does not
stop early is what `Terminates` and `AssertsHold` are for. LoopInvHoist is checked
to end (`HoistEnds`) as well. Mem2Reg, ConstPropagation and PhiElim have
no loop that could fail to end: a work list gets a block once for each phi placed,
and the other loops go through lists that are there when they begin.

## 4. What is proved

TLAPS proves, for every value of the constants that satisfies the assumptions:

| Theorem | Says |
|---|---|
| `LinearScan_proofs!TypeCorrect` | `Spec => []TypeOK` |
| `LinearScan_proofs!Interference` | `Spec => []NoInterference` |
| `LinearScan_proofs!Conservation` | `Spec => []RegistersConserved` |
| `LinearScan_proofs!Placed` | `Spec => []AllPlaced`: the register of a value is a real one unless a class runs out |
| `LinearScan_proofs!Longest` | `Spec => SpillLongest`, an action property |
| `LiveIntervals_proofs!TypesCorrect` | `Spec => []TypeOK` |
| `LiveIntervals_proofs!ReadsAreInside` | `Spec => []ReadsInside` |
| `LiveIntervals_proofs!IntervalsCoverLiveness` | `Spec => []CoveredUnlessCarried` |
| `LiveIntervals_proofs!SlotsAreDisjoint` | `Spec => []SlotsDisjoint` |
| `ActiveVars_proofs!TypeCorrect` | `Spec => []TypeOK` |
| `ActiveVars_proofs!Soundness` | `Spec => []NeverTooMuch` |
| `ActiveVars_proofs!Convergence` | `Spec => []StopsAtSolution` |
| `Dominators_proofs!Inductive` | `Spec => []IInv`, on which the others rest |
| `Dominators_proofs!TypeCorrect` | `Spec => []TypeOK` |
| `Dominators_proofs!Parents` | `Spec => []ParentsAbove` |
| `Dominators_proofs!Asserts` | `Spec => []AssertsHold` |
| `Dominators_proofs!Idoms` | `Spec => []IdomCorrect` |
| `Dominators_proofs!Frontiers` | `Spec => []FrontierCorrect` |
| `PhiElim_proofs!Invariance` | `Spec => []IInv` |
| `PhiElim_proofs!UsersNamed` | `Spec => []UseListsExact` |
| `PhiElim_proofs!PhisImplemented` | `Spec => Implements`: every execution of the code after the pass implements one of the function before it |
| `Mem2Reg_proofs!Invariance` | `Spec => []IInv` |
| `Mem2Reg_proofs!Unassigned` | `Spec => []EmptyMeansUnassigned` |
| `Mem2Reg_proofs!Lists` | `Spec => [](IInv /\ ListsOK)` |
| `Mem2Reg_proofs!UsersNamed` | `Spec => []UseListsExact` |
| `Mem2Reg_proofs!Walk` | `Spec => [](IInv /\ ListsOK /\ DomOK)` |
| `Mem2Reg_proofs!SSAForm` | `Spec => []DefsDominate` |
| `Mem2Reg_proofs!Values` | `Spec => [](IInv /\ ListsOK /\ DomOK /\ ValuesOK /\ RunOK)` |
| `Mem2Reg_proofs!LoadsReplaced` | `Spec => []SameReads` |
| `ConstPropagation_proofs!Invariance` | `Spec => []IInv` |
| `ConstPropagation_proofs!UsersNamed` | `Spec => []UseListsExact` |
| `ConstPropagation_proofs!OnePass` | `Spec => []OnlyZextLeft` |
| `ConstPropagation_proofs!ValuesKept` | `Spec => [](IInv /\ (FoldsBit \/ (PassOK /\ RunOK)))` |
| `ConstPropagation_proofs!Unobservable` | `Spec => []SameBehaviour`: the pass keeps what a function does |

*LinearScan.* Assumed: `RegisterAssumption` (finitely many temporaries, distinct
argument registers that are no temporaries) and `ModuleAssumption` (the functions
are functions in the sense of `IsFunction`). `NoInterference` is not inductive: it
does not say that the register just taken is nobody's. The invariant adds that
intervals are visited in the order of their starts (`InOrder`), that a visited
value that is neither active nor spilled has ended before the current start
(`Gone`), that the registers of the holders are distinct and not available
(`Exclusive`) and that none is missing (`NoLeak`). A value keeps its register past
its expiry only in the map, and `Gone` is why that does not matter. `AllPlaced` needs another
(`Sound`): while no class has run out the invalid register is nowhere, neither in the pool nor in a
map (`InvalidReg`). It comes into being only where `assign_reg` finds no register of the class.
Then all of them are held, each by another value that competes with this one, and so the
competitors are at least as many (`ClassUsedUp`, an injection between finite sets).

*LiveIntervals.* Assumed: `FunctionsAssumption`. The invariant says of `dfs` that the numbers
from the number of blocks down are taken one by one (`Numbering`), and that a block gets its
number after all that it dominates, a smaller one (`DominatorsFirst`); so `init_func` has
met a value before it is read. Of the scan it says that an interval starts at
the definition and has not ended before a read that lies behind (`Intervals`, `Reads`), and
that slots were handed out one under the other (`Slots`). `CoveredUnlessCarried` follows at
the end: liveness is the least set closed against the edges, a value that no loop carries is
live only along edges to greater numbers, and so the blocks that do not lie behind the
last read are a closed set as well (`EndsAfter`); that it is live nowhere before its
definition is the same argument with dominators (`LiveBelow`).

*ActiveVars.* Assumed: `FunctionsAssumption`. Soundness: every element of a set is
there because a path from a use justifies it (`Justified`, `Sound`). Convergence:
during a pass each block already visited satisfies its equation for the sets as
they are unless a set has grown, in which case `changed` is true
(`PassSettles`, `PassCloses`); `Stop` then happens only with all of them
settled. The exception of the statement comes out of the proof: in the first
pass `live_in` grows from nothing without `changed`.

*Dominators.* Assumed: `BlockAssumption` and `FunctionsAssumption`. The invariant
says of the search that a finished block was entered from one that is still open
or finished later (`Entered`), so it has a predecessor with a greater number,
and that nothing is left out (`NoneLeft`); reachability then makes the finished
blocks all blocks. In a pass blocks come in the order of decreasing numbers, so
that predecessor already has an idom. `Rising` says that while predecessors are
intersected one of the blocks involved has a greater number than the current
one; when they have met, both have, and the idom that is set lies above
(`ParentsAbove`). Since the root has the greatest number, the block that moves
up is never the root and always has an idom. That the lists are searched from
the start needs a least index, which comes from the well-foundedness of the
natural numbers.

That the tree is that of the immediate dominators takes a second invariant: a strict dominator of
a block dominates its idom at all times, since intersecting never climbs past one
(`DominatorsKept`, `MeetBelow`), and when a pass has changed nothing the idom of a block
is an ancestor in the tree of each predecessor (`Solved`), so that it is on every path. A
third one says that the walks have put a join into the frontiers of exactly the blocks that
dominate a predecessor and not strictly the join (`InFrontier`, `JoinsPassed`). Here
`EntryAssumption` is used.

*PhiElim.* Assumed: `BlockAssumption` and `FunctionsAssumption`. The invariant follows
the loops of `run`: which phis have their alloca (`Collected`), their load (`Loaded`) and which
operands their store (`Stored`); so every name the pass gives is new (`NamesOK`), which is
what the constructor needs to begin an exact use list. The blocks a phi names are never
replaced (`PairsOK`), so a store goes before the terminator of a block of the function.
`UsesOK` is the exactness of all lists but those of replaced phis, for the readers that remain:
the code and the erased phis, without the terminators taken out so far (`Taken`). That a replaced phi
is not replaced again is `LoopsOK`: a block occurs once in the list, and a phi once in the block.

`Implements` of PhiElim, which also assumes `DataAssumption`, needs to know where things are. Throughout the
pass an instruction of a block keeps its place, under the name its load gives it, and the
terminator stays the last; allocas and stores are put between the two (`PlacesOK`). Each operand is the old
one, renamed if it is a phi that has its load (`OperandsOK`), and each pair of a phi that has been dealt with has its store in
the block it comes from (`StoresOK`). So when the pass is done a block is laid out in three parts (`Laid`): the loads in the
places of the phis, what it had besides, and the stores before the terminator; `OldAtIs` computes from that which instruction
of the old block an execution has come to, and `CellAtIs` which phis still have their value in the cell. `RunOK` says that a store
that has been executed has left in its cell what the phi reads on the edges from this block (`Fed`): nothing it reads
changes until the block is left, since no operation and no load is behind a store. Each step of the machine is then a step
of the old function or a stutter: operations, returns and branches are steps (`OpStep`, `RetStep`, `BranchStep`), and a
branch finds the new values of all phis of the next block in their cells (`CellFed`); allocas, loads and stores
stutter, a load because it moves the value of its phi from the cell to its name (`LoadStep`). The steps of the pass
itself stutter too: the execution waits in the entry, which has neither phis nor loads (`AtEntry`).

*Mem2Reg.* Assumed: `FunctionsAssumption` and, for the use lists and the SSA form, `BlockAssumption`. Three facts make an empty stack mean what it
should. Each block in the frontier of a block with a store or a phi of a variable has a phi, or
the block is still in the work list (`PhisPlaced`); so where a store can reach, there is a phi or a
store in a dominator (`ReachedHasDef`, by induction on reachability). The calls of `re_name`
that have not returned are exactly the dominators of the current block (`CallsOK`). And the
stack of a variable holds as many values as those calls have pushed (`StacksOK`); that a
block pops what it has pushed needs that its stores are all still there when it
counts them, and that nothing below an unvisited child has been touched (`Intact`).
The lemmas on dominators are shared with the proofs about Dominators.

`UseListsExact` of Mem2Reg needs a second invariant (`ListsOK`). A load that has been renamed keeps the list
that `replace_all_use_with` left it, which is true no more, and stays in its block until the
block returns; all other lists are exact throughout (`UsesOK`). So a renamed load must not be read
again (`ReadsOK`), nor come to be the value of a variable. The value on a stack is what a store reads,
and that may be a load: it is one the walk has dealt with and left (`Settled`), since
what a store reads is before it in its block, or in a block above, which is never below a child still to be visited
(`StoredIsSettled`, `NotBelow`); and a load that has been left is not renamed later
(`Ahead`). This holds as long as the instructions of a block keep their order and what waits
for deletion is still in its block (`CodeOK`, `WaitOK`).

`DefsDominate` needs the values on the stacks and not just their number (`DomOK`). Every value there was
computed on every path to where the walk is (`Readable`): to the start of a block that is entered, to each
instruction still ahead in it, to its end once its children are visited. A load that is replaced takes its
operand's place in its readers, whatever block they are in, and that is sound because what reaches a load reaches
all that the load reaches (`Through`). When a block returns, what is left of a stack must be readable in the
caller's block. It is what the block found (`ReturnFrom` counts it), and what a call found dominates its block
strictly (`FoundOK`), hence dominates the block above it in the tree. A phi reads in pairs
a value and the predecessor it comes from, which the walk has filled and will not fill
again (`Filled`); this is why it has one value for a predecessor at most (`PhiReadsOK`). At the
end what remains has the order it had, with the phis before it, and lacks only loads, stores and allocas
(`Kept`), of which a load that is missing is read by nothing (`ReadsOK`).

`SameReads` of Mem2Reg says that the pass keeps what a program means. Which store or phi gives a variable the value it has
at a place is settled once the phis are placed, by dominators alone: the last one before it in its block, or the
last one of the closest dominator that has any (`Reaching`). The fourth invariant (`ValuesOK`) says what the walk makes
of that. What the stacks hold, also where a caller will find them after its calls have returned, is what the
reaching store reads, or the reaching phi (`StackValuesOK`); a load the walk has passed has been replaced by that in all its
readers (`SubstOK`), also where the value was replaced itself later; and a phi has, for each
predecessor that is filled, what its variable is at the end of it (`CarriesOK`). The fifth one (`RunOK`) is about the two
executions. In the program as it was, the cell of a variable, and a load for as long as it dominates the place that is
reached, has a value that in the program as it is now can be read in what the reaching store or phi gives
(`CellsAgree`, `LoadsAgree`), unless it is `Undef`. The step that matters is a branch
(`BranchRuns`). Where the next block has a phi for the variable, the phi takes the value its operand has at the end of the block left. Where it
has none, no other definition can reach it, since the phis suffice (`ReachedHasDef`): what reaches the end of the
block left reaches the next one as well, around a loop too: a definition that still reaches lies above the next
block, so it reads none of the phis that get new values there.

*ConstPropagation.* Assumed: `FunctionsAssumption`; for `SameBehaviour` also `WidthAssumption`, `ExecutionAssumption` and
`UndefAssumption`. `UseListsExact` is not inductive: `replace_all_use_with`
leaves the list of what it replaces as it was, and that list is read again if the
instruction comes to be a replacement itself. The invariant says that it never is. A load is
replaced by what `map_` holds, and that may be an instruction; it is one computed before
the load (`MapOK`, `Precedes`), and what has been replaced is never read again (`ReadsOK`), so
none of the map has been replaced. `Precedes` survives replacing because what precedes an
instruction precedes its readers, which is where dominators come in (`PrecedesOrder`). With that, only what
`delete_list` names has a list that is not exact (`UsesOK`), and deleting it at the end of its block is
what makes the other lists exact again, since `delete_list` has nothing of
the blocks to come (`CodeOK`). `OnlyZextLeft` needs the order of the blocks instead of the graph
(`OrderOK`): an instruction that was passed over reads, if it is no phi, only what lies
before it, so that no replacement further on makes its operands constant (`FoldedOK`).

`SameBehaviour` of ConstPropagation has two parts. The first is about the code (`PassOK`): a substitution
says for every instruction what has taken its place, in the operands of all readers (`SubstOK`); that is what
the operation comes to on the constants its operands have become, or what the last store under the key
of a load wrote, or the zero a global begins with (`Replaces`). It has to survive each further
replacement (`SubstComposed`), and holds unless the pass folds a bit (`FoldsBit`). The second is about the
executions (`RunOK`). The old one runs ahead to the next call, branch or return; what it has executed and
the new one has not is `Pending`. A deleted value is, in the old execution, what took
its place, wherever that can be read (`ValueOK`): for a folded operation because `compute_i` and the other
functions of `ConstFolder` give what the machine computes (`ComputedInt`, `ComputedPart`, `Compared`, `FoldResult`), for
a load because `MapIsTrue` lets no call and no store to another address come between. All other
values agree once they are not pending (`AgreeOK`), and a cell holds in the old
execution what the pending stores will have left in the new one (`Sees`, `MemoryOK`). Where both wait nothing is pending, so they have
come to the same instruction and read the same (`Met`); a branch then hands the phis of the next block the
same values (`BranchRuns`).

*Model-checked only.* Liveness; everything about `LoopSearch` and `LoopInvHoist`. `AST`, `CminusfBuilder`, `CminusMeaning` and the
composition in `FrontEnd` are recursive over the tree, which TLAPS cannot
handle, and are for TLC only; so is `IRMeaning` and what uses it.

## 5. What is left, and what is not modelled

The plan, in the order of importance:

1. Proofs about modules without recursion over data: `MovesOutwards` and `SameBehaviour` of
   LoopInvHoist; `LoopsExact`, which needs the correctness of Tarjan's search.
2. The passes in the order of the driver on one function: today each pass starts from
   functions that satisfy its preconditions, and only the back end and the front end
   are composed.
3. Calls between the compiled functions of a module, instead of external ones.

Not modelled: the generated lexer (a token is given), the LR automaton of bison (the
productions are modelled, the search for them is bison's), the printing of IR and of the
tree, directives, labels and comments of the assembly, logging, the driver with its
flags, the tables that make types unique, and `builder_ta.cpp`, an earlier builder that is not
built. `Dominators::create_doms` and `User::remove_operands` are called by nothing.
