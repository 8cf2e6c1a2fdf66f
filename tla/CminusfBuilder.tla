---------------------------- MODULE CminusfBuilder ----------------------------
(***************************************************************************)
(* CminusfBuilder: the visitor that turns a syntax tree into light IR.     *)
(* Each visit maps the state s of the builder to the next; besides what    *)
(* module IRBuilder names, s has the members of the visitor:               *)
(*   scope, val           the names in scope; the value visited last        *)
(*   address_only         a variable stands for its address                *)
(*   in_branch            inside a branch or a loop                        *)
(*   return_in_branch     the branch has returned                          *)
(*   pre_returns          some branch has returned                         *)
(*   enter_in_fun_decl    the scope of the body is already there           *)
(*   return_type                                                           *)
(***************************************************************************)
EXTENDS IRBuilder, AST

\* Scope: the names in scope, a sequence of maps, the global names first.
enter(inner) == Append(inner, << >>)
exit(inner)  == SubSeq(inner, 1, Len(inner) - 1)
in_global(inner) == Len(inner) = 1

\* A name that the innermost map has already keeps its value.
can_push(inner, name) == name \notin DOMAIN inner[Len(inner)]
push(inner, name, v)  == [inner EXCEPT ![Len(inner)] = @ @@ (name :> v)]

\* The value of the innermost map that has the name.
find(inner, name) ==
  LET i == CHOOSE j \in DOMAIN inner : /\ name \in DOMAIN inner[j]
                                       /\ \A k \in (j + 1)..Len(inner) : name \notin DOMAIN inner[k]
  IN  inner[i][name]

get_global(inner, name) == inner[1][name]
-----------------------------------------------------------------------------

type(t) == CASE t = "TYPE_INT" -> Int32 [] t = "TYPE_FLOAT" -> FloatType [] t = "TYPE_VOID" -> VoidType

both_int(l, r) == is_integer_type(get_type(l)) /\ is_integer_type(get_type(r))

\* A definition named Bad... is what a slip in the code would make of the one
\* after it; no other definition refers to it.
BadConvert(s, n, to) ==
  LET from == get_type(n)
  IN  CASE is_integer_type(from) /\ is_float_type(to) -> create_sitofp(s, n, to)
        [] is_float_type(from) /\ is_integer_type(to) -> create_fptosi(s, n, to)
        [] OTHER -> [s EXCEPT !.new = n]
convert(s, n, to) ==
  LET from == get_type(n)
      zero == ConstInt(0)
  IN  CASE \/ is_integer_type(from) /\ is_integer_type(to)
           \/ is_float_type(from) /\ is_float_type(to) ->
             IF get_size(from) < get_size(to) THEN create_zext(s, n, to) ELSE [s EXCEPT !.new = n]
        [] is_integer_type(from) /\ is_float_type(to) -> create_sitofp(s, n, to)
        [] is_float_type(from) /\ is_integer_type(to) -> create_fptosi(s, n, to)
        [] is_pointer_type(from) /\ is_array_type(element_type(from)) /\ is_pointer_type(to) ->
             create_gep(s, n, <<zero, zero>>)
        [] is_pointer_type(from) /\ is_pointer_type(element_type(from)) /\ is_pointer_type(to) ->
             create_load(s, n)
        [] OTHER -> Assert_(s, FALSE)

int_map == [OP_PLUS |-> "add", OP_MINUS |-> "sub", OP_MUL |-> "mul", OP_DIV |-> "sdiv"]
float_map == [OP_PLUS |-> "fadd", OP_MINUS |-> "fsub", OP_MUL |-> "fmul", OP_DIV |-> "fdiv"]
BadComparisons == [OP_EQ |-> "eq", OP_NEQ |-> "ne", OP_GT |-> "ge", OP_GE |-> "gt", OP_LT |-> "lt", OP_LE |-> "le"]
comp_int_map == [OP_EQ |-> "eq", OP_NEQ |-> "ne", OP_GT |-> "gt", OP_GE |-> "ge", OP_LT |-> "lt", OP_LE |-> "le"]
comp_float_map ==
  [OP_EQ |-> "feq", OP_NEQ |-> "fne", OP_GT |-> "fgt", OP_GE |-> "fge", OP_LT |-> "flt", OP_LE |-> "fle"]

\* What has just been made is the value of the expression.
AsVal(s) == [s EXCEPT !.val = s.new]

\* Both operands as the wider of the two types.
OnOperands(s, l, r, ints(_, _, _), floats(_, _, _)) ==
  LET t == IF both_int(l, r) THEN Int32 ELSE FloatType
      s1 == convert(s, l, t)
      s2 == convert(s1, r, t)
  IN  AsVal(IF both_int(l, r) THEN ints(s2, s1.new, s2.new) ELSE floats(s2, s1.new, s2.new))

RECURSIVE visit(_, _), VisitAll(_, _)

VisitAll(nodes, s) == IF s.aborted \/ nodes = << >> THEN s ELSE VisitAll(Tail(nodes), visit(Head(nodes), s))

VisitNum(n, s) ==
  [s EXCEPT !.val = IF n.type = "TYPE_FLOAT" THEN ConstFP(n.f_val) ELSE ConstInt(n.i_val)]

Push(s, name, v) == [Assert_(s, can_push(s.scope, name)) EXCEPT !.scope = push(@, name, v)]

VisitVarDeclaration(n, s) ==
  LET t == IF n.num = nullptr THEN type(n.type) ELSE ArrayType(type(n.type), n.num.i_val)
      global == <<"global", n.id, PointerType(t)>>
      s1 == create_alloca(s, t)
  IN  IF in_global(s.scope)
      THEN Push([s EXCEPT !.globals = Append(@, global), !.val = global], n.id, global)
      ELSE Push([s1 EXCEPT !.val = s1.new], n.id, s1.new)

VisitParam(n, s) ==
  LET s1 == create_alloca(s, IF n.isarray THEN PointerType(type(n.type)) ELSE type(n.type))
  IN  Push([s1 EXCEPT !.val = s1.new], n.id, s1.new)

\* The parameters from the i-th on get a variable each, which the argument is stored in.
RECURSIVE Parameters(_, _, _)
Parameters(params, i, s) ==
  IF i > Len(params) THEN s
  ELSE LET s1 == VisitParam(params[i], s)
           arg == <<"arg", i, element_type(get_type(s1.val))>>
           s2 == create_store(s1, arg, s1.val)
       IN  Parameters(params, i + 1, [s2 EXCEPT !.val = s2.new])

return_val == ""
VisitFunDeclaration(n, s) ==
  LET params == [i \in DOMAIN n.params |-> IF n.params[i].isarray THEN PointerType(type(n.params[i].type))
                                           ELSE type(n.params[i].type)]
      f  == <<"fun", n.id, FunctionType(type(n.type), params)>>
      s1 == Push([s EXCEPT !.function = n.id, !.blocks = @ @@ (n.id :> << >>)], n.id, f)
      s2 == CreateBasicBlock(s1)
      s3 == [set_insert_point(s2, s2.new) EXCEPT !.scope = enter(@), !.enter_in_fun_decl = TRUE]
      s4 == [Parameters(n.params, 1, s3) EXCEPT !.return_type = n.type]
      s5 == AsVal(create_alloca(s4, type(n.type)))
      s6 == IF n.type = "TYPE_VOID" THEN s4 ELSE [s5 EXCEPT !.scope = push(@, return_val, s5.val)]
      Ended(t) == IF has_terminator(t, t.insert) THEN t
                  ELSE visit([class |-> "ASTReturnStmt", expression |-> nullptr], t)
  IN  Ended(visit(n.compound_stmt, s6))

VisitCompoundStmt(n, s) ==
  LET s1 == [s EXCEPT !.scope = IF s.enter_in_fun_decl THEN @ ELSE enter(@), !.enter_in_fun_decl = FALSE]
      s2 == VisitAll(n.statement_list, VisitAll(n.local_declarations, s1))
  IN  [s2 EXCEPT !.scope = exit(@)]

VisitExpressionStmt(n, s) == IF n.expression = nullptr THEN s ELSE visit(n.expression, s)

\* A condition that is not a bit yet is compared with zero.
Condition(e, s) ==
  LET s1 == visit(e, s)
      s2 == IF is_integer_type(get_type(s1.val)) THEN create_cmp(s1, "ne", s1.val, ConstInt(0))
            ELSE create_fcmp(s1, "fne", s1.val, ConstFP(0))
  IN  IF get_size(get_type(s1.val)) > 1 THEN [s2 EXCEPT !.val = s2.new] ELSE s1

BadForget(s) == s
Forget(s) == [s EXCEPT !.return_in_branch = FALSE]

\* One branch of a selection, filled from bb on, goes to out unless it has returned.
Branch(stmt, bb, out, s) ==
  LET s1 == visit(stmt, set_insert_point(s, bb))
  IN  IF s1.return_in_branch THEN s1 ELSE create_br(s1, out)

\* Both branches have returned: they meet in out, which loads what is returned.
ReturnFromBoth(s, trueBB, falseBB, out) ==
  LET s1 == create_load(s, find(s.scope, return_val))
      s2 == IF s.return_type = "TYPE_VOID" THEN create_void_ret(s)
            ELSE create_ret(AsVal(s1), s1.new)
      s3 == create_br(set_insert_point(s2, trueBB), out)
  IN  set_insert_point(create_br(set_insert_point(s3, falseBB), out), out)

\* The blocks of a selection and the branch to them, after its condition.
Branches(n, s, Fill(_, _, _, _)) ==
  LET s1 == CreateBasicBlock(s)
      s2 == IF n.else_statement = nullptr THEN s1 ELSE CreateBasicBlock(s1)
      s3 == CreateBasicBlock(s2)
      falseBB == IF n.else_statement = nullptr THEN s3.new ELSE s2.new
      s4 == create_cond_br(s3, s.val, s1.new, falseBB)
  IN  Fill([s4 EXCEPT !.in_branch = TRUE], s1.new, falseBB, s3.new)

VisitSelectionStmt(n, s) ==
  LET Fill(s1, trueBB, falseBB, out) ==
        LET s2 == Branch(n.if_statement, trueBB, out, s1)
            s3 == IF n.else_statement = nullptr THEN Forget(s2)
                  ELSE Branch(n.else_statement, falseBB, out, Forget(s2))
            s4 == set_insert_point([Forget(s3) EXCEPT !.in_branch = FALSE], out)
        IN  IF s2.return_in_branch /\ s3.return_in_branch THEN ReturnFromBoth(s4, trueBB, falseBB, out)
            ELSE s4
  IN  Branches(n, Condition(n.expression, s), Fill)

VisitIterationStmt(n, s) ==
  LET s1 == CreateBasicBlock(s)
      s2 == CreateBasicBlock(s1)
      s3 == CreateBasicBlock(s2)
      predicate == s1.new
      body      == s2.new
      out       == s3.new
      s4 == Condition(n.expression, set_insert_point(create_br(s3, predicate), predicate))
      s5 == [set_insert_point(create_cond_br(s4, s4.val, body, out), body) EXCEPT !.in_branch = TRUE]
      s6 == [visit(n.statement, s5) EXCEPT !.in_branch = FALSE]
      Back(t) == IF t.return_in_branch THEN t ELSE create_br(t, predicate)
  IN  set_insert_point(Back(s6), out)

BadGather(s) == LET s1 == CreateBasicBlock(s) IN set_insert_point(create_br(s1, s1.new), s1.new)
\* Every block without an end goes to a new block that returns.
Gather(s) ==
  LET s1 == CreateBasicBlock(s)
      returnBB == s1.new
      End(t, bb) == IF bb = returnBB \/ has_terminator(t, bb) THEN t
                    ELSE create_br(set_insert_point(t, bb), returnBB)
  IN  set_insert_point(FoldLeft(End, create_br(s1, returnBB), s1.blocks[s1.function]), returnBB)

\* In a branch a return is only noted, once its value is stored.
Leave_(n, ptr, s) ==
  LET s1 == IF s.pre_returns THEN Gather(s) ELSE s
      s2 == create_load(s1, ptr)
  IN  IF s.in_branch THEN [s EXCEPT !.return_in_branch = TRUE, !.pre_returns = TRUE]
      ELSE IF n.expression = nullptr THEN create_void_ret(s1)
      ELSE create_ret(AsVal(s2), s2.new)
VisitReturnStmt(n, s) ==
  LET ptr == find(s.scope, return_val)
      s1 == visit(n.expression, s)
      s2 == convert(s1, s1.val, type(s.return_type))
      s3 == IF n.expression = nullptr THEN s ELSE create_store(s2, s2.new, ptr)
  IN  Leave_(n, ptr, s3)

\* The index is visited for its value, even where the address of the element is wanted.
Index(e, s) == [visit(e, [s EXCEPT !.address_only = FALSE]) EXCEPT !.address_only = s.address_only]

\* The index that has just been made is checked: a negative one ends the program.
Checked(s) ==
  LET s1 == create_cmp(s, "ge", s.new, ConstInt(0))
      s2 == CreateBasicBlock(s1)
      s3 == CreateBasicBlock(s2)
      s4 == set_insert_point(create_cond_br(s3, s1.new, s2.new, s3.new), s3.new)
      s5 == create_br(create_call(s4, get_global(s.scope, "neg_idx_except"), << >>), s2.new)
  IN  [set_insert_point(s5, s2.new) EXCEPT !.new = s.new]

\* The address of the element of the array at ptr with that index.
ElementOf(ptr, s) ==
  LET s1 == create_load(s, ptr)
  IN  IF is_array_type(element_type(get_type(ptr))) THEN create_gep(s, ptr, <<ConstInt(0), s.new>>)
      ELSE IF is_pointer_type(element_type(get_type(ptr))) THEN create_gep(s1, s1.new, <<s.new>>)
      ELSE [s EXCEPT !.new = ptr]

VisitVar(n, s) ==
  LET ptr == find(s.scope, n.id)
      s1 == Index(n.expression, s)
      s2 == IF n.expression = nullptr THEN [s EXCEPT !.new = ptr]
            ELSE ElementOf(ptr, Checked(convert(s1, s1.val, Int32)))
      Loaded(s3) == IF s3.address_only THEN s3 ELSE create_load(s3, s3.new)
  IN  AsVal(Loaded(s2))

VisitAssignExpression(n, s) ==
  LET s1 == visit(n.expression, s)
      s2 == visit(n.var, [s1 EXCEPT !.address_only = TRUE])
      s3 == convert(s2, s1.val, element_type(get_type(s2.val)))
  IN  [create_store(s3, s3.new, s2.val) EXCEPT !.val = s1.val, !.address_only = FALSE]

VisitSimpleExpression(n, s) ==
  LET s1 == visit(n.additive_expression_l, s)
      s2 == visit(n.additive_expression_r, s1)
      ints(t, l, r)   == create_cmp(t, comp_int_map[n.op], l, r)
      floats(t, l, r) == create_fcmp(t, comp_float_map[n.op], l, r)
  IN  IF n.additive_expression_r = nullptr THEN s1 ELSE OnOperands(s2, s1.val, s2.val, ints, floats)

Arithmetic(n, left, right, s) ==
  LET s1 == visit(left, s)
      s2 == visit(right, s1)
      ints(t, l, r)   == create_binary(t, int_map[n.op], l, r)
      floats(t, l, r) == create_binary(t, float_map[n.op], l, r)
  IN  IF left = nullptr THEN visit(right, s) ELSE OnOperands(s2, s1.val, s2.val, ints, floats)
VisitAdditiveExpression(n, s) == Arithmetic(n, n.additive_expression, n.term, s)
VisitTerm(n, s)               == Arithmetic(n, n.term, n.factor, s)

\* The arguments from the i-th on; those for pointers are addresses.
RECURSIVE Arguments(_, _, _, _)
Arguments(args, params, s, values) ==
  IF args = << >> THEN [s EXCEPT !.new = values]
  ELSE LET t  == params[Len(values) + 1]
           s1 == visit(Head(args), [s EXCEPT !.address_only = is_pointer_type(t)])
           s2 == convert([s1 EXCEPT !.address_only = FALSE], s1.val, t)
       IN  Arguments(Tail(args), params, s2, Append(values, s2.new))

VisitCall(n, s) ==
  LET func == get_global(s.scope, n.id)
      s1 == Arguments(n.args, get_type(func)[3], s, << >>)
  IN  AsVal(create_call(s1, func, s1.new))

visit(n, s) ==
  CASE n.class = "ASTNum"                -> VisitNum(n, s)
    [] n.class = "ASTVarDeclaration"     -> VisitVarDeclaration(n, s)
    [] n.class = "ASTFunDeclaration"     -> VisitFunDeclaration(n, s)
    [] n.class = "ASTCompoundStmt"       -> VisitCompoundStmt(n, s)
    [] n.class = "ASTExpressionStmt"     -> VisitExpressionStmt(n, s)
    [] n.class = "ASTSelectionStmt"      -> VisitSelectionStmt(n, s)
    [] n.class = "ASTIterationStmt"      -> VisitIterationStmt(n, s)
    [] n.class = "ASTReturnStmt"         -> VisitReturnStmt(n, s)
    [] n.class = "ASTAssignExpression"   -> VisitAssignExpression(n, s)
    [] n.class = "ASTSimpleExpression"   -> VisitSimpleExpression(n, s)
    [] n.class = "ASTAdditiveExpression" -> VisitAdditiveExpression(n, s)
    [] n.class = "ASTTerm"               -> VisitTerm(n, s)
    [] n.class = "ASTVar"                -> VisitVar(n, s)
    [] n.class = "ASTCall"               -> VisitCall(n, s)

\* What the constructor leaves: the functions of the runtime in the global scope.
Runtime(name, result, params) == name :> <<"fun", name, FunctionType(result, params)>>
InitBuilder ==
  [globals |-> << >>, blocks |-> << >>, code |-> << >>, pre |-> << >>, succ |-> << >>,
   function |-> "", insert |-> "nullptr", fresh |-> 1, new |-> "nullptr", aborted |-> FALSE,
   scope |-> << Runtime("input", Int32, << >>) @@ Runtime("output", VoidType, <<Int32>>)
                @@ Runtime("outputFloat", VoidType, <<FloatType>>)
                @@ Runtime("neg_idx_except", VoidType, << >>)
                @@ Runtime("outputArray", VoidType, <<PointerType(Int32), Int32>>)
                @@ Runtime("outputArrayf", VoidType, <<PointerType(FloatType), Int32>>) >>,
   val |-> "nullptr", address_only |-> FALSE, return_in_branch |-> FALSE, in_branch |-> FALSE,
   pre_returns |-> FALSE, enter_in_fun_decl |-> FALSE, return_type |-> "TYPE_VOID"]
=============================================================================
