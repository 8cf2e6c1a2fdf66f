---------------------------------- MODULE AST ----------------------------------
(***************************************************************************)
(* AST::transform_node_iter: the tree of the parser becomes the syntax     *)
(* tree the builder visits.  A node is a record with its class and its     *)
(* members.  The folding of constants while parsing is compiled out        *)
(* (NO_CP_WHEN_PARSING), except for a constant in parentheses.             *)
(***************************************************************************)
EXTENDS Integers, Sequences

nullptr == [class |-> "nullptr"]

Child(n, i)     == n.children[i + 1]
children_num(n) == Len(n.children)

RECURSIVE Flatten(_, _)
\* What a list recursive on the left holds, in the order of the text: the code
\* pushes the last child of each list on a stack and pops the stack.
Flatten(list, k) ==
  IF children_num(list) = k THEN Append(Flatten(Child(list, 0), k), Child(list, k - 1))
  ELSE <<Child(list, 0)>>

\* The same for a list that begins empty, whose innermost child is epsilon.
FlattenEmpty(list) == IF children_num(list) = 2 THEN Tail(Flatten(list, 2)) ELSE << >>

Word(n) == Child(Child(n, 0), 0).name

\* Anything but int is float where a void variable makes no sense.
VarType(n) == IF Word(n) = "int" THEN "TYPE_INT" ELSE "TYPE_FLOAT"
FunType(n) == CASE Word(n) = "int" -> "TYPE_INT" [] Word(n) = "float" -> "TYPE_FLOAT" [] OTHER -> "TYPE_VOID"

RelOp == [x \in {"<=", "<", ">", ">=", "==", "!="} |->
            CASE x = "<=" -> "OP_LE" [] x = "<" -> "OP_LT" [] x = ">" -> "OP_GT"
              [] x = ">=" -> "OP_GE" [] x = "==" -> "OP_EQ" [] x = "!=" -> "OP_NEQ"]
AddOp == [x \in {"+", "-"} |-> IF x = "+" THEN "OP_PLUS" ELSE "OP_MINUS"]
MulOp == [x \in {"*", "/"} |-> IF x = "*" THEN "OP_MUL" ELSE "OP_DIV"]
OpName(n) == Child(Child(n, 1), 0).name

IntNum(k)   == [class |-> "ASTNum", type |-> "TYPE_INT", i_val |-> k]
FloatNum(k) == [class |-> "ASTNum", type |-> "TYPE_FLOAT", f_val |-> k]

\* A parenthesised expression that is a number and nothing else is that number.
OnlyNum(e) ==
  /\ e.class = "ASTSimpleExpression"
  /\ e.additive_expression_r = nullptr
  /\ e.additive_expression_l.additive_expression = nullptr
  /\ e.additive_expression_l.term.term = nullptr
  /\ e.additive_expression_l.term.factor.class = "ASTNum"
Unwrap(e) == IF OnlyNum(e) THEN e.additive_expression_l.term.factor ELSE e

TransformVarDeclaration(n) ==
  [class |-> "ASTVarDeclaration", type |-> VarType(n), id |-> Child(n, 1).name,
   num |-> IF children_num(n) = 6 THEN IntNum(Child(n, 3).value) ELSE nullptr]

TransformParam(n) ==
  [class |-> "ASTParam", type |-> VarType(n), id |-> Child(n, 1).name, isarray |-> children_num(n) > 2]

RECURSIVE transform_node_iter(_)
Transform(ns) == [i \in DOMAIN ns |-> transform_node_iter(ns[i])]

TransformProgram(n) ==
  [class |-> "ASTProgram", declarations |-> Transform(Flatten(Child(n, 0), 2))]

TransformFunDeclaration(n) ==
  LET list == Child(Child(n, 3), 0)
  IN  [class |-> "ASTFunDeclaration", type |-> FunType(n), id |-> Child(n, 1).name,
       params |-> IF children_num(list) = 0 THEN << >> ELSE Transform(Flatten(list, 3)),
       compound_stmt |-> transform_node_iter(Child(n, 5))]

TransformCompoundStmt(n) ==
  [class |-> "ASTCompoundStmt", local_declarations |-> Transform(FlattenEmpty(Child(n, 1))),
   statement_list |-> Transform(FlattenEmpty(Child(n, 2)))]

TransformExpressionStmt(n) ==
  [class |-> "ASTExpressionStmt",
   expression |-> IF children_num(n) = 2 THEN transform_node_iter(Child(n, 0)) ELSE nullptr]

TransformSelectionStmt(n) ==
  [class |-> "ASTSelectionStmt", expression |-> transform_node_iter(Child(n, 2)),
   if_statement |-> transform_node_iter(Child(n, 4)),
   else_statement |-> IF children_num(n) = 7 THEN transform_node_iter(Child(n, 6)) ELSE nullptr]

TransformIterationStmt(n) ==
  [class |-> "ASTIterationStmt", expression |-> transform_node_iter(Child(n, 2)),
   statement |-> transform_node_iter(Child(n, 4))]

TransformReturnStmt(n) ==
  [class |-> "ASTReturnStmt",
   expression |-> IF children_num(n) = 3 THEN transform_node_iter(Child(n, 1)) ELSE nullptr]

TransformExpression(n) ==
  IF children_num(n) = 1 THEN transform_node_iter(Child(n, 0))
  ELSE [class |-> "ASTAssignExpression", var |-> transform_node_iter(Child(n, 0)),
        expression |-> transform_node_iter(Child(n, 2))]

TransformVar(n) ==
  [class |-> "ASTVar", id |-> Child(n, 0).name,
   expression |-> IF children_num(n) = 4 THEN transform_node_iter(Child(n, 2)) ELSE nullptr]

TransformSimpleExpression(n) ==
  LET left == transform_node_iter(Child(n, 0))
  IN  IF children_num(n) = 3
      THEN [class |-> "ASTSimpleExpression", op |-> RelOp[OpName(n)], additive_expression_l |-> left,
            additive_expression_r |-> transform_node_iter(Child(n, 2))]
      ELSE [class |-> "ASTSimpleExpression", additive_expression_l |-> left, additive_expression_r |-> nullptr]

TransformAdditiveExpression(n) ==
  IF children_num(n) = 3
  THEN [class |-> "ASTAdditiveExpression", op |-> AddOp[OpName(n)],
        additive_expression |-> transform_node_iter(Child(n, 0)), term |-> transform_node_iter(Child(n, 2))]
  ELSE [class |-> "ASTAdditiveExpression", additive_expression |-> nullptr,
        term |-> transform_node_iter(Child(n, 0))]

TransformTerm(n) ==
  IF children_num(n) = 3
  THEN [class |-> "ASTTerm", op |-> MulOp[OpName(n)],
        term |-> transform_node_iter(Child(n, 0)), factor |-> transform_node_iter(Child(n, 2))]
  ELSE [class |-> "ASTTerm", term |-> nullptr, factor |-> transform_node_iter(Child(n, 0))]

TransformFactor(n) ==
  LET x == Child(n, IF children_num(n) = 3 THEN 1 ELSE 0)
  IN  CASE x.name = "expression" -> Unwrap(transform_node_iter(x))
        [] x.name \in {"var", "call"} -> transform_node_iter(x)
        [] x.name = "integer" -> IntNum(Child(x, 0).value)
        [] x.name = "float" -> FloatNum(Child(x, 0).value)

TransformCall(n) ==
  LET list == Child(Child(n, 2), 0)
  IN  [class |-> "ASTCall", id |-> Child(n, 0).name,
       args |-> IF list.name = "arg-list" THEN Transform(Flatten(list, 3)) ELSE << >>]

transform_node_iter(n) ==
  CASE n.name = "program" -> TransformProgram(n)
    [] n.name \in {"declaration", "statement"} -> transform_node_iter(Child(n, 0))
    [] n.name = "var-declaration"   -> TransformVarDeclaration(n)
    [] n.name = "fun-declaration"   -> TransformFunDeclaration(n)
    [] n.name = "param"             -> TransformParam(n)
    [] n.name = "compound-stmt"     -> TransformCompoundStmt(n)
    [] n.name = "expression-stmt"   -> TransformExpressionStmt(n)
    [] n.name = "selection-stmt"    -> TransformSelectionStmt(n)
    [] n.name = "iteration-stmt"    -> TransformIterationStmt(n)
    [] n.name = "return-stmt"       -> TransformReturnStmt(n)
    [] n.name = "expression"        -> TransformExpression(n)
    [] n.name = "var"               -> TransformVar(n)
    [] n.name = "simple-expression" -> TransformSimpleExpression(n)
    [] n.name = "additive-expression" -> TransformAdditiveExpression(n)
    [] n.name = "term"              -> TransformTerm(n)
    [] n.name = "factor"            -> TransformFactor(n)
    [] n.name = "call"              -> TransformCall(n)
=============================================================================
