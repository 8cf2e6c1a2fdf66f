---------------------------- MODULE SyntaxAnalyzer ----------------------------
(***************************************************************************)
(* The trees the parser builds.  A program is given by its declarations,   *)
(* statements and expressions as tuples whose first component is their     *)
(* kind; the operators follow the productions of syntax_analyzer.y and     *)
(* give the tree of the text, with parentheses where its precedences need  *)
(* them.                                                                   *)
(*                                                                         *)
(*   expressions   num n, float h (h halves), var x, elem x e, = l e,      *)
(*                 an operator and two operands, call f args, paren e      *)
(*   statements    expr e, empty, block decls stmts, if e s, if e s s,     *)
(*                 while e s, return, return e                             *)
(*   declarations  vardecl type x, vardecl type x n,                       *)
(*                 fun type x params block;  params are type x, type x []  *)
(*                                                                         *)
(* The lexer is external: a token is a node without children.  An else     *)
(* belongs to the nearest if, so a statement before an else is not an if   *)
(* without one.                                                            *)
(***************************************************************************)
EXTENDS Integers, SequencesExt

Token(text) == [name |-> text, children |-> << >>]
Literal(n)  == [name |-> "literal", value |-> n, children |-> << >>]

\* An empty right-hand side gives a node with the child epsilon.
node(name, children) ==
  [name |-> name, children |-> IF children = << >> THEN <<Token("epsilon")>> ELSE children]

Relops == {"<=", "<", ">", ">=", "==", "!="}
Addops == {"+", "-"}
Mulops == {"*", "/"}

\* Lists are recursive on the left: one that begins with an item, one that
\* begins empty.
NonEmpty(name, items, separator) ==
  FoldLeft(LAMBDA list, x : node(name, <<list>> \o separator \o <<x>>), node(name, <<Head(items)>>), Tail(items))
MaybeEmpty(name, items) ==
  FoldLeft(LAMBDA list, x : node(name, <<list, x>>), node(name, << >>), items)

Each(F(_), items) == [i \in DOMAIN items |-> F(items[i])]

RECURSIVE Expression(_), Additive(_), Term(_)

Var(e) ==
  node("var", IF e[1] = "var" THEN <<Token(e[2])>>
              ELSE <<Token(e[2]), Token("["), Expression(e[3]), Token("]")>>)

Args(args) == node("args", IF args = << >> THEN << >>
                           ELSE <<NonEmpty("arg-list", Each(Expression, args), <<Token(",")>>)>>)
Call(e) == node("call", <<Token(e[2]), Token("("), Args(e[3]), Token(")")>>)

Factor(e) ==
  node("factor",
    CASE e[1] \in {"var", "elem"} -> <<Var(e)>>
      [] e[1] = "call"  -> <<Call(e)>>
      [] e[1] = "num"   -> <<node("integer", <<Literal(e[2])>>)>>
      [] e[1] = "float" -> <<node("float", <<Literal(e[2])>>)>>
      [] e[1] = "paren" -> <<Token("("), Expression(e[2]), Token(")")>>
      [] OTHER -> <<Token("("), Expression(e), Token(")")>>)

Term(e) ==
  node("term", IF e[1] \in Mulops THEN <<Term(e[2]), node("mulop", <<Token(e[1])>>), Factor(e[3])>>
               ELSE <<Factor(e)>>)

Additive(e) ==
  node("additive-expression",
    IF e[1] \in Addops THEN <<Additive(e[2]), node("addop", <<Token(e[1])>>), Term(e[3])>>
    ELSE <<Term(e)>>)

Simple(e) ==
  node("simple-expression",
    IF e[1] \in Relops THEN <<Additive(e[2]), node("relop", <<Token(e[1])>>), Additive(e[3])>>
    ELSE <<Additive(e)>>)

Expression(e) ==
  node("expression", IF e[1] = "=" THEN <<Var(e[2]), Token("="), Expression(e[3])>>
                     ELSE <<Simple(e)>>)

Type(t) == node("type-specifier", <<Token(t)>>)

VarDeclaration(d) ==
  node("var-declaration",
    IF Len(d) = 3 THEN <<Type(d[2]), Token(d[3]), Token(";")>>
    ELSE <<Type(d[2]), Token(d[3]), Token("["), Literal(d[4]), Token("]"), Token(";")>>)

RECURSIVE Statement(_)

CompoundStmt(s) ==
  node("compound-stmt", <<Token("{"), MaybeEmpty("local-declarations", Each(VarDeclaration, s[2])),
                          MaybeEmpty("statement-list", Each(Statement, s[3])), Token("}")>>)

Condition(word, e) == <<Token(word), Token("("), Expression(e), Token(")")>>

Statement(s) ==
  LET branches == <<Statement(s[3])>> \o IF Len(s) = 4 THEN <<Token("else"), Statement(s[4])>> ELSE << >>
  IN  node("statement", <<
        CASE s[1] = "expr"   -> node("expression-stmt", <<Expression(s[2]), Token(";")>>)
          [] s[1] = "empty"  -> node("expression-stmt", <<Token(";")>>)
          [] s[1] = "block"  -> CompoundStmt(s)
          [] s[1] = "if"     -> node("selection-stmt", Condition("if", s[2]) \o branches)
          [] s[1] = "while"  -> node("iteration-stmt", Condition("while", s[2]) \o branches)
          [] s[1] = "return" ->
               node("return-stmt", IF Len(s) = 1 THEN <<Token("return"), Token(";")>>
                                   ELSE <<Token("return"), Expression(s[2]), Token(";")>>)>>)

Param(p) ==
  node("param", <<Type(p[1]), Token(p[2])>> \o IF Len(p) = 3 THEN <<Token("["), Token("]")>> ELSE << >>)
Params(ps) ==
  node("params", IF ps = << >> THEN <<Token("void")>>
                 ELSE <<NonEmpty("param-list", Each(Param, ps), <<Token(",")>>)>>)

Declaration(d) ==
  node("declaration", <<
    IF d[1] = "vardecl" THEN VarDeclaration(d)
    ELSE node("fun-declaration", <<Type(d[2]), Token(d[3]), Token("("), Params(d[4]), Token(")"),
                                   CompoundStmt(d[5])>>)>>)

Program(decls) ==
  node("program", <<NonEmpty("declaration-list", Each(Declaration, decls), << >>)>>)
=============================================================================
