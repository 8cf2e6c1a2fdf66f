----------------------------- MODULE SourcePrograms ----------------------------
(***************************************************************************)
(* How the programs of the runs are written: what module SyntaxAnalyzer    *)
(* takes for the text of a program.                                        *)
(***************************************************************************)

N(n)       == <<"num", n>>
F(h)       == <<"float", h>>
V(x)       == <<"var", x>>
E(x, e)    == <<"elem", x, e>>
P(e)       == <<"paren", e>>
Set(l, e)  == <<"=", l, e>>
C(f, es)   == <<"call", f, es>>
l ++ r    == <<"+", l, r>>
l -- r    == <<"-", l, r>>
l ** r    == <<"*", l, r>>
l // r    == <<"/", l, r>>
l \prec r  == <<"<", l, r>>
Input      == C("input", << >>)

X(e)       == <<"expr", e>>
Do(l, e)   == X(Set(l, e))
Show(e)    == X(C("output", <<e>>))
ShowF(e)   == X(C("outputFloat", <<e>>))
Block(ds, ss) == <<"block", ds, ss>>
B(ss)      == Block(<< >>, ss)
If(e, a)   == <<"if", e, a>>
IfElse(e, a, b) == <<"if", e, a, b>>
While(e, a) == <<"while", e, a>>
R(e)       == <<"return", e>>
Leave      == <<"return">>

IntV(x)      == <<"vardecl", "int", x>>
FltV(x)      == <<"vardecl", "float", x>>
IntsV(x, n)  == <<"vardecl", "int", x, n>>
FltsV(x, n)  == <<"vardecl", "float", x, n>>
Fun(t, f, ps, ds, ss) == <<"fun", t, f, ps, Block(ds, ss)>>
Main(ds, ss) == Fun("int", "main", << >>, ds, ss)
VoidMain(ds, ss) == Fun("void", "main", << >>, ds, ss)

IntP(n) == <<"int", n>>
ArrP(n) == <<"int", n, "[]">>
=============================================================================
