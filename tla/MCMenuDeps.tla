----------------------------- MODULE MCMenuDeps -----------------------------
EXTENDS MenuDeps

T == "T"
B == "B"

MCItem ==
  {Sym(B), Sym(T), Sym("m"), Not(Sym(B)), Not(Sym(T)), Eq(B, "n"), Neq(T, "n"),
   Eq(T, "m"), Eq(T, "y"),
   Two("or", Sym(B), Sym(T)), Two("or", Sym(T), Sym(B)), 
   Two("or", Eq(T, "y"), Eq(T, "n")), Two("or", Sym("y"), Sym(B)),
   Not(Two("or", Neq(T, "y"), Sym(B))), Not(Two("and", Sym("m"), Cmp("<=", T, "m"))),
   Two("or", Two("and", Sym(T), Sym(B)), Not(Not(Sym(T))))}
=============================================================================
