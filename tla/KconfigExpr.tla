----------------------------- MODULE KconfigExpr -----------------------------
(***************************************************************************)
(* Kconfig's expression trees (kconfig/expr.c): evaluation and the         *)
(* simplifications menu_finalize applies.  The C code rewrites trees in    *)
(* place; expr_eliminate_dups walks one tree with two pointers, which are  *)
(* paths from its root here.                                               *)
(***************************************************************************)
EXTENDS ExprLeaf, Sequences

CONSTANT ModulesSym    \* modules_sym: a bool symbol, or "n" without modules

Two(o, l, r) == [t |-> o, l |-> l, r |-> r]
Junction     == {"and", "or"}

\* expr_alloc_and, expr_alloc_or
AllocTwo(o, e1, e2) == IF e1 = NULL THEN e2 ELSE IF e2 = NULL THEN e1 ELSE Two(o, e1, e2)
AllocAnd(e1, e2)    == AllocTwo("and", e1, e2)
AllocOr(e1, e2)     == AllocTwo("or", e1, e2)

IsYes(e) == e \in {NULL, Sym("y")}

\* What an operand equal to another is replaced by: the unit of && or ||.
Unit(o) == IF o = "and" THEN Sym("y") ELSE Sym("n")

RECURSIVE Eval(_, _)
Eval(e, v) ==
  CASE e.t = "null" -> 2
    [] e.t = "not"  -> EXPR_NOT(Eval(e.l, v))
    [] e.t = "and"  -> EXPR_AND(Eval(e.l, v), Eval(e.r, v))
    [] e.t = "or"   -> EXPR_OR(Eval(e.l, v), Eval(e.r, v))
    [] OTHER        -> LeafValue(e, v)

RECURSIVE ContainsSymbol(_, _)
ContainsSymbol(e, s) ==
  CASE e.t = "null"     -> FALSE
    [] e.t = "not"      -> ContainsSymbol(e.l, s)
    [] e.t \in Junction -> ContainsSymbol(e.l, s) \/ ContainsSymbol(e.r, s)
    [] e.t = "sym"      -> e.a = s
    [] OTHER            -> s \in {e.a, e.b}

RECURSIVE DependsSymbol(_, _)
DependsSymbol(e, s) ==
  CASE e.t = "and" -> DependsSymbol(e.l, s) \/ DependsSymbol(e.r, s)
    [] e.t = "sym" -> e.a = s
    [] e.t = "="   -> e.a = s /\ e.b \in {"y", "m"}
    [] e.t = "!="  -> e.a = s /\ e.b = "n"
    [] OTHER       -> FALSE

-----------------------------------------------------------------------------
(* Removing operands. *)

RECURSIVE EliminateYN(_)
EliminateYN(e) ==
  IF e.t \notin Junction THEN e
  ELSE LET l == EliminateYN(e.l)
           r == EliminateYN(e.r)
           zero == IF e.t = "and" THEN Sym("n") ELSE Sym("y")
       IN  IF zero \in {l, r} THEN zero
           ELSE IF l = Unit(e.t) THEN r
           ELSE IF r = Unit(e.t) THEN l
           ELSE Two(e.t, l, r)

RECURSIVE ExprEq(_, _)
RECURSIVE EliminateEq1(_, _, _)
\* The two trees after the operands of level o that occur in both are gone.
EliminateEq1(o, e1, e2) ==
  CASE e1.t = o ->
         LET l == EliminateEq1(o, e1.l, e2)
             r == EliminateEq1(o, e1.r, l[2])
         IN  <<Two(o, l[1], r[1]), r[2]>>
    [] e1.t # o /\ e2.t = o ->
         LET l == EliminateEq1(o, e1, e2.l)
             r == EliminateEq1(o, l[1], e2.r)
         IN  <<r[1], Two(o, l[2], r[2])>>
    [] OTHER ->
         IF ~(e1 = e2 /\ e1 \in {Sym("y"), Sym("n")}) /\ ExprEq(e1, e2)
         THEN <<Unit(o), Unit(o)>> ELSE <<e1, e2>>

\* EliminateEq1 of a pair, when o is a junction.
EliminateLevel(o, p) == IF o \in Junction THEN EliminateEq1(o, p[1], p[2]) ELSE p
EliminateOther(p)    == IF p[1].t # p[2].t THEN EliminateLevel(p[2].t, p) ELSE p
EliminateEq(e1, e2) ==
  IF NULL \in {e1, e2} THEN <<e1, e2>>
  ELSE LET Simple(p) == <<EliminateYN(p[1]), EliminateYN(p[2])>>
       IN  Simple(EliminateOther(EliminateLevel(e1.t, <<e1, e2>>)))

\* A mutant: what is left of two junctions need only be one symbol each.
ExprEqAnySymbol(e1, e2) ==
  IF NULL \notin {e1, e2} /\ e1.t = e2.t /\ e1.t \in Junction
  THEN \A e \in {EliminateEq(e1, e2)[i] : i \in 1 .. 2} : e.t = "sym"
  ELSE IF NULL \in {e1, e2} THEN IsYes(e1) /\ IsYes(e2) ELSE e1 = e2

ExprEq(e1, e2) ==
  CASE NULL \in {e1, e2} -> IsYes(e1) /\ IsYes(e2)
    [] NULL \notin {e1, e2} /\ e1.t # e2.t -> FALSE
    [] e1.t = e2.t /\ e1.t = "not" -> ExprEq(e1.l, e2.l)
    [] e1.t = e2.t /\ e1.t \in Junction ->
         LET OneSymbol(p) == p[1].t = "sym" /\ p[1] = p[2] IN OneSymbol(EliminateEq(e1, e2))
    [] OTHER -> e1 = e2

\* expr_join_or and expr_join_and: equal operands first, then the rules.
ExprJoin(o, e1, e2) ==
  IF ExprEq(e1, e2) THEN e1
  ELSE IF o = "or" THEN JoinOr(e1, e2) ELSE JoinAnd(e1, e2)

RECURSIVE At(_, _)
At(e, p) == IF p = <<>> THEN e ELSE At(e[Head(p)], Tail(p))

RECURSIVE Put(_, _, _)
Put(e, p, x) == IF p = <<>> THEN x ELSE [e EXCEPT ![Head(p)] = Put(@, Tail(p), x)]

\* The operands at p and q of the tree st.e, joined to j.
Joined(o, st, p, q, j) ==
  IF j = NULL THEN st ELSE [e |-> Put(Put(st.e, p, Unit(o)), q, j), n |-> st.n + 1]
JoinAt(o, st, p, q) == Joined(o, st, p, q, ExprJoin(o, At(st.e, p), At(st.e, q)))

RECURSIVE EliminateDups1(_, _, _, _)
\* One pass over the operands at paths p and q of level o of the tree st.e;
\* st.n is trans_count.
EliminateDups1(o, st, p, q) ==
  CASE At(st.e, p).t = o ->
         EliminateDups1(o, EliminateDups1(o, st, Append(p, "l"), q), Append(p, "r"), q)
    [] At(st.e, p).t # o /\ At(st.e, q).t = o ->
         EliminateDups1(o, EliminateDups1(o, st, p, Append(q, "l")), p, Append(q, "r"))
    [] OTHER ->
         IF p = q THEN st
         ELSE LET inner == At(st.e, p).t
              IN  JoinAt(o, IF inner \in Junction THEN EliminateDups1(inner, st, p, p) ELSE st,
                         p, q)

RECURSIVE EliminateDups(_)
EliminateDups(e) ==
  LET Again(st) == IF st.n = 0 THEN st.e ELSE EliminateDups(EliminateYN(st.e)) IN
  IF e.t \notin Junction THEN e
  ELSE Again(EliminateDups1(e.t, [e |-> e, n |-> 0], <<>>, <<>>))

-----------------------------------------------------------------------------
(* Rewriting. *)

RECURSIVE Transform(_)
Transform(e) ==
  CASE e.t \in Junction -> Two(e.t, Transform(e.l), Transform(e.r))
    [] e.t = "not" ->
         LET x == Transform(e.l) IN
         CASE x.t = "not" -> Transform(x.l)
           [] x.t = "or"  -> Transform(Two("and", Not(x.l), Not(x.r)))
           [] x.t = "and" -> Transform(Two("or", Not(x.l), Not(x.r)))
           [] OTHER       -> NegateLeaf(x)
    [] OTHER -> TransformLeaf(e)

RECURSIVE TransBool(_)
TransBool(e) ==
  CASE e.t = "not"      -> Not(TransBool(e.l))
    [] e.t \in Junction -> Two(e.t, TransBool(e.l), TransBool(e.r))
    [] e.t = "!="       -> IF e.a \in Tristate /\ e.b = "n" THEN Sym(e.a) ELSE e
    [] OTHER            -> e

RECURSIVE TransCompare(_, _, _)
\* e compared (o is "=" or "!=") with the constant s, y or n.
TransCompare(e, o, s) ==
  LET Sign(x) == IF o = "!=" THEN Not(x) ELSE x
      Dual(t) == IF s = "y" THEN t ELSE IF t = "and" THEN "or" ELSE "and"
  IN  CASE e.t = "null" -> Sign(Sym(s))
        [] e.t \in Junction ->
             Sign(Two(Dual(e.t), TransCompare(e.l, "=", s), TransCompare(e.r, "=", s)))
        [] e.t = "not" -> TransCompare(e.l, IF o = "=" THEN "!=" ELSE "=", s)
        [] OTHER -> CompareLeaf(e, o, s)

RECURSIVE RewriteM(_)
RewriteM(e) ==
  CASE e.t = "not"      -> Not(RewriteM(e.l))
    [] e.t \in Junction -> Two(e.t, RewriteM(e.l), RewriteM(e.r))
    [] e = Sym("m")     -> Two("and", e, Sym(ModulesSym))
    [] OTHER            -> e

\* How menu_finalize gives an entry, or a property of it, the dependency base of
\* its parent.
Propagated(base, e) == EliminateDups(AllocAnd(base, Transform(RewriteM(e))))

-----------------------------------------------------------------------------
(* The meaning of the language, which properties compare trees with. *)

\* A literal m is n when there are no modules, no expression means yes, everything
\* else is the value of the tree.
RECURSIVE Meaning(_, _)
Meaning(e, v) ==
  CASE e.t = "not" -> EXPR_NOT(Meaning(e.l, v))
    [] e.t = "and" -> EXPR_AND(Meaning(e.l, v), Meaning(e.r, v))
    [] e.t = "or"  -> EXPR_OR(Meaning(e.l, v), Meaning(e.r, v))
    [] e = Sym("m") -> EXPR_AND(1, Value(ModulesSym, v))
    [] OTHER       -> Eval(e, v)

Binary(v) == \A s \in DOMAIN v : v[s] # 1
=============================================================================
