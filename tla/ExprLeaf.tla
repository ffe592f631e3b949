------------------------------ MODULE ExprLeaf ------------------------------
(***************************************************************************)
(* The leaves of Kconfig's expressions (kconfig/expr.c): symbols,          *)
(* comparisons and their negations, what they evaluate to, what they are   *)
(* rewritten to, and the two tables of rules by which expr_eliminate_dups  *)
(* joins two of them.                                                      *)
(*                                                                         *)
(* Values are the tristates 0 (no), 1 (mod), 2 (yes) of enum tristate.     *)
(* Numbers and strings are abstracted: no rule below looks at them.        *)
(***************************************************************************)
EXTENDS Naturals

CONSTANTS Bool,       \* the symbols of type S_BOOLEAN
          Tristate    \* the symbols of type S_TRISTATE

\* symbol_yes, symbol_mod and symbol_no, whose own type is S_UNKNOWN.
Const == {"y", "m", "n"}

Symbol == Bool \cup Tristate \cup Const

ASSUME SymbolAssumption ==
  /\ Bool \cap Tristate = {}
  /\ (Bool \cup Tristate) \cap Const = {}

\* What the symbols may be worth: a bool symbol is never m.
Valuation == {v \in [Bool \cup Tristate -> 0 .. 2] : \A s \in Bool : v[s] # 1}

-----------------------------------------------------------------------------
(* Nodes.  NULL stands for "no expression", which means yes. *)

NULL      == [t |-> "null"]
Sym(s)    == [t |-> "sym", a |-> s]
Cmp(o, a, b) == [t |-> o, a |-> a, b |-> b]
Eq(a, b)  == Cmp("=", a, b)
Neq(a, b) == Cmp("!=", a, b)
Not(e)    == [t |-> "not", l |-> e]

Comparison == {"=", "!=", "<", "<=", ">", ">="}
Leaf    == [t : {"sym"}, a : Symbol] \cup [t : Comparison, a : Symbol, b : Symbol]
Operand == Leaf \cup [t : {"not"}, l : Leaf]

-----------------------------------------------------------------------------
(* Values. *)

EXPR_AND(x, y) == IF x < y THEN x ELSE y
EXPR_OR(x, y)  == IF x > y THEN x ELSE y
EXPR_NOT(x)    == 2 - x

Value(s, v) == CASE s = "y" -> 2
                 [] s = "m" -> 1
                 [] s = "n" -> 0
                 [] OTHER   -> v[s]

\* The place of a value in the order a comparison uses.  Two declared symbols
\* are compared as numbers; with a constant, whose type is unknown, the texts
\* are compared, and "m" comes before "n".
Place(x, typed) == IF typed THEN x ELSE IF x = 2 THEN 2 ELSE 1 - x

Holds(o, x, y) == CASE o = "="  -> x = y
                    [] o = "!=" -> x # y
                    [] o = "<"  -> x < y
                    [] o = "<=" -> x <= y
                    [] o = ">"  -> x > y
                    [] o = ">=" -> x >= y

LeafValue(e, v) ==
  IF e.t = "sym" THEN Value(e.a, v)
  ELSE LET typed == {e.a, e.b} \cap Const = {} IN
       IF Holds(e.t, Place(Value(e.a, v), typed), Place(Value(e.b, v), typed))
       THEN 2 ELSE 0

OperandValue(e, v) ==
  IF e.t = "not" THEN EXPR_NOT(LeafValue(e.l, v)) ELSE LeafValue(e, v)

-----------------------------------------------------------------------------
(* Rewriting one leaf. *)

\* A bool symbol compared with a constant.
TransformTest(e) ==
  LET is == e.t = "=" IN
  CASE e.b = "y" -> IF is THEN Sym(e.a) ELSE Not(Sym(e.a))
    [] e.b = "n" -> IF is THEN Not(Sym(e.a)) ELSE Sym(e.a)
    [] e.b = "m" -> IF is THEN Sym("n") ELSE Sym("y")
    [] OTHER     -> e

TransformLeaf(e) == IF e.t \in {"=", "!="} /\ e.a \in Bool THEN TransformTest(e) ELSE e

Opposite == [o \in Comparison |->
  CASE o = "=" -> "!=" [] o = "!=" -> "=" [] o = "<=" -> ">"
    [] o = ">=" -> "<" [] o = "<" -> ">=" [] o = ">" -> "<="]

\* What expr_transform makes of the negation of a leaf.
NegateLeaf(x) ==
  CASE x.t \in Comparison -> Cmp(Opposite[x.t], x.a, x.b)
    [] x = Sym("y")       -> Sym("n")
    [] x = Sym("m")       -> Sym("m")
    [] x = Sym("n")       -> Sym("y")
    [] OTHER              -> Not(x)

\* A leaf compared (o is "=" or "!=") with the constant s, y or n.
CompareLeaf(e, o, s) ==
  IF e.t = "sym" THEN Cmp(o, e.a, s)
  ELSE IF (o = "=") = (s = "y") THEN e ELSE Not(e)

-----------------------------------------------------------------------------
(* Joining two operands of one && or ||.  NULL: they cannot be joined. *)

\* The symbol an operand is about.
About(e) == IF e.t = "not" THEN e.l.a ELSE e.a

Plain == {"sym", "=", "!="}

\* The tests both rules begin with; a negated second operand must be a symbol.
Joinable(e1, e2) ==
  /\ e1.t \in Plain \/ (e1.t = "not" /\ e1.l.t \in Plain)
  /\ e2.t \in Plain \/ (e2.t = "not" /\ e2.l.t = "sym")
  /\ About(e1) = About(e2)
  /\ About(e1) \in Bool \cup Tristate

JoinOr(e1, e2) ==
  LET s == About(e1)
      pair == {e1, e2}
  IN  IF ~Joinable(e1, e2) THEN NULL ELSE
      CASE s \in Tristate /\ pair = {Eq(s, "y"), Eq(s, "m")} -> Neq(s, "n")
        [] s \in Tristate /\ pair = {Eq(s, "y"), Eq(s, "n")} -> Neq(s, "m")
        [] s \in Tristate /\ pair = {Eq(s, "m"), Eq(s, "n")} -> Neq(s, "y")
        [] s \in Bool /\ pair = {Sym(s), Not(Sym(s))} -> Sym("y")
        [] OTHER -> NULL

\* The constants the symbol of two operands is said to equal, and not to equal.
Asserted(e1, e2) == {c \in Const : Eq(About(e1), c) \in {e1, e2}}
Denied(e1, e2)   == {c \in Const : Neq(About(e1), c) \in {e1, e2}}

\* The one it is said to equal, where there is one.
Known(e1, e2) == CHOOSE c \in Asserted(e1, e2) : TRUE

\* A mutant: the rule for A!="m" && A!="n" answers with the wrong constant.
JoinAndMixed(e1, e2) ==
  LET s == About(e1) IN
  IF Joinable(e1, e2) /\ s \in Tristate /\ {e1, e2} = {Neq(s, "m"), Neq(s, "n")}
  THEN Eq(s, "m") ELSE NULL

JoinAnd(e1, e2) ==
  LET s == About(e1)
      pair == {e1, e2}
      Plainly == CASE pair = {Sym(s), Eq(s, "y")}  -> Eq(s, "y")
                   [] pair = {Sym(s), Neq(s, "n")} -> Sym(s)
                   [] pair = {Sym(s), Neq(s, "m")} -> Eq(s, "y")
                   [] OTHER -> NULL
      Excluding == CASE pair = {Neq(s, "y"), Neq(s, "n")} -> Eq(s, "m")
                     [] pair = {Neq(s, "y"), Neq(s, "m")} -> Eq(s, "n")
                     [] pair = {Neq(s, "m"), Neq(s, "n")} -> Eq(s, "y")
                     [] OTHER -> NULL
  IN  IF ~Joinable(e1, e2) THEN NULL
      ELSE IF Sym(s) \in pair THEN Plainly
      ELSE IF s \notin Tristate THEN NULL
      ELSE IF Asserted(e1, e2) = {} THEN Excluding
      ELSE IF Denied(e1, e2) = {} THEN NULL
      ELSE IF Asserted(e1, e2) = Denied(e1, e2) THEN Sym("n") ELSE Eq(s, Known(e1, e2))
=============================================================================
