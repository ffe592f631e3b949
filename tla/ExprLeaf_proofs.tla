--------------------------- MODULE ExprLeaf_proofs ---------------------------
(***************************************************************************)
(* The rules by which expr_eliminate_dups joins two operands of an && or   *)
(* an ||, and those by which expr_transform and expr_trans_compare rewrite *)
(* one, are right for any set of bool and tristate symbols and whatever    *)
(* the symbols are worth.                                                  *)
(***************************************************************************)
EXTENDS ExprLeaf, TLAPS

Declared == Bool \cup Tristate

\* What the constants are worth, and that they are no declared symbols.
LEMMA Constants ==
  ASSUME NEW v, NEW s \in Declared
  PROVE  /\ Value("y", v) = 2 /\ Value("m", v) = 1 /\ Value("n", v) = 0
         /\ Value(s, v) = v[s]
         /\ s \notin Const
BY SymbolAssumption DEF Declared, Value, Const

\* The value of a symbol, which is never m when it is a bool.
LEMMA SymbolValue ==
  ASSUME NEW v \in Valuation, NEW s \in Declared
  PROVE  v[s] \in {0, 1, 2} /\ (s \in Bool => v[s] \in {0, 2})
<1>1. v \in [Bool \cup Tristate -> 0 .. 2] /\ \A x \in Bool : v[x] # 1
  BY DEF Valuation
<1>2. v[s] \in 0 .. 2
  BY <1>1 DEF Declared
<1> QED
  BY <1>1, <1>2

\* A comparison of a symbol with a constant compares their values.
LEMMA TestValue ==
  ASSUME NEW v \in Valuation, NEW s \in Declared, NEW c \in Const
  PROVE  /\ OperandValue(Eq(s, c), v) = IF v[s] = Value(c, v) THEN 2 ELSE 0
         /\ OperandValue(Neq(s, c), v) = IF v[s] = Value(c, v) THEN 0 ELSE 2
<1>1. v[s] \in {0, 1, 2} /\ Value(s, v) = v[s]
  BY SymbolValue, Constants
<1>2. Value(c, v) \in {0, 1, 2}
  BY Constants DEF Const
<1>3. ({s, c} \cap Const = {}) = FALSE
  OBVIOUS
<1>4. (Place(v[s], FALSE) = Place(Value(c, v), FALSE)) <=> v[s] = Value(c, v)
  BY <1>1, <1>2 DEF Place
<1>5. /\ LeafValue(Eq(s, c), v) = IF v[s] = Value(c, v) THEN 2 ELSE 0
      /\ LeafValue(Neq(s, c), v) = IF v[s] = Value(c, v) THEN 0 ELSE 2
  BY <1>1, <1>3, <1>4 DEF LeafValue, Eq, Neq, Cmp, Holds
<1> QED
  BY <1>5 DEF OperandValue, Eq, Neq, Cmp

\* The value of a symbol and of its negation.
LEMMA PlainValue ==
  ASSUME NEW v \in Valuation, NEW s \in Declared
  PROVE  /\ OperandValue(Sym(s), v) = v[s]
         /\ OperandValue(Not(Sym(s)), v) = 2 - v[s]
         /\ OperandValue(Sym("y"), v) = 2
         /\ OperandValue(Sym("n"), v) = 0
<1>1. /\ LeafValue(Sym(s), v) = v[s]
      /\ LeafValue(Sym("y"), v) = 2 /\ LeafValue(Sym("n"), v) = 0
  BY Constants DEF LeafValue, Sym
<1> QED
  BY <1>1 DEF OperandValue, Sym, Not, EXPR_NOT

\* A rule is about two operands in either order.
LEMMA EitherOrder ==
  ASSUME NEW a, NEW b, NEW c, NEW d, {a, b} = {c, d}
  PROVE  (a = c /\ b = d) \/ (a = d /\ b = c)
OBVIOUS

\* || and && of two operands do not depend on their order.
LEMMA Symmetric ==
  ASSUME NEW v, NEW e1, NEW e2, NEW x, NEW y, {e1, e2} = {x, y},
         OperandValue(x, v) \in 0 .. 2, OperandValue(y, v) \in 0 .. 2
  PROVE  /\ EXPR_OR(OperandValue(e1, v), OperandValue(e2, v))
              = EXPR_OR(OperandValue(x, v), OperandValue(y, v))
         /\ EXPR_AND(OperandValue(e1, v), OperandValue(e2, v))
              = EXPR_AND(OperandValue(x, v), OperandValue(y, v))
<1>1. CASE e1 = x /\ e2 = y
  BY <1>1
<1>2. CASE e1 = y /\ e2 = x
  BY <1>2 DEF EXPR_OR, EXPR_AND
<1> QED
  BY <1>1, <1>2, EitherOrder

\* What the tests of a symbol and of the constants are worth.
LEMMA OperandValues ==
  ASSUME NEW v \in Valuation, NEW s \in Declared
  PROVE  /\ OperandValue(Eq(s, "y"), v) = IF v[s] = 2 THEN 2 ELSE 0
         /\ OperandValue(Eq(s, "m"), v) = IF v[s] = 1 THEN 2 ELSE 0
         /\ OperandValue(Eq(s, "n"), v) = IF v[s] = 0 THEN 2 ELSE 0
         /\ OperandValue(Neq(s, "y"), v) = IF v[s] = 2 THEN 0 ELSE 2
         /\ OperandValue(Neq(s, "m"), v) = IF v[s] = 1 THEN 0 ELSE 2
         /\ OperandValue(Neq(s, "n"), v) = IF v[s] = 0 THEN 0 ELSE 2
BY Constants, TestValue DEF Const

-----------------------------------------------------------------------------
(* expr_join_or: an expression that replaces the two operands of an || is      *)
(* worth what they were worth together, under any values of the symbols.      *)
THEOREM JoinOrSound ==
  ASSUME NEW e1 \in Operand, NEW e2 \in Operand, NEW v \in Valuation,
         JoinOr(e1, e2) # NULL
  PROVE  OperandValue(JoinOr(e1, e2), v)
           = EXPR_OR(OperandValue(e1, v), OperandValue(e2, v))
<1> DEFINE s == About(e1)
           join == JoinOr(e1, e2)
<1>1. s \in Declared
  BY DEF JoinOr, Joinable, Declared
<1>2. /\ v[s] \in {0, 1, 2} /\ (s \in Bool => v[s] \in {0, 2})
      /\ OperandValue(Sym(s), v) = v[s]
      /\ OperandValue(Not(Sym(s)), v) = 2 - v[s]
      /\ OperandValue(Sym("y"), v) = 2
  BY <1>1, SymbolValue, PlainValue
<1>3. \/ {e1, e2} = {Eq(s, "y"), Eq(s, "m")} /\ join = Neq(s, "n")
      \/ {e1, e2} = {Eq(s, "y"), Eq(s, "n")} /\ join = Neq(s, "m")
      \/ {e1, e2} = {Eq(s, "m"), Eq(s, "n")} /\ join = Neq(s, "y")
      \/ {e1, e2} = {Sym(s), Not(Sym(s))} /\ s \in Bool /\ join = Sym("y")
  <2> DEFINE pair == {e1, e2}
  <2>1. join # NULL
    OBVIOUS
  <2>2. Joinable(e1, e2)
    BY DEF JoinOr
  <2>3. join = CASE s \in Tristate /\ pair = {Eq(s, "y"), Eq(s, "m")} -> Neq(s, "n")
                 [] s \in Tristate /\ pair = {Eq(s, "y"), Eq(s, "n")} -> Neq(s, "m")
                 [] s \in Tristate /\ pair = {Eq(s, "m"), Eq(s, "n")} -> Neq(s, "y")
                 [] s \in Bool /\ pair = {Sym(s), Not(Sym(s))} -> Sym("y")
                 [] OTHER -> NULL
    BY <2>2, Zenon DEF JoinOr
  <2> HIDE DEF pair, join, s
  <2>4. \/ pair = {Eq(s, "y"), Eq(s, "m")} /\ join = Neq(s, "n")
        \/ pair = {Eq(s, "y"), Eq(s, "n")} /\ join = Neq(s, "m")
        \/ pair = {Eq(s, "m"), Eq(s, "n")} /\ join = Neq(s, "y")
        \/ pair = {Sym(s), Not(Sym(s))} /\ s \in Bool /\ join = Sym("y")
    BY <2>1, <2>3
  <2> QED
    BY <2>4 DEF pair
<1>4. CASE {e1, e2} = {Eq(s, "y"), Eq(s, "m")} /\ join = Neq(s, "n")
  <2>1. /\ OperandValue(Eq(s, "y"), v) \in 0 .. 2
        /\ OperandValue(Eq(s, "m"), v) \in 0 .. 2
        /\ OperandValue(Neq(s, "n"), v)
             = EXPR_OR(OperandValue(Eq(s, "y"), v), OperandValue(Eq(s, "m"), v))
    BY <1>1, <1>2, OperandValues DEF EXPR_OR
  <2> QED
    BY <1>4, <2>1, Symmetric
<1>5. CASE {e1, e2} = {Eq(s, "y"), Eq(s, "n")} /\ join = Neq(s, "m")
  <2>1. /\ OperandValue(Eq(s, "y"), v) \in 0 .. 2
        /\ OperandValue(Eq(s, "n"), v) \in 0 .. 2
        /\ OperandValue(Neq(s, "m"), v)
             = EXPR_OR(OperandValue(Eq(s, "y"), v), OperandValue(Eq(s, "n"), v))
    BY <1>1, <1>2, OperandValues DEF EXPR_OR
  <2> QED
    BY <1>5, <2>1, Symmetric
<1>6. CASE {e1, e2} = {Eq(s, "m"), Eq(s, "n")} /\ join = Neq(s, "y")
  <2>1. /\ OperandValue(Eq(s, "m"), v) \in 0 .. 2
        /\ OperandValue(Eq(s, "n"), v) \in 0 .. 2
        /\ OperandValue(Neq(s, "y"), v)
             = EXPR_OR(OperandValue(Eq(s, "m"), v), OperandValue(Eq(s, "n"), v))
    BY <1>1, <1>2, OperandValues DEF EXPR_OR
  <2> QED
    BY <1>6, <2>1, Symmetric
<1>7. CASE {e1, e2} = {Sym(s), Not(Sym(s))} /\ s \in Bool /\ join = Sym("y")
  BY <1>2, <1>7, Symmetric DEF EXPR_OR
<1> QED
  BY <1>3, <1>4, <1>5, <1>6, <1>7

(* expr_join_and: the same for the operands of an &&.                          *)
THEOREM JoinAndSound ==
  ASSUME NEW e1 \in Operand, NEW e2 \in Operand, NEW v \in Valuation,
         JoinAnd(e1, e2) # NULL
  PROVE  OperandValue(JoinAnd(e1, e2), v)
           = EXPR_AND(OperandValue(e1, v), OperandValue(e2, v))
<1> DEFINE s == About(e1)
           join == JoinAnd(e1, e2)
           is == Asserted(e1, e2)
           isnt == Denied(e1, e2)
<1>1. s \in Declared
  BY DEF JoinAnd, Joinable, Declared
<1>2. /\ v[s] \in {0, 1, 2}
      /\ OperandValue(Sym(s), v) = v[s]
      /\ OperandValue(Sym("n"), v) = 0
  BY <1>1, SymbolValue, PlainValue
<1>3. \/ {e1, e2} = {Sym(s), Eq(s, "y")} /\ join = Eq(s, "y")
      \/ {e1, e2} = {Sym(s), Neq(s, "n")} /\ join = Sym(s)
      \/ {e1, e2} = {Sym(s), Neq(s, "m")} /\ join = Eq(s, "y")
      \/ is # {} /\ isnt # {} /\ is # isnt /\ join = Eq(s, Known(e1, e2))
      \/ is # {} /\ isnt # {} /\ is = isnt /\ join = Sym("n")
      \/ {e1, e2} = {Neq(s, "y"), Neq(s, "n")} /\ join = Eq(s, "m")
      \/ {e1, e2} = {Neq(s, "y"), Neq(s, "m")} /\ join = Eq(s, "n")
      \/ {e1, e2} = {Neq(s, "m"), Neq(s, "n")} /\ join = Eq(s, "y")
  <2>1. CASE Sym(s) \in {e1, e2}
    <3>1. Joinable(e1, e2)
      BY DEF JoinAnd
    <3>2. join = CASE {e1, e2} = {Sym(s), Eq(s, "y")}  -> Eq(s, "y")
                   [] {e1, e2} = {Sym(s), Neq(s, "n")} -> Sym(s)
                   [] {e1, e2} = {Sym(s), Neq(s, "m")} -> Eq(s, "y")
                   [] OTHER -> NULL
      BY <2>1, <3>1 DEF JoinAnd
    <3> QED
      BY <3>2
  <2>2. CASE Sym(s) \notin {e1, e2} /\ is = {}
    BY <2>2 DEF JoinAnd
  <2>3. CASE Sym(s) \notin {e1, e2} /\ is # {}
    BY <2>3 DEF JoinAnd
  <2> QED
    BY <2>1, <2>2, <2>3
<1>4. CASE {e1, e2} = {Sym(s), Eq(s, "y")} /\ join = Eq(s, "y")
  BY <1>1, <1>2, <1>4, OperandValues, Symmetric DEF EXPR_AND
<1>5. CASE {e1, e2} = {Sym(s), Neq(s, "n")} /\ join = Sym(s)
  BY <1>1, <1>2, <1>5, OperandValues, Symmetric DEF EXPR_AND
<1>6. CASE {e1, e2} = {Sym(s), Neq(s, "m")} /\ join = Eq(s, "y")
  BY <1>1, <1>2, <1>6, OperandValues, Symmetric DEF EXPR_AND
<1>7. ASSUME is # {}, isnt # {}
      PROVE  \E c \in Const, d \in Const : {e1, e2} = {Eq(s, c), Neq(s, d)}
  <2>1. PICK c \in Const : Eq(s, c) \in {e1, e2}
    BY <1>7 DEF Asserted
  <2>2. PICK d \in Const : Neq(s, d) \in {e1, e2}
    BY <1>7 DEF Denied
  <2>3. Eq(s, c) # Neq(s, d)
    BY DEF Eq, Neq, Cmp
  <2> QED
    BY <2>1, <2>2, <2>3
<1>8. ASSUME is # {}, isnt # {}
      PROVE  \E c \in Const, d \in Const :
               /\ is = {c} /\ isnt = {d}
               /\ EXPR_AND(OperandValue(e1, v), OperandValue(e2, v))
                    = IF v[s] = Value(c, v) /\ c # d THEN 2 ELSE 0
  <2>1. PICK c \in Const, d \in Const : {e1, e2} = {Eq(s, c), Neq(s, d)}
    BY <1>7, <1>8
  <2>2. is = {c} /\ isnt = {d}
    BY <2>1 DEF Asserted, Denied, Eq, Neq, Cmp
  <2>3. /\ OperandValue(Eq(s, c), v) = IF v[s] = Value(c, v) THEN 2 ELSE 0
        /\ OperandValue(Neq(s, d), v) = IF v[s] = Value(d, v) THEN 0 ELSE 2
    BY <1>1, TestValue
  <2>4. c # d => Value(c, v) # Value(d, v)
    BY <1>1, Constants DEF Const
  <2>5. EXPR_AND(OperandValue(e1, v), OperandValue(e2, v))
          = EXPR_AND(OperandValue(Eq(s, c), v), OperandValue(Neq(s, d), v))
    BY <2>1, <2>3, Symmetric
  <2>6. EXPR_AND(OperandValue(Eq(s, c), v), OperandValue(Neq(s, d), v))
          = IF v[s] = Value(c, v) /\ c # d THEN 2 ELSE 0
    BY <2>3, <2>4 DEF EXPR_AND
  <2> QED
    BY <2>2, <2>5, <2>6
<1>12. CASE is # {} /\ isnt # {} /\ is # isnt /\ join = Eq(s, Known(e1, e2))
  <2>1. PICK c \in Const, d \in Const :
          /\ is = {c} /\ isnt = {d}
          /\ EXPR_AND(OperandValue(e1, v), OperandValue(e2, v))
               = IF v[s] = Value(c, v) /\ c # d THEN 2 ELSE 0
    BY <1>8, <1>12
  <2>2. c # d /\ join = Eq(s, c)
    BY <1>12, <2>1 DEF Known
  <2>3. OperandValue(Eq(s, c), v) = IF v[s] = Value(c, v) THEN 2 ELSE 0
    BY <1>1, TestValue
  <2> QED
    BY <2>1, <2>2, <2>3
<1>13. CASE is # {} /\ isnt # {} /\ is = isnt /\ join = Sym("n")
  BY <1>2, <1>8, <1>13
<1>9. CASE {e1, e2} = {Neq(s, "y"), Neq(s, "n")} /\ join = Eq(s, "m")
  BY <1>1, <1>2, <1>9, OperandValues, Symmetric DEF EXPR_AND
<1>10. CASE {e1, e2} = {Neq(s, "y"), Neq(s, "m")} /\ join = Eq(s, "n")
  BY <1>1, <1>2, <1>10, OperandValues, Symmetric DEF EXPR_AND
<1>11. CASE {e1, e2} = {Neq(s, "m"), Neq(s, "n")} /\ join = Eq(s, "y")
  BY <1>1, <1>2, <1>11, OperandValues, Symmetric DEF EXPR_AND
<1> QED
  BY <1>3, <1>4, <1>5, <1>6, <1>9, <1>10, <1>11, <1>12, <1>13
-----------------------------------------------------------------------------
\* Every symbol is a declared one or a constant, and is worth a tristate.
LEMMA ValueType ==
  ASSUME NEW v \in Valuation, NEW s \in Symbol
  PROVE  Value(s, v) \in {0, 1, 2}
<1>1. CASE s \in Declared
  BY <1>1, SymbolValue, Constants
<1>2. CASE s \in Const
  BY <1>2 DEF Value, Const
<1> QED
  BY <1>1, <1>2 DEF Symbol, Declared

LEMMA PlaceType ==
  ASSUME NEW x \in {0, 1, 2}, NEW typed \in BOOLEAN
  PROVE  Place(x, typed) \in 0 .. 2
BY DEF Place

\* What is one of the six comparisons.
LEMMA ComparisonValue ==
  ASSUME NEW e \in Leaf, NEW v \in Valuation, e.t # "sym"
  PROVE  /\ e.t \in Comparison /\ e.a \in Symbol /\ e.b \in Symbol
         /\ \E x \in 0 .. 2, y \in 0 .. 2 :
              \A o \in Comparison :
                LeafValue(Cmp(o, e.a, e.b), v) = IF Holds(o, x, y) THEN 2 ELSE 0
         /\ e = Cmp(e.t, e.a, e.b)
<1>1. e \in [t : Comparison, a : Symbol, b : Symbol]
  BY DEF Leaf
<1> DEFINE typed == ({e.a, e.b} \cap Const = {})
           x == Place(Value(e.a, v), typed)
           y == Place(Value(e.b, v), typed)
<1>2. x \in 0 .. 2 /\ y \in 0 .. 2
  BY <1>1, ValueType, PlaceType
<1>3. ASSUME NEW o \in Comparison
      PROVE  LeafValue(Cmp(o, e.a, e.b), v) = IF Holds(o, x, y) THEN 2 ELSE 0
  <2>1. /\ Cmp(o, e.a, e.b).t = o /\ o # "sym"
        /\ Cmp(o, e.a, e.b).a = e.a /\ Cmp(o, e.a, e.b).b = e.b
    BY DEF Comparison, Cmp
  <2> QED
    BY <2>1 DEF LeafValue
<1>4. e = Cmp(e.t, e.a, e.b)
  BY <1>1 DEF Cmp
<1> HIDE DEF x, y
<1> QED
  BY <1>1, <1>2, <1>3, <1>4

\* The table of opposites.
LEMMA Opposites ==
  /\ Opposite["="] = "!=" /\ Opposite["!="] = "="
  /\ Opposite["<="] = ">" /\ Opposite[">"] = "<="
  /\ Opposite[">="] = "<" /\ Opposite["<"] = ">="
BY DEF Opposite, Comparison

\* The meaning of the six signs, one by one.
LEMMA Signs ==
  ASSUME NEW x, NEW y
  PROVE  /\ Holds("=", x, y) <=> x = y
         /\ Holds("!=", x, y) <=> x # y
         /\ Holds("<", x, y) <=> x < y
         /\ Holds("<=", x, y) <=> x <= y
         /\ Holds(">", x, y) <=> x > y
         /\ Holds(">=", x, y) <=> x >= y
BY DEF Holds

\* One of two values is less than the other or they are equal.
LEMMA OppositeHolds ==
  ASSUME NEW o \in Comparison, NEW x \in 0 .. 2, NEW y \in 0 .. 2
  PROVE  /\ Opposite[o] \in Comparison
         /\ Holds(Opposite[o], x, y) <=> ~Holds(o, x, y)
<1>1. Opposite[o] \in Comparison
  BY Opposites DEF Comparison
<1>2. x <= y <=> ~(x > y)
  OBVIOUS
<1>3. x >= y <=> ~(x < y)
  OBVIOUS
<1>4. CASE o \in {"=", "!="}
  BY <1>1, <1>4, Opposites, Signs
<1>5. CASE o \in {"<=", ">"}
  BY <1>1, <1>2, <1>5, Opposites, Signs
<1>6. CASE o \in {">=", "<"}
  BY <1>1, <1>3, <1>6, Opposites, Signs
<1> QED
  BY <1>4, <1>5, <1>6 DEF Comparison

\* The value of a leaf is that of the operand it is.
LEMMA LeafIsOperand ==
  ASSUME NEW e \in Leaf, NEW v \in Valuation
  PROVE  /\ e.t # "not"
         /\ OperandValue(e, v) = LeafValue(e, v)
         /\ OperandValue(Not(e), v) = 2 - LeafValue(e, v)
<1>1. e.t # "not"
  BY DEF Leaf, Comparison
<1> QED
  BY <1>1 DEF OperandValue, Not, EXPR_NOT

(* expr_transform of a comparison: a bool symbol that is tested for y, m or n    *)
(* is replaced by the symbol, its negation or a constant, which is worth what    *)
(* the test was, under any values of the symbols.                                *)
THEOREM TransformLeafSound ==
  ASSUME NEW e \in Leaf, NEW v \in Valuation
  PROVE  OperandValue(TransformLeaf(e), v) = LeafValue(e, v)
<1>1. CASE e.t \in {"=", "!="} /\ e.a \in Bool /\ e.b \in Const
  <2>1. e.a \in Declared /\ e.a \in Bool
    BY <1>1 DEF Declared
  <2>2. e = Eq(e.a, e.b) \/ e = Neq(e.a, e.b)
    BY <1>1 DEF Leaf, Eq, Neq, Cmp
  <2>3. v[e.a] \in {0, 2} /\ Value("y", v) = 2 /\ Value("m", v) = 1 /\ Value("n", v) = 0
    BY <2>1, SymbolValue, Constants
  <2>4. /\ OperandValue(Sym(e.a), v) = v[e.a]
        /\ OperandValue(Not(Sym(e.a)), v) = 2 - v[e.a]
        /\ OperandValue(Sym("y"), v) = 2
        /\ OperandValue(Sym("n"), v) = 0
    BY <2>1, PlainValue
  <2>5. /\ e.t = "="  => OperandValue(e, v) = IF v[e.a] = Value(e.b, v) THEN 2 ELSE 0
        /\ e.t = "!=" => OperandValue(e, v) = IF v[e.a] = Value(e.b, v) THEN 0 ELSE 2
    <3>1. /\ OperandValue(Eq(e.a, e.b), v) = IF v[e.a] = Value(e.b, v) THEN 2 ELSE 0
          /\ OperandValue(Neq(e.a, e.b), v) = IF v[e.a] = Value(e.b, v) THEN 0 ELSE 2
      BY <1>1, <2>1, TestValue
    <3>2. Eq(e.a, e.b).t = "=" /\ Neq(e.a, e.b).t = "!="
      BY DEF Eq, Neq, Cmp
    <3> QED
      BY <2>2, <3>1, <3>2
  <2>6. TransformLeaf(e) = TransformTest(e)
    BY <1>1 DEF TransformLeaf
  <2>7. OperandValue(TransformTest(e), v) = OperandValue(e, v)
    <3>1. CASE e.b = "y"
      BY <1>1, <2>3, <2>4, <2>5, <3>1 DEF TransformTest
    <3>2. CASE e.b = "m"
      BY <1>1, <2>3, <2>4, <2>5, <3>2 DEF TransformTest
    <3>3. CASE e.b = "n"
      BY <1>1, <2>3, <2>4, <2>5, <3>3 DEF TransformTest
    <3> QED
      BY <1>1, <3>1, <3>2, <3>3 DEF Const
  <2> QED
    BY <2>6, <2>7, LeafIsOperand
<1>2. CASE ~(e.t \in {"=", "!="} /\ e.a \in Bool /\ e.b \in Const)
  <2>1. TransformLeaf(e) = e
    BY <1>2 DEF TransformLeaf, TransformTest, Const
  <2> QED
    BY <2>1, LeafIsOperand
<1> QED
  BY <1>1, <1>2

(* expr_transform of the negation of a leaf: the opposite comparison, another    *)
(* constant or the negation itself, which is worth what the negation was.        *)
(* Two texts or two numbers are always in order, so that the opposite of < is >=.*)
THEOREM NegateLeafSound ==
  ASSUME NEW e \in Leaf, NEW v \in Valuation
  PROVE  OperandValue(NegateLeaf(e), v) = OperandValue(Not(e), v)
<1>1. CASE e.t # "sym"
  <2> DEFINE opposite == Cmp(Opposite[e.t], e.a, e.b)
  <2>1. e.t \in Comparison /\ e = Cmp(e.t, e.a, e.b)
    BY <1>1, ComparisonValue
  <2>2. PICK x \in 0 .. 2, y \in 0 .. 2 : \A o \in Comparison :
          LeafValue(Cmp(o, e.a, e.b), v) = IF Holds(o, x, y) THEN 2 ELSE 0
    BY <1>1, ComparisonValue
  <2>3. /\ Opposite[e.t] \in Comparison
        /\ Holds(Opposite[e.t], x, y) <=> ~Holds(e.t, x, y)
    BY <2>1, OppositeHolds
  <2>4. LeafValue(opposite, v) = 2 - LeafValue(e, v)
    <3>1. LeafValue(e, v) = IF Holds(e.t, x, y) THEN 2 ELSE 0
      BY <2>1, <2>2
    <3>2. LeafValue(opposite, v) = IF Holds(Opposite[e.t], x, y) THEN 2 ELSE 0
      BY <2>2, <2>3
    <3> QED
      BY <2>3, <3>1, <3>2
  <2>5. opposite \in Leaf
    BY <1>1, <2>3, ComparisonValue DEF Leaf, Cmp
  <2>6. NegateLeaf(e) = opposite
    BY <2>1 DEF NegateLeaf, Sym, Comparison
  <2> QED
    BY <2>4, <2>5, <2>6, LeafIsOperand
<1>2. CASE e.t = "sym"
  <2>1. e.t \notin Comparison
    BY <1>2 DEF Comparison
  <2>2. /\ Sym("y") \in Leaf /\ Sym("m") \in Leaf /\ Sym("n") \in Leaf
    BY DEF Sym, Leaf, Symbol, Const
  <2>3. /\ LeafValue(Sym("y"), v) = 2 /\ LeafValue(Sym("m"), v) = 1
        /\ LeafValue(Sym("n"), v) = 0
    BY DEF LeafValue, Sym, Value
  <2>4. CASE e = Sym("y")
    BY <2>1, <2>2, <2>3, <2>4, LeafIsOperand DEF NegateLeaf
  <2>5. CASE e = Sym("m")
    <3>1. NegateLeaf(e) = Sym("m")
      BY <2>1, <2>5 DEF NegateLeaf, Sym
    <3> QED
      BY <2>2, <2>3, <2>5, <3>1, LeafIsOperand
  <2>6. CASE e = Sym("n")
    <3>1. NegateLeaf(e) = Sym("y")
      BY <2>1, <2>6 DEF NegateLeaf, Sym
    <3> QED
      BY <2>2, <2>3, <2>6, <3>1, LeafIsOperand
  <2>7. CASE e \notin {Sym("y"), Sym("m"), Sym("n")}
    BY <2>1, <2>7 DEF NegateLeaf
  <2> QED
    BY <2>4, <2>5, <2>6, <2>7
<1> QED
  BY <1>1, <1>2

(* expr_trans_compare of a leaf: what is returned is y when the value of the     *)
(* leaf equals the constant, or differs from it, as asked, and n when not.       *)
THEOREM CompareLeafSound ==
  ASSUME NEW e \in Leaf, NEW v \in Valuation, NEW o \in {"=", "!="}, NEW c \in {"y", "n"}
  PROVE  OperandValue(CompareLeaf(e, o, c), v)
           = IF (o = "=") = (LeafValue(e, v) = Value(c, v)) THEN 2 ELSE 0
<1>1. Value("y", v) = 2 /\ Value("n", v) = 0 /\ Value(c, v) \in {0, 2} /\ c \in Const
  BY DEF Value, Const
<1>2. CASE e.t = "sym"
  <2>1. e.a \in Symbol
    BY <1>2 DEF Leaf, Comparison
  <2>2. LeafValue(e, v) = Value(e.a, v) /\ Value(e.a, v) \in {0, 1, 2}
    BY <1>2, <2>1, ValueType DEF LeafValue
  <2>3. ({e.a, c} \cap Const = {}) = FALSE
    BY <1>1
  <2>4. (Place(Value(e.a, v), FALSE) = Place(Value(c, v), FALSE)) <=> Value(e.a, v) = Value(c, v)
    BY <1>1, <2>2 DEF Place
  <2>5. LeafValue(Cmp(o, e.a, c), v) = IF (o = "=") = (Value(e.a, v) = Value(c, v)) THEN 2 ELSE 0
    BY <2>3, <2>4 DEF LeafValue, Cmp, Holds
  <2>6. Cmp(o, e.a, c) \in Leaf
    BY <1>1, <2>1 DEF Cmp, Leaf, Comparison, Symbol
  <2>7. CompareLeaf(e, o, c) = Cmp(o, e.a, c)
    BY <1>2 DEF CompareLeaf
  <2> QED
    BY <2>2, <2>5, <2>6, <2>7, LeafIsOperand
<1>3. CASE e.t # "sym"
  <2>1. LeafValue(e, v) \in {0, 2}
    BY <1>3 DEF LeafValue
  <2>2. CompareLeaf(e, o, c) = IF (o = "=") = (c = "y") THEN e ELSE Not(e)
    BY <1>3 DEF CompareLeaf
  <2> QED
    BY <1>1, <2>1, <2>2, LeafIsOperand
<1> QED
  BY <1>2, <1>3
=============================================================================
