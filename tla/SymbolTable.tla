----------------------------- MODULE SymbolTable -----------------------------
(***************************************************************************)
(* Kconfig's symbols and how they are evaluated (kconfig/symbol.c).        *)
(*                                                                         *)
(* A symbol table is a record t: what the C code keeps in each struct      *)
(* symbol.  An evaluation marks a symbol SYMBOL_VALID and evaluates the    *)
(* symbols it depends on first, so every operation maps a table to a       *)
(* table.  Strings and numbers are small naturals; hex, whose only         *)
(* difference is how it is written, is not told apart from int.            *)
(***************************************************************************)
EXTENDS KconfigExpr, FiniteSetsExt, SequencesExt

CONSTANTS Number,    \* the symbols of type S_INT
          Numeral,   \* the names of numbers: symbols without a type
          NumberOf   \* NumberOf[l]: the number a literal is

VARIABLES decl,      \* the declarations, after menu_finalize (never changes)
          tab        \* the symbol table

Symbols == Range(decl.order)

\* decl.order is the order of for_all_symbols, decl.menu that of the menu;
\* decl.sym[s] has
\*   prompts   the conditions of the prompts (P_PROMPT)
\*   defaults  pairs of a value and a condition (P_DEFAULT)
\*   ranges    triples of two symbols and a condition (P_RANGE)
\*   dir, rev, imp   dir_dep, rev_dep and implied; n stands for no expression in
\*             the latter two
\*   choice    the choice s is a value of, or None
\*   values    the values of the choice s is, in order; empty for others
D(s) == decl.sym[s]
None == "none"
IsChoice(s)      == D(s).values # <<>>
IsChoiceValue(s) == D(s).choice # None

Empty  == 99    \* symbol_empty: the value "" of a number without a value
Num(x) == IF x = Empty THEN 0 ELSE x      \* strtoll

\* A table before anything is calculated or read.
EmptyTable ==
  [cur   |-> [s \in Symbols |-> IF s \in Numeral THEN NumberOf[s]
                                ELSE IF s \in Number THEN Empty ELSE 0],
   pick  |-> [s \in Symbols |-> None],  \* curr.val of a choice
   vis   |-> [s \in Symbols |-> 0],
   dir   |-> [s \in Symbols |-> 0],
   rev   |-> [s \in Symbols |-> 0],
   imp   |-> [s \in Symbols |-> 0],
   valid |-> {},                        \* SYMBOL_VALID
   write |-> {},                        \* SYMBOL_WRITE
   has   |-> {},                        \* SYMBOL_DEF_USER
   need  |-> {},                        \* SYMBOL_NEED_SET_CHOICE_VALUES
   def   |-> [s \in Symbols |-> IF s \in Number THEN Empty ELSE 0],
   chosen |-> [s \in Symbols |-> None], \* def[S_DEF_USER].val of a choice
   modules |-> 0,                       \* modules_val
   changed |-> TRUE,                    \* sym_change_count # 0
   stuck |-> {}]                        \* for the properties: the numbers that were
                                        \* answered and keep the value before

GetType(t, s) ==
  IF s \in Tristate /\ ((IsChoiceValue(s) /\ t.vis[s] = 2) \/ t.modules = 0)
  THEN "bool" ELSE IF s \in Tristate THEN "tristate" ELSE IF s \in Bool THEN "bool" ELSE "int"

\* m becomes y for what is not a tristate.
Rounded(t, s, x) == IF x = 1 /\ GetType(t, s) = "bool" THEN 2 ELSE x

\* set_all_choice_values
SetAllChoiceValues(t, c) ==
  [t EXCEPT !.def = [s \in Symbols |->
                       IF s \in Range(D(c).values) /\ s \notin t.has THEN 0 ELSE @[s]],
            !.has = @ \cup {c}, !.valid = @ \ {c}, !.need = @ \ {c}]

-----------------------------------------------------------------------------
(* Evaluation.  Calc(t, s) is the table after sym_calc_value(s), CalcExpr(t, *)
(* e) after expr_calc_value(e), whose result is Eval(e, CalcExpr(t, e).cur). *)

RECURSIVE Operands(_)
\* The symbols of e in the order in which expr_calc_value comes to them.
Operands(e) ==
  CASE e.t = "null"     -> <<>>
    [] e.t = "not"      -> Operands(e.l)
    [] e.t \in Junction -> Operands(e.l) \o Operands(e.r)
    [] e.t = "sym"      -> <<e.a>>
    [] OTHER            -> <<e.a, e.b>>

RECURSIVE Calc(_, _)
CalcExpr(t, e) == FoldLeft(Calc, t, Operands(e))

\* How visible the prompt with the condition p makes s.
Shown(t, s, p) ==
  IF IsChoiceValue(s) /\ s \in Tristate /\ Eval(p, t.cur) = 1 /\ t.cur[D(s).choice] = 2
  THEN 0 ELSE Eval(p, t.cur)

Prompted(t, s) ==
  LET v == Max({Shown(t, s, p) : p \in Range(D(s).prompts)} \cup {0})
  IN  [t EXCEPT !.vis[s] = IF v = 1 /\ (s \notin Tristate \/ t.modules = 0) THEN 2 ELSE v]

Depended(t, s) ==
  [t EXCEPT !.dir[s] = Rounded(t, s, Eval(D(s).dir, t.cur)),
            !.rev[s] = Rounded(t, s, Eval(D(s).rev, t.cur)),
            !.imp[s] = Rounded(t, s, Eval(D(s).imp, t.cur))]

Dependencies(t, s) ==
  IF IsChoiceValue(s) THEN t
  ELSE Depended(FoldLeft(CalcExpr, t, <<D(s).dir, D(s).rev, D(s).imp>>), s)

\* sym_calc_visibility
CalcVisibility(t, s) ==
  Dependencies(Prompted(FoldLeft(CalcExpr, t, D(s).prompts), s), s)

Indices(seq) == [i \in DOMAIN seq |-> i]

\* The conditions of the properties in props, evaluated up to the first that holds:
\* the table and the property's index, or 0.
Tried(t, e, i) == [t |-> t, i |-> IF Eval(e, t.cur) # 0 THEN i ELSE 0]
FirstActive(t, props) ==
  FoldLeft(LAMBDA p, i : IF p.i # 0 THEN p
                         ELSE Tried(CalcExpr(p.t, Last(props[i])), Last(props[i]), i),
           [t |-> t, i |-> 0], Indices(props))

\* sym_choice_default: the first default that is active and visible, or the first
\* visible value.
TriedDefault(t, d) ==
  [t |-> t, s |-> IF Eval(d[2], t.cur) # 0 /\ t.vis[d[1].a] # 0 THEN d[1].a ELSE None]
FirstVisible(d, c) ==
  LET visible == SelectSeq(D(c).values, LAMBDA s : d.t.vis[s] # 0)
  IN  IF d.s # None \/ visible = <<>> THEN d ELSE [d EXCEPT !.s = Head(visible)]
ChoiceDefault(t, c) ==
  FirstVisible(FoldLeft(LAMBDA p, d : IF p.s # None THEN p
                                      ELSE TriedDefault(CalcExpr(p.t, d[2]), d),
                        [t |-> t, s |-> None], D(c).defaults), c)

PickDefault(d, c) ==
  IF d.s = None THEN [d.t EXCEPT !.pick[c] = None, !.cur[c] = 0]
  ELSE [d.t EXCEPT !.pick[c] = d.s]

\* A mutant: the value chosen by the user stays when it disappears.
PickGone(t, c) ==
  IF t.chosen[c] # None THEN [t EXCEPT !.pick[c] = t.chosen[c]]
  ELSE PickDefault(ChoiceDefault(t, c), c)

\* The visible value the user chose, or the default.
Pick(t, c) ==
  IF t.chosen[c] # None /\ t.vis[t.chosen[c]] # 0 THEN [t EXCEPT !.pick[c] = t.chosen[c]]
  ELSE PickDefault(ChoiceDefault(t, c), c)

\* A choice with a visible value without an answer is not answered.
Unanswered(t, c) ==
  IF \A s \in Range(D(c).values) : t.vis[s] # 0 => s \in t.has THEN t
  ELSE [t EXCEPT !.has = @ \ {c}]

\* sym_calc_choice: which value of the choice c, which is y, is chosen.
CalcChoice(t, c) == Pick(Unanswered(FoldLeft(CalcVisibility, t, D(c).values), c), c)

\* A mutant: what is implied need not meet its dependencies.
WithImpliedAlone(x, imp, dir) == IF imp = 0 THEN x ELSE EXPR_OR(x, imp)

\* The default x with what is implied, within the dependencies.
WithImplied(x, imp, dir) ==
  IF imp = 0 THEN x ELSE EXPR_AND(EXPR_OR(x, imp), dir)

\* s gets x, the value of its default, with what is implied and selected.
ByDefault(t, s, x) ==
  [t EXCEPT !.cur[s] = Rounded(t, s, EXPR_OR(WithImplied(x, t.imp[s], t.dir[s]), t.rev[s])),
            !.write = IF x # 0 \/ t.imp[s] # 0 THEN @ \cup {s} ELSE @]

\* p is the FirstActive of the defaults of s.
CalcDefault(p, s) ==
  IF p.i = 0 THEN ByDefault(p.t, s, 0)
  ELSE LET d == D(s).defaults[p.i]
           Both(t) == ByDefault(t, s, EXPR_AND(Eval(d[1], t.cur), Eval(d[2], t.cur)))
       IN  Both(CalcExpr(p.t, d[1]))

\* The value of a bool or tristate; t is the table with its visibility done.
CalcTristate(t, s) ==
  LET member == IsChoiceValue(s) /\ t.vis[s] = 2
      user == t.vis[s] # 0 /\ s \in t.has
      a == [t EXCEPT !.write = IF t.rev[s] # 0 THEN @ \cup {s} ELSE @]
  IN  CASE member ->
             [t EXCEPT !.cur[s] = IF t.pick[D(s).choice] = s THEN 2 ELSE 0]
        [] ~member /\ user ->
             [t EXCEPT !.cur[s] =
                Rounded(t, s, EXPR_OR(EXPR_AND(t.def[s], t.vis[s]), t.rev[s]))]
        [] ~member /\ ~user /\ IsChoice(s) -> [a EXCEPT !.cur[s] = Rounded(t, s, t.rev[s])]
        [] OTHER -> CalcDefault(FirstActive(a, D(s).defaults), s)

\* A mutant: the upper bound is forgotten.
ClampHighNot(t, s, r) == t

\* sym_validate_range, with r the first range whose condition holds
ClampHigh(t, s, r) ==
  IF Num(t.cur[s]) <= Num(t.cur[r[2]]) THEN t ELSE [t EXCEPT !.cur[s] = Num(t.cur[r[2]])]
ClampLow(t, s, r) ==
  IF Num(t.cur[s]) < Num(t.cur[r[1]]) THEN [t EXCEPT !.cur[s] = Num(t.cur[r[1]])]
  ELSE ClampHigh(Calc(t, r[2]), s, r)
Clamp(p, s) ==
  IF p.i = 0 THEN p.t
  ELSE ClampLow(Calc(p.t, D(s).ranges[p.i][1]), s, D(s).ranges[p.i])
ValidateRange(t, s) == Clamp(FirstActive(t, D(s).ranges), s)

Copied(t, s, d) == [t EXCEPT !.cur[s] = t.cur[d]]
\* p is the FirstActive of the defaults of s.
NumberDefault(p, s) ==
  IF p.i = 0 THEN p.t
  ELSE LET d == D(s).defaults[p.i][1].a
       IN  Copied(Calc([p.t EXCEPT !.write = @ \cup {s}], d), s, d)

CalcNumber(t, s) ==
  ValidateRange(IF t.vis[s] # 0 /\ s \in t.has THEN [t EXCEPT !.cur[s] = t.def[s]]
                ELSE NumberDefault(FirstActive(t, D(s).defaults), s), s)

\* What sym_calc_value does after the value of s is known; old is the one before.
SetModules(t, s, old) ==
  IF s = ModulesSym /\ t.cur[s] # old THEN [t EXCEPT !.modules = t.cur[s]] ELSE t
WriteValues(t, s) ==
  IF s \in t.write
  THEN [t EXCEPT !.write = @ \cup {x \in Range(D(s).values) : t.vis[x] # 0}] ELSE t
AnswerValues(t, s) == IF s \in t.need THEN SetAllChoiceValues(t, s) ELSE t
Finish(t, s, old) ==
  AnswerValues(WriteValues(SetModules(IF IsChoice(s) /\ t.cur[s] = 2
                                      THEN CalcChoice(t, s) ELSE t, s, old), s), s)

\* The value of s, whose visibility in t is known; old is the one before.
Valued(t, s, old) ==
  LET a == [t EXCEPT !.write = IF t.vis[s] # 0 THEN @ \cup {s} ELSE @,
                     !.cur[s] = IF s \in Number THEN Empty ELSE 0,
                     !.pick[s] = None]
  IN  IF s \in Number THEN CalcNumber(a, s) ELSE Finish(CalcTristate(a, s), s, old)

Calculated(t, s) ==
  IF s \in Numeral THEN [t EXCEPT !.valid = @ \cup {s}]
  ELSE Valued(CalcVisibility([t EXCEPT !.valid = @ \cup {s}, !.write = @ \ {s}], s),
              s, t.cur[s])

Calc(t, s) ==
  IF s \in t.valid \/ s \in Const THEN t
  ELSE Calculated(IF IsChoiceValue(s) /\ s \in t.need
                  THEN Calc([t EXCEPT !.need = @ \ {s}], D(s).choice) ELSE t, s)

CalcAll(t, seq) == FoldLeft(Calc, t, seq)

\* sym_clear_all_valid.  What the C code leaves in a symbol that is not valid is
\* overwritten before anything reads it, except the value of MODULES, which is
\* compared with the new one, and the visibility of a value of a choice, which
\* sym_get_type reads; the rest is forgotten here.
ClearAllValid(t) ==
  Calc([t EXCEPT !.valid = {}, !.write = {}, !.changed = TRUE,
                 !.cur = [EmptyTable.cur EXCEPT ![ModulesSym] = t.cur[ModulesSym]],
                 !.vis = [s \in Symbols |-> IF IsChoiceValue(s) THEN @[s] ELSE 0],
                 !.pick = EmptyTable.pick, !.dir = EmptyTable.dir,
                 !.rev = EmptyTable.rev, !.imp = EmptyTable.imp, !.stuck = {}],
       ModulesSym)
=============================================================================
