---------------------------- MODULE KconfigCycles ----------------------------
(***************************************************************************)
(* The search for recursive dependencies over the declarations of a        *)
(* Kconfig file, and the evaluation it is there for: sym_calc_value        *)
(* returns whatever an unfinished symbol holds, so that only without       *)
(* cycles the values do not depend on the symbol that is evaluated first.  *)
(***************************************************************************)
EXTENDS SymbolTable, DepSearch

CONSTANT Kconfigs      \* the sets of declarations considered

vars == <<decl, tab, searchVars>>

\* A mutant: what selects the symbol is not followed.
FollowedUnselected(s) ==
  <<D(s).dir, D(s).imp>> \o D(s).prompts \o [i \in DOMAIN D(s).defaults |-> D(s).defaults[i][2]]

\* The expressions sym_check_sym_deps looks at.  Which of several cycles is found
\* first is not told apart, so neither is the order of the properties.
FollowedByDefault(s, p) == IF IsChoice(s) THEN <<p[2]>> ELSE <<p[2], p[1]>>
Followed(s) ==
  <<D(s).dir, D(s).rev, D(s).imp>> \o D(s).prompts
    \o FlattenSeq([i \in DOMAIN D(s).defaults |-> FollowedByDefault(s, D(s).defaults[i])])
    \o [i \in DOMAIN D(s).ranges |-> Last(D(s).ranges[i])]

\* The symbols they name, but for constants, which name nothing.
FollowedSymbols(s) ==
  LET named == FlattenSeq([i \in DOMAIN Followed(s) |-> Operands(Followed(s)[i])])
  IN  SelectSeq(named, LAMBDA x : x \notin Const)

\* decl.has are the symbols the user has answered, with y or m.
Init ==
  /\ decl \in Kconfigs
  /\ tab = [EmptyTable EXCEPT !.has = decl.has,
                              !.def = [s \in Symbols |-> IF s \in Number THEN Empty ELSE 2]]
  /\ graph = [order  |-> decl.order,
              refs   |-> [s \in Symbols |-> FollowedSymbols(s)],
              choice |-> [s \in Symbols |-> D(s).choice],
              values |-> [s \in Symbols |-> D(s).values]]
  /\ WellFormed
  /\ SearchStart

\* conf_parse has come to its end, and does not exit.
Parsed == Searched /\ ~yynerrs

\* sym_calc_value of any symbol.
Evaluate(s) ==
  /\ Parsed
  /\ s \notin tab.valid
  /\ tab' = Calc(tab, s)
  /\ UNCHANGED <<decl, searchVars>>

Next ==
  \/ SearchNext /\ UNCHANGED <<decl, tab>>
  \/ \E s \in Symbols : Evaluate(s)

Spec == Init /\ [][Next]_vars

-----------------------------------------------------------------------------
(* What the evaluation of a symbol depends on, from the declarations.        *)

RECURSIVE Named(_)
Named(e) == CASE e.t = "null"     -> {}
              [] e.t = "not"      -> Named(e.l)
              [] e.t \in Junction -> Named(e.l) \cup Named(e.r)
              [] e.t = "sym"      -> {e.a}
              [] OTHER            -> {e.a, e.b}

\* What the evaluation of s names, but for the bounds of its ranges.
Names(s) ==
  LET values == IF IsChoice(s) THEN {} ELSE {p[1] : p \in Range(D(s).defaults)}
      all == {D(s).dir, D(s).rev, D(s).imp} \cup Range(D(s).prompts) \cup values
               \cup {Last(p) : p \in Range(D(s).defaults) \cup Range(D(s).ranges)}
  IN  UNION {Named(e) : e \in all} \ (Const \cup {D(s).choice})
Bounds(s) == UNION {{r[1], r[2]} : r \in Range(D(s).ranges)}
NoBounds(s) == {}

\* Some symbols are all evaluated from others of them; a choice and its values count
\* as one.
Circular(More(_)) ==
  \E set \in SUBSET {Group(s) : s \in Symbols} :
    /\ set # {}
    /\ \A g \in set : \E s \in Symbols :
         Group(s) = g /\ \E t \in Names(s) \cup More(s) : Group(t) \in set

(* Properties. *)

\* conf_parse accepts exactly the declarations whose evaluation is not circular, but
\* for cycles through the bounds of ranges, which it does not look for.  Without those
\* every symbol has one value, whichever is evaluated first.
OrderFree ==
  /\ Searched => (yynerrs <=> Circular(NoBounds))
  /\ (Parsed /\ ~Circular(Bounds)) =>
       \A s \in tab.valid : tab.cur[s] = CalcAll([tab EXCEPT !.valid = {}], decl.order).cur[s]
=============================================================================
