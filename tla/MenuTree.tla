------------------------------ MODULE MenuTree ------------------------------
(***************************************************************************)
(* The menu tree of Kconfig (kconfig/menu.c): how menu_finalize turns the  *)
(* entries in the order of the Kconfig files into the tree the front ends  *)
(* show and the symbols are evaluated by.                                  *)
(*                                                                         *)
(* A tree is a record m.  Its nodes are numbers in the order in which they *)
(* were parsed, 0 is rootmenu.  m.node[n] has                              *)
(*   kind    root, menu, if, comment, config or choice                     *)
(*   sym     the symbol of a config or a choice, else None                 *)
(*   dep, visibility   depends on, visible if                              *)
(*   prompt  has it one? (a symbol's is also among its properties)         *)
(*   when    the condition of the prompt of a menu or a comment            *)
(*   list, up   the children, the parent                                   *)
(* m.prop[s] are the properties of the symbol s: of which type, at which   *)
(* node, with which value and when.  m.dir, m.rev and m.imp are dir_dep,   *)
(* rev_dep and implied, m.choice[s] the choice s is a value of and         *)
(* m.values[s] the values of the choice s.                                 *)
(***************************************************************************)
EXTENDS KconfigExpr, FiniteSetsExt, SequencesExt

None == "none"

At0(kind, sym, dep, up) ==
  [kind |-> kind, sym |-> sym, dep |-> dep, visibility |-> NULL,
   prompt |-> kind \in {"root", "menu", "comment"}, when |-> NULL,
   list |-> <<>>, up |-> up]

EmptyMenu(syms) ==
  [node |-> 0 :> At0("root", None, NULL, 0),
   prop |-> [s \in syms |-> <<>>],
   dir  |-> [s \in syms |-> NULL], rev |-> [s \in syms |-> NULL],
   imp  |-> [s \in syms |-> NULL],
   choice |-> [s \in syms |-> None], values |-> [s \in syms |-> <<>>]]

IsChoiceNode(m, n) == m.node[n].kind = "choice"

\* The properties of the symbol of n that were given at n, of type k.
PropsAt(m, n, k) == SelectSeq(m.prop[m.node[n].sym], LAMBDA p : p.at = n /\ p.type = k)

\* menu->prompt->visible.expr; NULL without a prompt.
PromptCondition(m, n) ==
  IF m.node[n].sym = None THEN m.node[n].when
  ELSE IF PropsAt(m, n, "prompt") = <<>> THEN NULL
  ELSE Last(PropsAt(m, n, "prompt")).when

\* The conditions of the enclosing menus' visible if, innermost first, added to e.
RECURSIVE AddVisibility(_, _, _)
AddVisibility(m, n, e) ==
  IF n = 0 THEN e
  ELSE LET up == m.node[n].up IN AddVisibility(m, up, AllocAnd(e, m.node[up].visibility))

-----------------------------------------------------------------------------
(* What a node gets from its parent. *)

\* A mutant: only the property's own condition.
PropConditionOwn(m, n, base, when) == Propagated(NULL, when)

\* rewrite_m, expr_transform, the parent's condition in front, simplification, and
\* for what is not a tristate expr_trans_bool.
PropCondition(m, n, base, when) ==
  LET Typed(e) == IF m.node[n].sym \in Tristate \cup {None} THEN e ELSE TransBool(e)
  IN  Typed(Propagated(base, when))

\* A mutant: the condition of the select is forgotten.
AddAlways(reverse, props, s) ==
  FoldLeft(LAMBDA r, p : [r EXCEPT ![p.value] = AllocOr(@, Sym(s))], reverse, props)

\* Selects and implies that were given at n, added to the symbols they name.
Add(reverse, props, s) ==
  FoldLeft(LAMBDA r, p : [r EXCEPT ![p.value] = AllocOr(@, AllocAnd(Sym(s), p.when))],
           reverse, props)

\* The properties given at n under the condition base.
InheritProps(m, n, base) ==
  [m EXCEPT !.prop[m.node[n].sym] = [i \in DOMAIN @ |->
     IF @[i].at = n THEN [@[i] EXCEPT !.when = PropCondition(m, n, base, @)] ELSE @[i]]]
AddReverse(m, n) ==
  [m EXCEPT !.rev = Add(@, PropsAt(m, n, "select"), m.node[n].sym),
            !.imp = Add(@, PropsAt(m, n, "imply"), m.node[n].sym)]

\* A mutant: the parent's condition goes to the properties alone.
InheritBasePropsAlone(m, n, base) ==
  IF m.node[n].sym = None THEN m ELSE AddReverse(InheritProps(m, n, base), n)

InheritBase(m, n, base) ==
  LET a == [m EXCEPT !.node[n].dep = base]
  IN  IF m.node[n].sym = None THEN [a EXCEPT !.node[n].when = Propagated(base, @)]
      ELSE AddReverse(InheritProps(a, n, base), n)

\* The loop over the children of a menu, for the child n.
Inherit(m, n, parentdep) == InheritBase(m, n, Propagated(parentdep, m.node[n].dep))

\* expr_trans_compare with != n, and the two simplifications.
NotN(e) == EliminateDups(Transform(TransCompare(e, "!=", "n")))

\* Everything in the conditions of p is among those of d.
Superset(p, d) == IsYes(EliminateEq(NotN(d), NotN(p))[2])

\* A mutant: it is enough to name the symbol.
GoesBelowNamed(s, p, d) == ContainsSymbol(d, s)

\* An entry with condition d goes below the symbol s before it, whose prompt has
\* condition p.
GoesBelow(s, p, d) ==
  ContainsSymbol(d, s) /\ (DependsSymbol(d, s) \/ Superset(p, d))

\* Where n stands among the children of its parent.
Position(m, n) == CHOOSE i \in DOMAIN m.node[m.node[n].up].list :
                    m.node[m.node[n].up].list[i] = n
Siblings(m, n) == LET l == m.node[m.node[n].up].list IN SubSeq(l, Position(m, n) + 1, Len(l))

\* The first k entries after n become its children.
Submenu(m, n, k) ==
  LET i == Position(m, n)
      taken == SubSeq(Siblings(m, n), 1, k)
      l == m.node[m.node[n].up].list
      a == [m EXCEPT !.node[n].list = taken,
                     !.node[m.node[n].up].list = SubSeq(l, 1, i) \o SubSeq(l, i + k + 1, Len(l))]
  IN  [a EXCEPT !.node = [x \in DOMAIN @ |->
                            IF x \in Range(taken) THEN [@[x] EXCEPT !.up = n] ELSE @[x]]]

\* A mutant: the symbol is told its choice, the choice does not list it.
AddValueUnlisted(m, c, n) ==
  IF m.node[n].sym = None THEN m ELSE [m EXCEPT !.choice[m.node[n].sym] = m.node[c].sym]

\* A symbol at n becomes a value of the choice at c.  Under a tristate choice a bool
\* value depends on the choice being y.
AddValue(m, c, n) ==
  LET s == m.node[n].sym
      choice == m.node[c].sym
      y == Eq(choice, "y")
      a == [m EXCEPT !.choice[s] = choice, !.values[choice] = Append(@, s)]
      b == [a EXCEPT !.node[n].dep = AllocAnd(y, @),
                     !.prop[s] = [i \in DOMAIN @ |->
                        IF @[i].at = n THEN [@[i] EXCEPT !.when = AllocAnd(y, @)] ELSE @[i]]]
  IN  IF s = None \/ m.choice[s] # None THEN m
      ELSE IF choice \in Tristate /\ s \notin Tristate THEN b ELSE a

\* A mutant: what followed the flattened child is cut off.
FlattenCut(m, n, i) ==
  LET l == m.node[n].list
      kids == m.node[l[i]].list
  IN  IF kids = <<>> \/ m.node[l[i]].prompt THEN m
      ELSE [m EXCEPT !.node = [y \in DOMAIN @ |->
              IF y = n THEN [@[y] EXCEPT !.list = SubSeq(l, 1, i) \o kids]
              ELSE IF y = l[i] THEN [@[y] EXCEPT !.list = <<>>]
              ELSE IF y \in Range(kids) THEN [@[y] EXCEPT !.up = n] ELSE @[y]]]

\* The children of the i-th child of n, which has no prompt, follow it.
Flatten(m, n, i) ==
  LET l == m.node[n].list
      x == l[i]
      kids == m.node[x].list
      a == [m EXCEPT !.node[n].list = SubSeq(l, 1, i) \o kids \o SubSeq(l, i + 1, Len(l)),
                     !.node[x].list = <<>>]
  IN  IF kids = <<>> \/ m.node[x].prompt THEN m
      ELSE [a EXCEPT !.node = [y \in DOMAIN @ |->
                                 IF y \in Range(kids) THEN [@[y] EXCEPT !.up = n] ELSE @[y]]]

\* The loop over the children at the end of menu_finalize, from the i-th on.
RECURSIVE Arrange(_, _, _)
Arrange(m, n, i) ==
  IF i > Len(m.node[n].list) THEN m
  ELSE LET a == IF IsChoiceNode(m, n) THEN AddValue(m, n, m.node[n].list[i]) ELSE m
       IN  Arrange(Flatten(a, n, i), n, i + 1)

RECURSIVE Finalize(_, _)
RECURSIVE FinalizeList(_, _, _)
RECURSIVE Absorb(_, _, _)
FinalizeList(m, n, i) ==
  IF i > Len(m.node[n].list) THEN m
  ELSE FinalizeList(Finalize(m, m.node[n].list[i]), n, i + 1)

\* The automatic submenu of the symbol at n, when k entries are in it already.
Absorb(m, n, k) ==
  LET next == Siblings(m, n)
      x == next[k + 1]
      d == IF m.node[x].prompt THEN PromptCondition(m, x) ELSE m.node[x].dep
  IN  IF Len(next) > k /\ GoesBelow(m.node[n].sym, PromptCondition(m, n), d)
      THEN Absorb(Finalize(m, x), n, k + 1)
      ELSE IF k = 0 THEN m ELSE Submenu(m, n, k)

\* The children of n: those that are listed or those n's symbol finds after it.
Children(m, n) ==
  LET s == m.node[n].sym
      parentdep == IF IsChoiceNode(m, n) THEN Sym(s) ELSE m.node[n].dep
      DirDep(t) == [t EXCEPT !.dir[s] = AllocOr(@, t.node[n].dep)]
  IN  IF m.node[n].list # <<>>
      THEN FinalizeList(FoldLeft(LAMBDA t, x : Inherit(t, x, parentdep), m, m.node[n].list), n, 1)
      ELSE IF s # None THEN DirDep(Absorb(m, n, 0)) ELSE m

\* A choice with a prompt is at least m when it is visible.
ChoiceAtLeastM(m, n) ==
  IF IsChoiceNode(m, n) /\ m.node[n].prompt
  THEN [m EXCEPT !.rev[m.node[n].sym] = AllocOr(@, AllocAnd(PromptCondition(m, n), Sym("m")))]
  ELSE m

\* menu_finalize
Finalize(m, n) == ChoiceAtLeastM(Arrange(Children(m, n), n, 1), n)
=============================================================================
