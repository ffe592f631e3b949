----------------------------- MODULE KconfigMenu -----------------------------
(***************************************************************************)
(* Parsing a Kconfig file into a menu tree (kconfig/parser.y, menu.c): the *)
(* parser adds entries and options one after the other, and conf_parse     *)
(* finally calls menu_finalize on the root.                                *)
(*                                                                         *)
(* Every Kconfig with the symbols, conditions and sizes of the constants   *)
(* is parsed.  What the tree has to mean is read off the entries as they   *)
(* were declared, which raw keeps.                                         *)
(***************************************************************************)
EXTENDS MenuTree

CONSTANTS Configs,      \* the symbols that may be declared by config
          ChoiceSyms,   \* those that are choices
          Conditions,   \* what depends on, visible if, if and a prompt's if may say
          Selected,     \* what the if of select and imply may say
          MaxEntries,   \* bound: entries
          MaxOptions    \* bound: conditions and options of all entries

VARIABLES m,            \* the tree
          entry, menu,  \* current_entry, current_menu
          options,      \* how many options were given
          parsed,       \* has menu_finalize run?
          raw           \* the tree before menu_finalize

vars == <<m, entry, menu, options, parsed, raw>>

Init ==
  /\ m = EmptyMenu(Configs \cup ChoiceSyms)
  /\ entry = 0 /\ menu = 0 /\ options = 0 /\ parsed = FALSE /\ raw = m

Parsing == ~parsed
Entries == DOMAIN m.node \ {0}

\* menu_add_entry
NewEntry == Cardinality(DOMAIN m.node)
AddEntry(kind, sym, dep) ==
  [m EXCEPT !.node = @ @@ (NewEntry :> At0(kind, sym, dep, menu)),
            !.node[menu].list = Append(@, NewEntry)]

\* menu_add_prop
Prop(type, at, value, when) == [type |-> type, at |-> at, value |-> value, when |-> when]

\* menu_add_prompt, at the entry n of t.
AddPrompt(t, n, c) ==
  [t EXCEPT !.node[n].prompt = TRUE,
            !.prop[t.node[n].sym] =
               Append(@, Prop("prompt", n, None, AddVisibility(t, n, c)))]

\* An entry of a kind is begun; t is the tree with it.
Begin(t) ==
  /\ Parsing
  /\ NewEntry <= MaxEntries
  /\ m' = t
  /\ entry' = NewEntry
  /\ UNCHANGED <<parsed, raw>>

\* The choice n stands in, directly or below an if; or 0.
RECURSIVE ChoiceOf(_, _)
ChoiceOf(t, n) == IF n = 0 \/ IsChoiceNode(t, n) THEN n ELSE ChoiceOf(t, t.node[n].up)

\* config.  A value of a choice is declared nowhere else.
Config(s) ==
  /\ \A n \in Entries : m.node[n].sym = s => ChoiceOf(m, n) = 0 /\ ChoiceOf(m, menu) = 0
  /\ Begin(AddEntry("config", s, NULL))
  /\ UNCHANGED <<menu, options>>

\* menu and if open a block; only if may stand in a choice.
Menu ==
  /\ ~IsChoiceNode(m, ChoiceOf(m, menu))
  /\ Begin(AddEntry("menu", None, NULL))
  /\ menu' = entry'
  /\ UNCHANGED options

If(c) ==
  /\ options < MaxOptions
  /\ Begin(AddEntry("if", None, c))
  /\ menu' = entry'
  /\ options' = options + 1

\* choice, with its prompt ("choice must have a prompt").
Choice(s) ==
  /\ ~IsChoiceNode(m, ChoiceOf(m, menu))
  /\ \A n \in Entries : m.node[n].sym # s
  /\ Begin(AddPrompt(AddEntry("choice", s, NULL), NewEntry, NULL))
  /\ menu' = entry'
  /\ UNCHANGED options

\* menu_end_menu: endchoice, endmenu, endif.  No options follow.
EndMenu ==
  /\ Parsing
  /\ menu # 0
  /\ menu' = m.node[menu].up
  /\ entry' = 0
  /\ UNCHANGED <<m, options, parsed, raw>>

\* An option of the current entry that is not an if.
Option(new) ==
  /\ Parsing
  /\ options < MaxOptions
  /\ entry # 0 /\ m.node[entry].kind # "if"
  /\ m' = new
  /\ options' = options + 1
  /\ UNCHANGED <<entry, menu, parsed, raw>>

\* menu_add_dep
DependsOn(c) == Option([m EXCEPT !.node[entry].dep = AllocAnd(@, c)])

\* menu_add_visibility
VisibleIf(c) ==
  /\ m.node[entry].kind = "menu"
  /\ m.node[entry].list = <<>>
  /\ Option([m EXCEPT !.node[entry].visibility = AllocAnd(@, c)])

\* prompt, which counts as an option when it has a condition.
Prompt(c) ==
  /\ Parsing
  /\ entry # 0 /\ m.node[entry].kind = "config" /\ ~m.node[entry].prompt
  /\ c # NULL => options < MaxOptions
  /\ m' = AddPrompt(m, entry, c)
  /\ options' = IF c = NULL THEN options ELSE options + 1
  /\ UNCHANGED <<entry, menu, parsed, raw>>

\* menu_add_symbol for select and imply, of another symbol.
SelectOrImply(type, s, c) ==
  /\ entry # 0 /\ m.node[entry].kind = "config" /\ m.node[entry].sym # s
  /\ Option([m EXCEPT !.prop[m.node[entry].sym] = Append(@, Prop(type, entry, s, c))])

\* conf_parse
Finish ==
  /\ Parsing
  /\ menu = 0
  /\ raw' = m
  /\ parsed' = TRUE
  /\ m' = Finalize(m, 0)
  /\ UNCHANGED <<entry, menu, options>>

Next ==
  \/ \E s \in Configs : Config(s)
  \/ \E s \in ChoiceSyms : Choice(s)
  \/ Menu \/ EndMenu \/ Finish
  \/ \E c \in Conditions : If(c) \/ DependsOn(c) \/ VisibleIf(c)
  \/ \E c \in Conditions \cup {NULL} : Prompt(c)
  \/ \E type \in {"select", "imply"}, s \in Configs, c \in Selected \cup {NULL} :
       SelectOrImply(type, s, c)

Spec == Init /\ [][Next]_vars

-----------------------------------------------------------------------------
(* What the declarations mean. *)

\* The dependencies of n and of what encloses it; in a choice, its value.
RECURSIVE Enclosing(_, _)
Enclosing(n, v) ==
  LET up == raw.node[n].up
      own == Meaning(raw.node[n].dep, v)
  IN  IF n = 0 THEN 2
      ELSE IF IsChoiceNode(raw, up) THEN EXPR_AND(own, Value(raw.node[up].sym, v))
      ELSE EXPR_AND(own, Enclosing(up, v))

\* Whether what n declares counts: a bool value of a tristate choice only under y.
InChoice(n, v) ==
  LET s == raw.node[n].sym
      c == m.choice[s]
  IN  IF c \in Tristate /\ s \in Bool /\ Value(c, v) # 2 THEN 0 ELSE 2

\* The condition of the property p.
Declared(n, p, v) ==
  EXPR_AND(InChoice(n, v), EXPR_AND(Meaning(p.when, v), Enclosing(n, v)))

\* Of a symbol that is not a tristate m and y are the same.
Same(s, x, y) == IF s \in Tristate THEN x = y ELSE (x = 0) = (y = 0)

Raised(set) == FoldSet(EXPR_OR, 0, set)

\* The nodes from n on in the order of the menus.
RECURSIVE Preorder(_, _)
Preorder(t, n) ==
  FoldLeft(LAMBDA seq, x : seq \o Preorder(t, x), <<n>>, t.node[n].list)

-----------------------------------------------------------------------------
(* Properties. *)

\* Whatever is moved into submenus and out of if blocks, every entry stays in the
\* tree once, after the entries it was declared after and in its parent's list:
\* .config has the order of the Kconfig files (conf_write walks the tree).
OrderKept ==
  parsed => /\ Preorder(m, 0) = [i \in 1 .. Cardinality(DOMAIN m.node) |-> i - 1]
          /\ \A n \in Entries : n \in Range(m.node[m.node[n].up].list)

\* Every prompt, select and imply holds under the values its declaration says:
\* its own condition, the dependencies of its entry and of everything around it,
\* whatever was rewritten, simplified and moved.
ConditionsKept ==
  parsed => \A s \in Configs \cup ChoiceSyms : \A i \in DOMAIN m.prop[s] : \A v \in Valuation :
            LET p == raw.prop[s][i] IN
            Same(s, Eval(m.prop[s][i].when, v), Declared(p.at, p, v))

\* What raises a symbol (rev_dep of select, implied of imply) holds when one of its
\* selectors is set and the select's own condition and dependencies hold, whatever was
\* simplified and moved; and it is the highest of these selectors when no value is m.
SelectsKept ==
  parsed => \A es \in Configs : \A type \in {"select", "imply"} :
    LET selects == UNION {{s} \X {p \in Range(raw.prop[s]) : p.type = type /\ p.value = es} :
                             s \in Configs}
        Lift(s, p, v) ==
          EXPR_AND(Value(s, v), EXPR_AND(Meaning(p.when, v), Enclosing(p.at, v)))
        e == IF type = "select" THEN m.rev[es] ELSE m.imp[es]
    IN  \A v \in Valuation :
          LET raised == Raised({Lift(x[1], x[2], v) : x \in selects})
              got == IF e = NULL THEN 0 ELSE Eval(e, v)
          IN  IF Binary(v) THEN got = raised ELSE (got = 0) = (raised = 0)

\* The direct dependency of a symbol is that of any of its definitions, when each of
\* them has one.
DirectKept ==
  parsed => \A s \in Configs :
    LET at == {n \in Entries : raw.node[n].sym = s}
        all == at # {} /\ \/ Cardinality(at) = 1
                          \/ \A n \in at : raw.node[n].dep # NULL
    IN  all => \A v \in Valuation :
                 Same(s, Eval(m.dir[s], v), Raised({Enclosing(n, v) : n \in at}))

\* An entry is moved below a symbol only if it cannot be visible without it.
Moved(n) == LET p == m.node[n].up IN p # raw.node[n].up /\ m.node[p].kind = "config"
SubmenuDepends ==
  parsed => \A n \in {x \in Entries : Moved(x)} : \A v \in {w \in Valuation : Binary(w)} :
    LET p == m.node[n].up
        Cond(x) == IF m.node[x].prompt THEN PromptCondition(m, x) ELSE m.node[x].dep
    IN  Eval(Cond(n), v) # 0 => Eval(PromptCondition(m, p), v) # 0 \/ Value(m.node[p].sym, v) # 0

\* The values of a choice are the symbols declared in it, in order, except those that
\* depend on an earlier one and became its submenu; no others have it as their choice.
ValuesKept ==
  parsed => \A n \in Entries : IsChoiceNode(m, n) =>
    LET c == m.node[n].sym
        In(x) == m.node[x].kind = "config" /\ m.node[x].up = n /\ ChoiceOf(raw, x) = n
        values == SetToSortSeq({x \in Entries : In(x)}, <)
    IN  /\ m.values[c] = [i \in DOMAIN values |-> m.node[values[i]].sym]
        /\ \A s \in Configs : m.choice[s] = c <=> s \in Range(m.values[c])
=============================================================================
