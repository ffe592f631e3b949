----------------------------- MODULE DepSearch -----------------------------
(***************************************************************************)
(* The search for recursive dependencies (kconfig/symbol.c,                *)
(* sym_check_deps), which conf_parse starts at every symbol: one step for  *)
(* each call and each return, with the C stack and dep_stack side by side. *)
(***************************************************************************)
EXTENDS Integers, Sequences, Functions

Nobody == "none"

VARIABLES graph,       \* what the search reads of the symbols (never changes)
          check,       \* the symbols with SYMBOL_CHECK
          checked,     \* the symbols with SYMBOL_CHECKED
          stack,       \* the entries of dep_stack from the bottom to check_top
          calls,       \* the calls that have not returned, the latest last
          sym2,        \* what the last call returned: where a cycle was found, or Nobody
          next,        \* how many symbols for_all_symbols has passed
          yynerrs,     \* was a recursive dependency reported?
          unexpected   \* "unexpected recursive dependency error"

marks == <<check, checked>>
searchVars == <<graph, marks, stack, calls, sym2, next, yynerrs, unexpected>>

\* graph.order is the order of for_all_symbols; of each symbol it has
\*   refs      the symbols its expressions name, in the order sym_check_sym_deps
\*             comes to them
\*   choice    the choice it is a value of, or Nobody
\*   values    the values of the choice it is, in order; empty for others
Nodes == Range(graph.order)
Refs(s)     == graph.refs[s]
ChoiceOf(s) == graph.choice[s]
ValuesOf(s) == graph.values[s]
IsValue(s)  == ChoiceOf(s) # Nobody      \* sym_is_choice_value
HasValues(s) == ValuesOf(s) # <<>>       \* sym_is_choice

\* A choice and its values are searched as one.
Group(s) == IF IsValue(s) THEN ChoiceOf(s) ELSE s

\* A choice and its values belong together as the parser and menu_finalize leave them.
\* No Kconfig file can name a choice: menu_finalize adds its symbol to what is declared
\* inside it, that is to its values and to what depends on one of them.  No symbol is
\* declared in two choices.
ChoicesLinked ==
  \A s, c \in Nodes :
    /\ c = ChoiceOf(s) <=> s \in Range(ValuesOf(c))
    /\ IsValue(s) => ~HasValues(s)
    /\ c \in Range(Refs(s)) /\ HasValues(c) /\ c # s /\ c # ChoiceOf(s)
         => Range(Refs(s)) \cap Range(ValuesOf(c)) # {}

WellFormed ==
  /\ graph.order \in Seq(Nodes)
  /\ Nobody \notin Nodes
  /\ graph.refs \in [Nodes -> Seq(Nodes)]
  /\ graph.choice \in [Nodes -> Nodes \cup {Nobody}]
  /\ graph.values \in [Nodes -> Seq(Nodes)]
  /\ ChoicesLinked

SearchStart ==
  /\ check = {} /\ checked = {} /\ stack = <<>> /\ calls = <<>> /\ sym2 = Nobody
  /\ next = 0 /\ yynerrs = FALSE /\ unexpected = FALSE

-----------------------------------------------------------------------------
\* A call of proc for s; at is the next of the things it goes through.
Frame(proc, s) == [proc |-> proc, s |-> s, at |-> 1]

Top       == calls[Len(calls)]
Below     == SubSeq(calls, 1, Len(calls) - 1)
Advanced  == [calls EXCEPT ![Len(calls)].at = @ + 1]
In(proc)  == calls # <<>> /\ Top.proc = proc

\* dep_stack_remove, and the return from a call.
Return == calls' = Below /\ stack' = SubSeq(stack, 1, Len(stack) - 1)

\* dep_stack_insert, and what is called from there.
Call(proc, s, rest) ==
  /\ calls' = Append(rest, Frame(proc, s))
  /\ stack' = Append(stack, s)

\* sym_check_print_recursive: the cycle is printed from where its last symbol, or the
\* choice of that, stands in the stack.  If it stands nowhere, the value's own entry is
\* not removed again.
PrintRecursive(s) ==
  IF Group(s) \in Range(stack) THEN UNCHANGED <<stack, unexpected>>
  ELSE unexpected' = TRUE /\ stack' = IF IsValue(s) THEN Append(stack, s) ELSE stack

Mark(set) == check' = check \cup set /\ checked' = checked \cup set

\* A mutant: the values of a choice are not marked while it is searched.
CheckChoiceUnmarked(c, rest) ==
  /\ check' = check \cup {c}
  /\ checked' = checked \cup Range(ValuesOf(c)) \cup {c}
  /\ calls' = rest \o <<Frame("choice", c), Frame("sym", c)>>
  /\ stack' = stack \o <<c, c>>

\* The beginning of sym_check_choice_deps.
CheckChoice(c, rest) ==
  /\ Mark(Range(ValuesOf(c)) \cup {c})
  /\ calls' = rest \o <<Frame("choice", c), Frame("sym", c)>>
  /\ stack' = stack \o <<c, c>>

\* sym_check_deps of t; rest are the calls it returns to.
CheckDeps(t, rest) ==
  \/ /\ t \in check
     /\ PrintRecursive(t)
     /\ sym2' = t
     /\ calls' = rest
     /\ UNCHANGED marks
  \/ /\ t \in checked \ check
     /\ calls' = rest
     /\ UNCHANGED <<marks, stack, sym2, unexpected>>
  \/ /\ t \notin check \cup checked
     /\ \/ IsValue(t) /\ Call("value", t, rest) /\ UNCHANGED marks
        \/ ~IsValue(t) /\ HasValues(t) /\ CheckChoice(t, rest)
        \/ ~IsValue(t) /\ ~HasValues(t) /\ Mark({t}) /\ Call("sym", t, rest)
     /\ UNCHANGED <<sym2, unexpected>>

\* sym_check_sym_deps and sym_check_expr_deps: the next symbol an expression names.
CheckRef ==
  /\ In("sym")
  /\ sym2 = Nobody
  /\ Top.at <= Len(Refs(Top.s))
  /\ CheckDeps(Refs(Top.s)[Top.at], Advanced)
  /\ UNCHANGED <<graph, next, yynerrs>>

\* The end of sym_check_sym_deps.  Whoever called it takes SYMBOL_CHECK off at once,
\* except from the values of a choice.
LeaveSym ==
  /\ In("sym")
  /\ sym2 # Nobody \/ Top.at > Len(Refs(Top.s))
  /\ Return
  /\ check' = IF IsValue(Top.s) THEN check ELSE check \ {Top.s}
  /\ UNCHANGED <<graph, checked, sym2, next, yynerrs, unexpected>>

\* The loop of sym_check_choice_deps over the values.
CheckValue ==
  /\ In("choice")
  /\ sym2 = Nobody
  /\ Top.at <= Len(ValuesOf(Top.s))
  /\ Call("sym", ValuesOf(Top.s)[Top.at], Advanced)
  /\ UNCHANGED <<graph, marks, sym2, next, yynerrs, unexpected>>

\* A mutant: after a cycle the values keep their marks.
LeaveChoiceMarked ==
  LET values == Range(ValuesOf(Top.s)) IN
  /\ In("choice")
  /\ sym2 # Nobody \/ Top.at > Len(ValuesOf(Top.s))
  /\ Return
  /\ check' = IF sym2 = Nobody THEN check \ values ELSE check
  /\ sym2' = IF sym2 \in values THEN Top.s ELSE sym2
  /\ UNCHANGED <<graph, checked, next, yynerrs, unexpected>>

\* The end of sym_check_choice_deps.
LeaveChoice ==
  LET values == Range(ValuesOf(Top.s)) IN
  /\ In("choice")
  /\ sym2 # Nobody \/ Top.at > Len(ValuesOf(Top.s))
  /\ Return
  /\ check' = check \ values
  /\ sym2' = IF sym2 \in values THEN Top.s ELSE sym2
  /\ UNCHANGED <<graph, checked, next, yynerrs, unexpected>>

\* sym_check_deps of a value of a choice: the search starts with the choice.
StartAtChoice ==
  /\ In("value")
  /\ Top.at = 1
  /\ CheckDeps(ChoiceOf(Top.s), Advanced)
  /\ UNCHANGED <<graph, next, yynerrs>>

LeaveValue ==
  /\ In("value")
  /\ Top.at = 2
  /\ Return
  /\ UNCHANGED <<graph, marks, sym2, next, yynerrs, unexpected>>

\* The loop of conf_parse over all symbols.
CheckNext ==
  /\ calls = <<>> /\ sym2 = Nobody
  /\ next < Len(graph.order)
  /\ CheckDeps(graph.order[next + 1], <<>>)
  /\ next' = next + 1
  /\ UNCHANGED <<graph, yynerrs>>

CountError ==
  /\ calls = <<>> /\ sym2 # Nobody
  /\ yynerrs' = TRUE
  /\ sym2' = Nobody
  /\ UNCHANGED <<graph, marks, stack, calls, next, unexpected>>

SearchNext ==
  \/ CheckRef \/ LeaveSym \/ CheckValue \/ LeaveChoice
  \/ StartAtChoice \/ LeaveValue \/ CheckNext \/ CountError

SearchSpec == WellFormed /\ SearchStart /\ [][SearchNext]_searchVars

-----------------------------------------------------------------------------
(* The dependency graph, with a choice and its values as one node.           *)

\* A value names its own choice without being a cycle.
Edge(g, h) ==
  \E s \in Nodes : Group(s) = g /\ \E t \in Range(Refs(s)) \ {ChoiceOf(s)} : Group(t) = h

\* A set whose members all depend on members: in a finite graph, a cycle.
Recursive(set) == set # {} /\ \A g \in set : \E h \in set : Edge(g, h)
Cyclic == \E set \in SUBSET Nodes : Recursive(set)

(* Properties. *)

\* All symbols have been searched.
Searched == next = Len(graph.order) /\ calls = <<>> /\ sym2 = Nobody

\* conf_parse reports a recursive dependency when there is one, and only then, whatever
\* the order of the symbols and through choices: the marks of one search that stay for
\* the next neither hide nor make up a cycle.
CyclesFound == Searched => (yynerrs <=> Cyclic)

\* A search leaves nothing behind but SYMBOL_CHECKED (symbol.c: "Note insert() remove()
\* must always match to properly clear the stack"), and finds every cycle it has to print
\* in the stack, also one that was met at a value of a choice.
SearchClean == (calls = <<>> => check = {} /\ stack = <<>>) /\ ~unexpected
=============================================================================
