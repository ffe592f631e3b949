------------------------------ MODULE MenuDeps ------------------------------
(***************************************************************************)
(* How menu_finalize (kconfig/menu.c) accumulates and simplifies the       *)
(* dependency of a chain of entries: an entry collects its own             *)
(* dependencies, gets those of its parent in front of them, everything is  *)
(* simplified, and the result is the dependency its children get.          *)
(*                                                                         *)
(* Beside each tree the module keeps what the tree has to mean: a truth    *)
(* table computed from the declarations alone.                             *)
(***************************************************************************)
EXTENDS MenuTree

CONSTANTS Item,       \* what a `depends on' line may say
          MaxLeaves   \* bound: the leaves of one tree

VARIABLES base,       \* the dependency of the parent entry
          prev,       \* the condition of the entry before the present one
          dep,        \* the dependency of the present entry
          final,      \* has menu_finalize propagated base into dep?
          means       \* what base, prev and dep have to mean

vars == <<base, prev, dep, final, means>>

Table(e) == [v \in Valuation |-> Meaning(e, v)]
Always   == [v \in Valuation |-> 2]

RECURSIVE Leaves(_)
Leaves(e) == CASE e.t = "null" -> 0
               [] e.t = "not" -> Leaves(e.l)
               [] e.t \in Junction -> Leaves(e.l) + Leaves(e.r)
               [] OTHER -> 1

Init ==
  /\ base = NULL /\ prev = NULL /\ dep = NULL
  /\ final = FALSE
  /\ means = [x \in {"base", "prev", "dep"} |-> Always]

Both(t1, t2) == [v \in Valuation |-> EXPR_AND(t1[v], t2[v])]

\* menu_add_dep: another `depends on' line of the entry.
DependsOn(i) ==
  /\ ~final
  /\ Leaves(base) + Leaves(prev) + Leaves(dep) + Leaves(i) <= MaxLeaves
  /\ dep' = AllocAnd(dep, i)
  /\ means' = [means EXCEPT !["dep"] = Both(@, Table(i))]
  /\ UNCHANGED <<base, prev, final>>

\* The loop over the children in menu_finalize.
Propagate ==
  /\ ~final
  /\ dep' = Propagated(base, dep)
  /\ means' = [means EXCEPT !["dep"] = Both(means["base"], @)]
  /\ final' = TRUE
  /\ UNCHANGED <<base, prev>>

\* The entry that follows the present one, in the same menu.
Sibling ==
  /\ final
  /\ prev' = dep
  /\ dep' = NULL
  /\ means' = [means EXCEPT !["prev"] = means["dep"], !["dep"] = Always]
  /\ final' = FALSE
  /\ UNCHANGED base

\* The first entry inside the present one.
Child ==
  /\ final
  /\ base' = dep
  /\ prev' = NULL /\ dep' = NULL
  /\ means' = [base |-> means["dep"], prev |-> Always, dep |-> Always]
  /\ final' = FALSE

Next == (\E i \in Item : DependsOn(i)) \/ Propagate \/ Sibling \/ Child

Spec == Init /\ [][Next]_vars

-----------------------------------------------------------------------------
(* Properties. *)

\* Simplifying never changes a condition: under every value of the symbols each
\* tree is worth what the declarations say (rewrite_m, expr_transform,
\* expr_eliminate_dups and everything below it).
MeaningKept ==
  \A v \in Valuation :
    /\ Eval(base, v) = means["base"][v]
    /\ Eval(prev, v) = means["prev"][v]
    /\ Eval(IF final THEN dep ELSE RewriteM(dep), v) = means["dep"][v]

\* Two expressions that expr_eq calls equal have the same value under every
\* valuation, whatever order and nesting their operands have; the user sees one
\* dependency instead of two (menu.c:748) and expr_eliminate_dups drops one.
EqualsAgree ==
  ExprEq(prev, dep) => \A v \in Valuation : Eval(prev, v) = Eval(dep, v)

\* An entry that follows the symbol s, whose prompt has the condition prev, goes below
\* it only when it cannot be visible without it: where its condition is not n, neither
\* is the symbol's prompt (the superset test of menu_finalize) or the symbol itself
\* (the dependency test).  Moved wrongly it would be hidden with the symbol
\* (menu_is_visible).  No symbol may be m: below A=n goes what has the condition !A.
BinarySubmenuDepends ==
  \A s \in Bool \cup Tristate : \A v \in Valuation :
    Binary(v) /\ final /\ GoesBelow(s, prev, dep) /\ Eval(dep, v) # 0 =>
      Eval(prev, v) # 0 \/ Value(s, v) # 0
=============================================================================
