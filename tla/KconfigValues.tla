---------------------------- MODULE KconfigValues ----------------------------
(***************************************************************************)
(* What a configuration program does with the symbol table                 *)
(* (kconfig/symbol.c, confdata.c; the callers are conf.c and the menu      *)
(* front ends): it reads .config, evaluates symbols in whatever order it   *)
(* shows them, lets the user set them, and writes .config.                 *)
(***************************************************************************)
EXTENDS SymbolTable

CONSTANTS Kconfigs,    \* the sets of declarations considered
          Answers,     \* the numbers a user or a .config may give
          Absent       \* no line for a symbol in .config

VARIABLES file,        \* .config: what it says of each symbol
          phase        \* what the program has done: parsed, seeded, read, done

vars == <<decl, tab, file, phase>>

\* The symbols that may have lines in .config.
Saved == {s \in Symbols : ~IsChoice(s) /\ s \notin Numeral}
\* decl.files is the set of .config files there may be at the beginning.
Init ==
  /\ decl \in Kconfigs
  /\ tab = EmptyTable
  /\ file \in decl.files
  /\ phase = "parsed"

-----------------------------------------------------------------------------
(* conf_read_simple and conf_read *)

\* A mutant: a choice does not learn which value is chosen.
ReadLineAlone(f, t, s) ==
  IF s \notin Saved \/ f[s] = Absent THEN t
  ELSE [t EXCEPT !.def[s] = f[s], !.has = @ \cup {s}]

\* One line of .config.
ReadLine(f, t, s) ==
  LET x == f[s]
      c == D(s).choice
      a == [t EXCEPT !.def[s] = x, !.has = @ \cup {s}]
      odd == (x = 1 /\ t.def[c] = 2) \/ (x = 2 /\ t.def[c] # 0)
      b == [a EXCEPT !.changed = @ \/ odd,
                     !.has = IF x = 1 /\ t.def[c] = 2 THEN @ \ {c} ELSE @,
                     !.chosen[c] = IF x = 2 THEN s ELSE @,
                     !.def[c] = EXPR_OR(@, x)]
  IN  IF s \notin Saved \/ x = Absent THEN t
      ELSE IF IsChoiceValue(s) THEN b ELSE a

\* conf_read_simple; .changed tells whether there was a warning.
ReadSimple(f, t) ==
  FoldLeft(LAMBDA u, s : ReadLine(f, u, s),
           [t EXCEPT !.valid = {}, !.stuck = {}, !.has = {s \in Symbols : IsChoice(s)},
                     !.def = [s \in Symbols |-> IF s \in Number THEN Empty ELSE 0],
                     !.chosen = [s \in Symbols |-> None],
                     !.changed = FALSE],
           decl.menu)

\* sym_get_string_value of a bool or tristate: m is n without modules.
TextValue(t, s) ==
  IF s \notin Number /\ t.cur[s] = 1 /\ t.modules = 0 THEN 0 ELSE t.cur[s]

\* A mutant: a symbol that is new is not missing from .config.
CheckSaved(t, s) ==
  IF IsChoice(s) \/ s \notin t.has \/ (s \in t.write /\ t.def[s] = t.cur[s]) THEN t
  ELSE [t EXCEPT !.changed = TRUE]

\* Does a value that is calculated differ from the saved one?
CheckValue(t, s) ==
  LET agrees == IF s \in t.has /\ s \in t.write THEN t.def[s] = t.cur[s]
                ELSE s \notin t.has /\ s \notin t.write
  IN  IF IsChoice(s) \/ agrees THEN t ELSE [t EXCEPT !.changed = TRUE]

\* The first loop of conf_read.
Compare(t, s) == CheckValue(Calc(t, s), s)

\* sym_string_within_range for a number: the table with the range, if any, evaluated,
\* and the answer.
BelowHigh(t, x, r) == [t |-> t, ok |-> x <= Num(t.cur[r[2]])]
AboveLow(t, x, r) ==
  IF x < Num(t.cur[r[1]]) THEN [t |-> t, ok |-> FALSE] ELSE BelowHigh(Calc(t, r[2]), x, r)
Within(p, s, x) ==
  IF p.i = 0 THEN [t |-> p.t, ok |-> TRUE]
  ELSE AboveLow(Calc(p.t, D(s).ranges[p.i][1]), x, D(s).ranges[p.i])
WithinRange(t, s, x) == Within(FirstActive(t, D(s).ranges), s, x)

\* w is the WithinRange of the value .config gives s.
ForgetUnfit(w, s) ==
  IF w.ok THEN w.t
  ELSE [w.t EXCEPT !.valid = @ \ {s}, !.has = @ \ {s}, !.changed = TRUE]

\* The second loop of conf_read: forgets what no longer fits.
Forget(t, s) ==
  LET hidden == t.vis[s] = 0 /\ ~t.changed
      a == IF hidden THEN [t EXCEPT !.has = @ \ {s}] ELSE t
  IN  CASE s \notin t.has \/ IsChoiceValue(s) \/ s \in Numeral -> t
        [] s \in t.has /\ ~IsChoiceValue(s) /\ s \in Number ->
             ForgetUnfit(WithinRange(a, s, t.def[s]), s)
        [] OTHER -> a

\* conf_read after conf_read_simple.  Warnings do not count as unsaved in its
\* second loop, only in the result.
AfterRead(t) ==
  LET First == FoldLeft(Compare, Calc([t EXCEPT !.changed = FALSE], ModulesSym), decl.order)
  IN  [FoldLeft(Forget, First, decl.order) EXCEPT !.changed = @ \/ t.changed]

\* conf_read of an existing file.
Read ==
  /\ phase \in {"parsed", "read"}
  /\ tab' = AfterRead(ReadSimple(file, tab))
  /\ phase' = "read"
  /\ UNCHANGED <<decl, file>>

\* conf_read without a file.
ReadNothing ==
  /\ phase = "parsed"
  /\ tab' = Calc([tab EXCEPT !.changed = TRUE], ModulesSym)
  /\ phase' = "read"
  /\ UNCHANGED <<decl, file>>

\* conf --all*config with KCONFIG_ALLCONFIG: conf_read_simple alone.
Seed ==
  /\ phase = "parsed"
  /\ tab' = [ReadSimple(file, tab) EXCEPT !.changed = TRUE]
  /\ phase' = "seeded"
  /\ UNCHANGED <<decl, file>>

-----------------------------------------------------------------------------
(* Editing. *)

\* A front end shows a symbol (menu_is_visible, sym_calc_value).
Show(s) ==
  /\ phase = "read"
  /\ s \notin tab.valid
  /\ tab' = Calc(tab, s)
  /\ UNCHANGED <<decl, file, phase>>

\* A mutant: the user may go below what is selected.
TristateWithinRangeBelow(t, s, x) ==
  /\ t.vis[s] # 0
  /\ ~(GetType(t, s) = "bool" /\ x = 1)
  /\ IF IsChoiceValue(s) /\ t.vis[s] = 2 THEN x = 2 ELSE x \in 0 .. t.vis[s]

\* sym_tristate_within_range
TristateWithinRange(t, s, x) ==
  /\ t.vis[s] # 0
  /\ ~(GetType(t, s) = "bool" /\ x = 1)
  /\ t.vis[s] > t.rev[s]
  /\ IF IsChoiceValue(s) /\ t.vis[s] = 2 THEN x = 2 ELSE x \in t.rev[s] .. t.vis[s]

\* A mutant: only the symbol itself is calculated again.
SetTristateValueAlone(t, s, x) ==
  [t EXCEPT !.has = @ \cup {s}, !.def[s] = x, !.valid = @ \ {s}, !.changed = TRUE]

\* sym_set_tristate_value, when it accepts the value.
SetTristateValue(t, s, x) ==
  LET c == D(s).choice
      shown == {v \in Range(D(c).values) : t.vis[v] # 0}
      a == [t EXCEPT !.has = @ \cup {s}, !.def[s] = x]
      b == IF IsChoiceValue(s) /\ x = 2
           THEN [a EXCEPT !.chosen[c] = s, !.has = @ \cup {c} \cup shown] ELSE a
  IN  IF t.cur[s] # x THEN ClearAllValid(b) ELSE b

\* Whether sym_set_tristate_value accepts the value.
Accepted(t, s, x) == x = t.cur[s] \/ TristateWithinRange(t, s, x)

\* The user sets a bool, a tristate or a choice he is shown.
SetTristate(s, x) ==
  /\ phase = "read"
  /\ s \in tab.valid /\ tab.vis[s] # 0
  /\ Accepted(tab, s, x)
  /\ tab' = SetTristateValue(tab, s, x)
  /\ UNCHANGED <<decl, file, phase>>

\* sym_set_string_value of a number, when it accepts the value; w is WithinRange.
\* The text it already has changes nothing, although the number may have been
\* forgotten since: its value then stays what it was without an answer.
SetNumberValue(w, s, x) ==
  LET a == [w.t EXCEPT !.has = @ \cup {s}]
  IN  IF w.t.def[s] # x THEN ClearAllValid([a EXCEPT !.def[s] = x])
      ELSE IF s \in w.t.has THEN a ELSE [a EXCEPT !.stuck = @ \cup {s}]

SetNumber(s, x) ==
  LET w == WithinRange(tab, s, x) IN
  /\ phase = "read"
  /\ s \in tab.valid /\ tab.vis[s] # 0
  /\ w.ok
  /\ tab' = SetNumberValue(w, s, x)
  /\ UNCHANGED <<decl, file, phase>>

-----------------------------------------------------------------------------
(* conf_set_all_new_symbols and conf_rewrite_mod_or_yes *)

\* The symbols the first loop gives a value.
New(t) == {s \in Symbols : s \notin t.has \cup t.valid \cup Number \cup Numeral}

AllOf == [yes |-> 2, mod |-> 1, no |-> 0]    \* the modes; a fourth is default

\* The last loop in the modes without chance.
CompleteChoice(t, c) ==
  IF c \in t.has \/ ~IsChoice(c) THEN t ELSE SetAllChoiceValues(Calc(t, c), c)

AllNew(mode) ==
  LET new == IF mode = "default" THEN {} ELSE New(tab)
      a == [tab EXCEPT !.def = [s \in Symbols |-> IF s \in new THEN AllOf[mode] ELSE @[s]],
                       !.has = @ \cup new]
      b == ClearAllValid(a)
      c == [b EXCEPT !.need = @ \cup {s \in Symbols : (IsChoice(s) /\ s \notin b.has)
                                                      \/ IsChoiceValue(s)}]
  IN  /\ phase \in {"parsed", "seeded"} \/ (phase = "read" /\ mode = "default")
      /\ tab' = FoldLeft(CompleteChoice, c, decl.order)
      /\ phase' = "done"
      /\ UNCHANGED <<decl, file>>

\* A mutant: the choice is not marked as answered.
RandomizeUnmarked(k, t, c) ==
  LET a == Calc(t, c)
      all == Range(D(c).values)
      set == [a EXCEPT !.def = [s \in Symbols |-> IF s = k[c] THEN 2
                                                 ELSE IF s \in all THEN 0 ELSE @[s]],
                       !.chosen[c] = k[c],
                       !.valid = @ \ (all \cup {c})]
  IN  IF c \in t.has \/ ~IsChoice(c) \/ a.cur[c] # 2 THEN t ELSE set

\* randomize_choice_values for a choice c without an answer; k[c] is the value
\* drawn.
Randomize(k, t, c) ==
  LET a == Calc(t, c)
      all == Range(D(c).values)
      set == [a EXCEPT !.def = [s \in Symbols |-> IF s = k[c] THEN 2
                                                 ELSE IF s \in all THEN 0 ELSE @[s]],
                       !.chosen[c] = k[c],
                       !.has = @ \cup all \cup {c},
                       !.valid = @ \ (all \cup {c})]
  IN  IF c \in t.has \/ ~IsChoice(c) THEN t ELSE IF a.cur[c] = 2 THEN set ELSE a

\* One round of the loop of randconfig, which ends when a round finds nothing new.
RandomRound ==
  LET new == New(tab)
      choices == {c \in Symbols : IsChoice(c)}
      Answered(x) == ClearAllValid([tab EXCEPT
                       !.def = [s \in Symbols |-> IF s \in new THEN x[s] ELSE @[s]],
                       !.has = @ \cup (new \ choices)])
  IN  /\ phase \in {"parsed", "seeded", "random"}
      /\ \E x \in [new -> 0 .. 2], k \in [choices -> Symbols] :
         /\ \A s \in new \cap Bool : x[s] # 1
         /\ \A c \in choices : k[c] \in Range(D(c).values)
         /\ \E a \in {Answered(x)} :
            \E b \in {FoldLeft(LAMBDA t, c : Randomize(k, t, c), a, decl.order)} :
               /\ tab' = b
               /\ phase' = IF new # {} \/ b.has # a.has THEN "random" ELSE "done"
      /\ UNCHANGED <<decl, file>>

\* conf --yes2modconfig (from 2 to 1) and --mod2yesconfig (from 1 to 2)
RewriteModOrYes(from, to) ==
  LET hit == {s \in Symbols : GetType(tab, s) = "tristate" /\ tab.def[s] = from} IN
  /\ phase = "read"
  /\ tab' = ClearAllValid([tab EXCEPT !.def = [s \in Symbols |->
                                                 IF s \in hit THEN to ELSE @[s]]])
  /\ phase' = "done"
  /\ UNCHANGED <<decl, file>>

-----------------------------------------------------------------------------
(* conf_write, and the next process. *)

\* The values conf_write prints, and the table it leaves.
Written(t) == [s \in Saved |-> IF s \in t.write THEN TextValue(t, s) ELSE Absent]
WriteTable(t) ==
  LET a == IF t.changed THEN t ELSE ClearAllValid(t)
  IN  [CalcAll(a, SelectSeq(decl.menu, LAMBDA s : ~IsChoice(s))) EXCEPT !.changed = FALSE]

Write ==
  /\ phase \in {"read", "done"}
  /\ tab' = WriteTable(tab)
  /\ file' = Written(tab')
  /\ UNCHANGED <<decl, phase>>

Exit ==
  /\ phase \in {"read", "done"}
  /\ tab' = EmptyTable
  /\ phase' = "parsed"
  /\ UNCHANGED <<decl, file>>

Next ==
  \/ Read \/ ReadNothing \/ Seed \/ Write \/ Exit
  \/ \E s \in Symbols : Show(s)
  \/ \E s \in Symbols \ (Number \cup Numeral) : \E x \in 0 .. 2 : SetTristate(s, x)
  \/ \E s \in Symbols \cap Number : \E x \in Answers : SetNumber(s, x)
  \/ \E m \in DOMAIN AllOf \cup {"default"} : AllNew(m)
  \/ RandomRound
  \/ RewriteModOrYes(1, 2) \/ RewriteModOrYes(2, 1)

Spec == Init /\ [][Next]_vars

-----------------------------------------------------------------------------
(* Properties. *)

\* The table calculated from nothing, with the same answers of the user.
Scratch == CalcAll(ClearAllValid(tab), decl.order)

\* expr.h: "The SYMBOL_VALID bit is set in 'flags' when this is up to date."  What
\* a front end shows or writes without calculating is what it would calculate
\* (between two rounds of randconfig nothing is shown or written), unless a number
\* that was forgotten has been given its old answer again.
UpToDate ==
  LET fresh == Scratch IN
  phase # "random" /\ tab.stuck = {} =>
  \A s \in tab.valid : tab.cur[s] = fresh.cur[s] /\ tab.pick[s] = fresh.pick[s]

\* A choice that is y has exactly one value that is y, the one it calls chosen,
\* whatever was set before and whichever values came and went.
ChoiceOne ==
  \A c \in tab.valid :
    (IsChoice(c) /\ tab.cur[c] = 2 /\ Range(D(c).values) \subseteq tab.valid)
      => {s \in Range(D(c).values) : tab.cur[s] = 2} = {tab.pick[c]}

\* A bool or tristate is above its direct dependencies only when it is selected:
\* no default, answer or imply lifts it ("unmet direct dependencies" is a warning
\* about select alone).
DependsMet ==
  \A s \in tab.valid \ (Number \cup Numeral) :
    IsChoiceValue(s) \/ tab.cur[s] <= EXPR_OR(tab.dir[s], tab.rev[s])

\* A number lies in the first range whose condition holds, unless it is empty.
InFirstRange(p, s, x) ==
  LET Bound(k) == Num(p.t.cur[D(s).ranges[p.i][k]]) IN
  p.i # 0 /\ Bound(1) <= Bound(2) => x \in Bound(1) .. Bound(2)
InRange ==
  \A s \in tab.valid \cap Number :
    InFirstRange(FirstActive(Scratch, D(s).ranges), s, Num(tab.cur[s]))

\* An answer that is accepted is the value from then on, unless it is the one that
\* conf_read forgot of this number and nothing was calculated again since
\* (symbol.c:681).  (That the answer is there follows from the step, and spares TLC
\* to try the others.)
AnswerKept ==
  [][/\ \A s \in Symbols \ (Number \cup Numeral) : \A x \in {tab'.def[s]} \cap 0 .. 2 :
          s \in tab'.has /\ SetTristate(s, x) => Calc(tab', s).cur[s] = x
     /\ \A s \in Symbols \cap Number : \A x \in {tab'.def[s]} \cap Answers :
          s \in tab'.has \ tab'.stuck /\ SetNumber(s, x) => Calc(tab', s).cur[s] = x]_vars

\* A .config that was written is read back as it is: writing it again changes
\* nothing, so that syncconfig after any front end keeps what the user saved.
Stable ==
  [][file' # file =>
       \A again \in {WriteTable(AfterRead(ReadSimple(file', EmptyTable)))} :
         Written(again) = file']_vars

\* randconfig comes to an end: conf repeats the round until one finds nothing new,
\* and a round that does not end the loop has answered something.
RandomEnds ==
  [][phase = "random" /\ phase' = "random" =>
       tab.has \subseteq tab'.has /\ tab.has # tab'.has]_vars
=============================================================================
