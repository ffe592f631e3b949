---------------------------- MODULE ConfDialogue ----------------------------
(***************************************************************************)
(* The dialogue of conf (kconfig/conf.c) in the modes oldaskconfig,        *)
(* oldconfig and syncconfig: it reads .config, walks the menu tree, asks   *)
(* for what has no answer, and starts again at the menu of every symbol    *)
(* that turns out to be new, until a walk finds none.                      *)
(*                                                                         *)
(* The recursion of conf and check_conf is a list of calls to be made:     *)
(* none of them does anything after its last call, except conf of a        *)
(* choice, whose end is the call "rest".                                   *)
(***************************************************************************)
EXTENDS KconfigValues

VARIABLES mode,      \* input_mode
          todo,      \* the calls to be made, first to last
          cnt,       \* conf_cnt # 0: this walk has found something new
          root       \* rootEntry

dialogue == <<mode, todo, cnt, root>>
allVars == <<vars, dialogue>>

\* decl.node[n] is the entry n of the menu tree, with
\*   kind        "menu", "comment" or "symbol", which then is n itself
\*   when        the condition of a prompt that is not a symbol's
\*   visibility  the condition of visible if
\*   list, up    the children, and the parent
\* A symbol has one prompt at most.
Node(n) == decl.node[n]
IsSymbol(n) == Node(n).kind = "symbol"

RECURSIVE MenuIsVisible(_, _)
Answer(t, ok) == [t |-> t, ok |-> ok]

\* An entry without a visible prompt that has a visible child counts as answered.
WithChild(v, n) == IF v.ok THEN Answer([v.t EXCEPT !.has = @ \cup {n}], TRUE) ELSE v
AnyVisible(t, list) ==
  FoldLeft(LAMBDA v, n : IF v.ok THEN v ELSE MenuIsVisible(v.t, n), Answer(t, FALSE), list)

\* t is the table with the prompt of n evaluated.
PromptOrChild(t, n) ==
  LET shown == IF IsSymbol(n) THEN t.vis[n] # 0 ELSE Eval(Node(n).when, t.cur) # 0
  IN  IF shown THEN Answer(t, TRUE)
      ELSE IF ~IsSymbol(n) \/ n \in Number \/ t.cur[n] = 0 THEN Answer(t, FALSE)
      ELSE WithChild(AnyVisible(t, Node(n).list), n)
VisibleIf(t, n) ==
  IF Eval(Node(n).visibility, t.cur) = 0 THEN Answer(t, FALSE)
  ELSE PromptOrChild(IF IsSymbol(n) THEN Calc(t, n) ELSE CalcExpr(t, Node(n).when), n)

\* menu_is_visible: the table after it, and its result.
MenuIsVisible(t, n) ==
  IF IsSymbol(n) /\ D(n).prompts = <<>> THEN Answer(t, FALSE)
  ELSE VisibleIf(CalcExpr(t, Node(n).visibility), n)

\* sym_is_changeable
Changeable(t, s) == t.vis[s] > t.rev[s]

RECURSIVE ParentMenu(_)
\* menu_get_parent_menu, which may be the entry itself.
ParentMenu(n) == IF Node(n).kind = "menu" THEN n ELSE ParentMenu(Node(n).up)

Call(proc, n)    == [do |-> proc, n |-> n]
Each(proc, list) == [i \in DOMAIN list |-> Call(proc, list[i])]

DialogueInit ==
  /\ Init
  /\ mode = "oldconfig" /\ todo = <<>> /\ cnt = FALSE /\ root = "root"

-----------------------------------------------------------------------------
\* main up to the dialogue: conf_parse, conf_read, and the first call.
Start(m) ==
  /\ Read \/ ReadNothing
  /\ phase = "parsed"
  /\ mode' = m
  /\ todo' = IF m = "oldaskconfig" THEN <<Call("conf", "root"), Call("loop", "root")>>
             ELSE <<Call("loop", "root")>>
  /\ cnt' = TRUE
  /\ root' = "root"

Doing(proc) == phase = "read" /\ todo # <<>> /\ Head(todo).do = proc
Then(calls) == todo' = calls \o Tail(todo)

\* The calls of conf at n, and what conf_choice does before its loop; v is what
\* menu_is_visible found.
ConfCalls(v, n) ==
  LET choice == (IF Changeable(v.t, n) THEN <<Call("ask", n)>> ELSE <<>>)
                  \o <<Call("choose", n) @@ [new |-> n \notin v.t.has], Call("rest", n)>>
      children == Each("conf", Node(n).list)
  IN  CASE ~v.ok -> <<>>
        [] v.ok /\ IsSymbol(n) -> IF IsChoice(n) THEN choice ELSE <<Call("ask", n)>> \o children
        [] v.ok /\ ~IsSymbol(n) ->
             IF Node(n).kind = "menu" /\ mode # "oldaskconfig" /\ root # n
             THEN <<Call("check", n)>> ELSE children

\* conf
Conf ==
  /\ Doing("conf")
  /\ \E v \in {MenuIsVisible(tab, Head(todo).n)} :
        tab' = v.t /\ Then(ConfCalls(v, Head(todo).n))
  /\ UNCHANGED <<decl, file, phase, mode, cnt, root>>

\* conf_askvalue returns 0: the question is printed with its answer.
Answered(s) == ~Changeable(tab, s) \/ (mode # "oldaskconfig" /\ s \in tab.has)

\* conf_sym and conf_string.  An answer that is refused is asked for again.
Ask ==
  LET s == Head(todo).n IN
  /\ Doing("ask")
  /\ Then(<<>>)
  /\ \/ Answered(s) /\ UNCHANGED tab
     \/ /\ ~Answered(s) /\ s \notin Number
        /\ \E x \in 0 .. 2 : Accepted(tab, s, x) /\ tab' = SetTristateValue(tab, s, x)
     \/ /\ ~Answered(s) /\ s \in Number
        /\ \E x \in (Answers \cup {tab.cur[s]}) \ {Empty} :
             LET w == WithinRange(tab, s, x) IN w.ok /\ tab' = SetNumberValue(w, s, x)
  /\ UNCHANGED <<decl, file, phase, mode, cnt, root>>

\* The children a choice lists, with the table after they were looked at.
List(l, v, n) ==
  [t |-> v.t, seq |-> IF v.ok /\ IsSymbol(n) THEN Append(l.seq, n) ELSE l.seq]
Listed(t, list) ==
  FoldLeft(LAMBDA l, n : List(l, MenuIsVisible(l.t, n), n), [t |-> t, seq |-> <<>>], list)

\* The loop of conf_choice.
Choose ==
  LET call == Head(todo)
      c == call.n
      Offered(l, def) == IF Len(l.seq) = 1 \/ mode = "oldaskconfig" \/ call.new THEN Range(l.seq)
                         ELSE Range(l.seq) \cap {def}
  IN  /\ Doing("choose")
      /\ \E a \in {Calc(tab, c)} :
           \/ a.cur[c] # 2 /\ tab' = a /\ Then(<<>>)
           \/ /\ a.cur[c] = 2
              /\ \E l \in {Listed(a, Node(c).list)} : \E s \in Offered(l, a.pick[c]) :
                   /\ tab' = IF Accepted(l.t, s, 2) THEN SetTristateValue(l.t, s, 2) ELSE l.t
                   /\ Then(Each("conf", Node(s).list))
      /\ UNCHANGED <<decl, file, phase, mode, cnt, root>>

\* conf of a choice after conf_choice: the values of a choice that is m.
Rest ==
  LET c == Head(todo).n IN
  /\ Doing("rest")
  /\ Then(IF tab.cur[c] = 1 THEN Each("conf", Node(c).list) ELSE <<>>)
  /\ UNCHANGED <<tab, decl, file, phase, mode, cnt, root>>

\* A mutant: one walk is enough.
CheckOnce ==
  LET n == Head(todo).n IN
  /\ Doing("check")
  /\ \E v \in {MenuIsVisible(tab, n)} :
       /\ tab' = v.t
       /\ Then(IF v.ok THEN Each("check", Node(n).list) ELSE <<>>)
  /\ UNCHANGED <<decl, file, phase, mode, cnt, root>>

\* What check_conf takes for new.
IsNew(v, n) ==
  /\ v.ok /\ IsSymbol(n) /\ n \notin v.t.has
  /\ Changeable(v.t, n) \/ (IsChoice(n) /\ v.t.cur[n] = 2)

\* check_conf
Check ==
  LET n == Head(todo).n IN
  /\ Doing("check")
  /\ \E v \in {MenuIsVisible(tab, n)} :
       LET new == IsNew(v, n)
           children == IF v.ok THEN Each("check", Node(n).list) ELSE <<>>
       IN  /\ tab' = v.t
           /\ root' = IF new THEN ParentMenu(n) ELSE root
           /\ cnt' = (cnt \/ new)
           /\ Then((IF new THEN <<Call("conf", root')>> ELSE <<>>) \o children)
  /\ UNCHANGED <<decl, file, phase, mode>>

\* A mutant: conf_cnt is not reset before the walk.
LoopKeeps ==
  /\ Doing("loop")
  /\ mode' = IF mode = "oldaskconfig" THEN "oldconfig" ELSE mode
  /\ todo' = IF cnt THEN <<Call("check", "root"), Call("loop", "root")>> ELSE <<>>
  /\ phase' = IF cnt THEN phase ELSE "done"
  /\ UNCHANGED <<tab, decl, file, cnt, root>>

\* The end of a walk: another one, in mode oldconfig after oldaskconfig, or the end.
Loop ==
  /\ Doing("loop")
  /\ cnt' = FALSE
  /\ mode' = IF mode = "oldaskconfig" THEN "oldconfig" ELSE mode
  /\ todo' = IF cnt THEN <<Call("check", "root"), Call("loop", "root")>> ELSE <<>>
  /\ phase' = IF cnt THEN phase ELSE "done"
  /\ UNCHANGED <<tab, decl, file, root>>

Step == Conf \/ Ask \/ Choose \/ Rest \/ Check \/ Loop

\* conf_write, and the next process.
Save == phase = "done" /\ Write /\ UNCHANGED dialogue
Leave == phase = "done" /\ ~tab.changed /\ Exit /\ UNCHANGED dialogue

DialogueNext ==
  \/ \E m \in {"oldaskconfig", "oldconfig"} : Start(m)
  \/ Step \/ Save \/ Leave

\* conf goes on while there are calls to be made, and the user answers each
\* question at last with something that is accepted.  This is WF_allVars(Step):
\* while phase is "read" a Step is possible, which takes a call from todo (the
\* run finds no deadlock).  It is written without ENABLED, whose evaluation
\* tries every answer again.
Fairness == []<>(phase # "read") \/ []<><<todo' # todo>>_todo

DialogueSpec == DialogueInit /\ [][DialogueNext]_allVars /\ Fairness

-----------------------------------------------------------------------------
(* Properties. *)

\* When the dialogue ends every symbol the user could set has an answer.
AllAnswered ==
  phase = "done" =>
    \A s \in {n \in DOMAIN decl.node : IsSymbol(n)} : \A v \in {MenuIsVisible(tab, s)} :
      (v.ok /\ Changeable(v.t, s)) => s \in v.t.has

\* When conf_read finds nothing to change no question is asked: a build can run
\* syncconfig without a terminal.
Quiet ==
  (phase = "read" /\ ~tab.changed /\ mode # "oldaskconfig")
    => \A i \in DOMAIN todo : todo[i].do # "conf"

\* The dialogue ends.
Ends == phase = "read" ~> phase = "done"
=============================================================================
