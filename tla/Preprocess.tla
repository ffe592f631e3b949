----------------------------- MODULE Preprocess -----------------------------
(* The macro language of Kconfig files (preprocess.c): variables of two       *)
(* flavours, user functions with positional parameters, built-in functions    *)
(* and the environment.  A text is a sequence of items: a word, or a reference *)
(* "$(t1,t2,...)" whose clauses are texts themselves.  An expanded string and  *)
(* a name are sequences of words.  The expansion is a machine: a step for each *)
(* piece of a text, a frame for each call of __expand_string and eval_clause   *)
(* that has not returned.                                                     *)
EXTENDS Integers, Sequences, FiniteSets

CONSTANTS
  Names,          \* the names the file assigns to
  Texts,          \* the texts of the file, those inside a reference included
  Values,         \* the texts it assigns
  Uses,           \* the texts it uses
  Environments,   \* the environments a run may be started in
  Junk,           \* what a pointer to freed or fresh memory may show
  Numerals,       \* the decimal numerals of 1, 2, ...
  MaxDepth,       \* stands for the 1000 of variable_expand
  MaxAssignments, \* bound: the assignments of the file
  MaxStatements   \* bound: the statements of the file

VARIABLES
  env,            \* the environment of the process: a function of the set names
  state,          \* what preprocess.c keeps, and the expansion that goes on
  other, again,   \* the same file, read in another environment
  read,           \* the statements read so far
  reading,        \* is the last of them being expanded?
  undefined       \* a := read its own freed or fresh value: nothing is promised

vars == <<env, state, other, again, read, reading, undefined>>

Phrase == Seq(STRING)
Blank == <<" ">>
Item == [word : STRING] \union [clauses : Seq(Texts) \ {<<>>}]

ASSUME TextsAssumption ==
  /\ Texts \subseteq Seq(Item)
  /\ Values \subseteq Texts
  /\ Uses \subseteq Texts

ASSUME WordsAssumption ==
  /\ Names \subseteq STRING
  /\ Blank \in Phrase
  /\ Junk \subseteq Phrase
  /\ Numerals \in Seq(STRING)
  /\ \A e \in Environments : DOMAIN e \subseteq Phrase /\ e \in [DOMAIN e -> Phrase]

ASSUME BoundsAssumption ==
  /\ MaxDepth \in Nat
  /\ MaxStatements \in Nat /\ MaxStatements <= Len(Numerals)

Word(w) == [word |-> w]
Ref(clauses) == [clauses |-> clauses]
IsWord(item) == "word" \in DOMAIN item

Flavors == {"simple", "recursive", "append"}

Words(text) == [i \in DOMAIN text |-> text[i].word]
Literal(words) == [i \in DOMAIN words |-> Word(words[i])]
Set(f, x, y) == [z \in DOMAIN f \union {x} |-> IF z = x THEN y ELSE f[z]]

-----------------------------------------------------------------------------
(* table is variable_list, seen holds the variables the expansion looked at,   *)
(* error is pperror's message, out what the last expansion gave.              *)
Start == [table |-> <<>>, env_list |-> {}, seen |-> {}, line |-> 0, error |-> "",
          out |-> <<>>, results |-> <<>>, stack |-> <<>>]

NoName == <<>>

(* __expand_string of what is left of a text, and the name of the variable the *)
(* text is the value of; eval_clause, with the clauses it has still to expand. *)
String(text, args, of) ==
  [proc |-> "string", text |-> text, args |-> args, out |-> <<>>, of |-> of]
Clause(clauses, args) ==
  [proc |-> "clause", clauses |-> clauses, args |-> args, words |-> <<>>]

Top(m) == m.stack[Len(m.stack)]
Below(m) == SubSeq(m.stack, 1, Len(m.stack) - 1)
Call(m, frame) == [m EXCEPT !.stack = Append(@, frame)]
Become(m, frame) == [m EXCEPT !.stack = Append(Below(m), frame)]
Stop(m, error) == [m EXCEPT !.error = error, !.stack = <<>>, !.out = <<>>]

\* The frame below goes on with what the top one gave.
Received(frame, out) ==
  IF frame.proc = "string" THEN [frame EXCEPT !.out = @ \o out]
  ELSE [frame EXCEPT !.words = Append(@, out)]

Return(m, out) ==
  IF Len(m.stack) = 1 THEN [m EXCEPT !.stack = <<>>, !.out = out]
  ELSE LET below == Below(m) IN
       [m EXCEPT !.stack = [below EXCEPT ![Len(below)] = Received(@, out)]]

(* A clause of one text that is a plain positive number no larger than the    *)
(* number of arguments is that argument.                                      *)
Positional(clauses, args) ==
  {i \in 1 .. Len(args) : i <= Len(Numerals) /\ clauses = <<<<Word(Numerals[i])>>>>}

(* function_table: the least and greatest number of arguments.                *)
Functions == [error_if |-> 2, info |-> 1, lineno |-> 0]
IsFunction(name) == Len(name) = 1 /\ name[1] \in DOMAIN Functions

FunctionError(name, args) ==
  IF Len(args) < Functions[name[1]] THEN "too few arguments"
  ELSE IF Len(args) > Functions[name[1]] THEN "too many arguments"
  ELSE IF name = <<"error_if">> /\ args[1] = <<"y">> THEN "error-if" ELSE ""

FunctionExpand(name, line) == IF name = <<"lineno">> THEN <<Numerals[line]>> ELSE <<>>

\* A mutant: the variable is not remembered.
EnvExpandSilent(m, e, name) ==
  Return(m, IF name \in DOMAIN e THEN e[name] ELSE <<>>)

\* A mutant: exp_count is not decremented.
LeftNot(m, name) == m

(* env_expand: only a variable that is set is remembered.                     *)
EnvExpand(m, e, name) ==
  IF name \in DOMAIN e
  THEN Return([m EXCEPT !.env_list = @ \union {name}], e[name])
  ELSE Return(m, <<>>)

WithCount(m, name, count) ==
  [m EXCEPT !.table = Set(@, name, [m.table[name] EXCEPT !.exp_count = count])]
Entered(m, name) == WithCount(m, name, m.table[name].exp_count + 1)
Left(m, name) == WithCount(m, name, m.table[name].exp_count - 1)

(* variable_expand: a simple variable ignores the arguments and is not left    *)
(* counted.                                                                   *)
VariableExpand(m, name, args) ==
  LET v == m.table[name]
      now == [m EXCEPT !.seen = @ \union {name}]
  IN  CASE args = <<>> /\ v.exp_count > 0 -> Stop(m, "references itself")
        [] ~(args = <<>> /\ v.exp_count > 0) /\ v.exp_count > MaxDepth ->
             Stop(m, "too deep")
        [] OTHER -> IF v.flavor = "recursive"
                    THEN Become(Entered(now, name), String(v.text, args, name))
                    ELSE Return(now, Words(v.text))

(* eval_clause: a variable hides a function, and both an environment variable. *)
Named(m, e, name, args) ==
  CASE name \in DOMAIN m.table -> VariableExpand(m, name, args)
    [] name \notin DOMAIN m.table /\ IsFunction(name) ->
         IF FunctionError(name, args) # "" THEN Stop(m, FunctionError(name, args))
         ELSE Return(m, FunctionExpand(name, m.line))
    [] name \notin DOMAIN m.table /\ ~IsFunction(name) ->
         IF args = <<>> /\ name # NoName THEN EnvExpand(m, e, name) ELSE Return(m, <<>>)

(* The clauses from left to right, then what the first of them names.         *)
EvalClause(m, e) ==
  LET f == Top(m) IN
  IF f.clauses = <<>> THEN Named(m, e, Head(f.words), Tail(f.words))
  ELSE Call(Become(m, [f EXCEPT !.clauses = Tail(@)]),
            String(Head(f.clauses), f.args, NoName))

Reference(m, rest, clauses) ==
  LET n == Positional(clauses, rest.args) IN
  IF n = {} THEN Call(Become(m, rest), Clause(clauses, rest.args))
  ELSE Become(m, Received(rest, rest.args[CHOOSE i \in n : TRUE]))

(* __expand_string: the next item, or the return at the end of the text.      *)
ExpandString(m) ==
  LET f == Top(m)
      rest == [f EXCEPT !.text = Tail(@)]
      item == Head(f.text)
  IN  IF f.text = <<>> THEN Return(IF f.of = NoName THEN m ELSE Left(m, f.of), f.out)
      ELSE IF IsWord(item) THEN Become(m, Received(rest, <<item.word>>))
      ELSE Reference(m, rest, item.clauses)

Step(m, e) ==
  IF m.stack = <<>> THEN m
  ELSE IF Top(m).proc = "string" THEN ExpandString(m) ELSE EvalClause(m, e)

-----------------------------------------------------------------------------
\* A mutant: += does not ask for the flavour of the variable.
FlavorRecursive(m, name, flavor) == IF flavor = "append" THEN "recursive" ELSE flavor

(* += keeps the flavour of a defined variable and makes a recursive one else.  *)
Flavor(m, name, flavor) ==
  CASE flavor # "append" -> flavor
    [] flavor = "append" /\ name \in DOMAIN m.table -> m.table[name].flavor
    [] flavor = "append" /\ name \notin DOMAIN m.table -> "recursive"

Count(m, name) == IF name \in DOMAIN m.table THEN m.table[name].exp_count ELSE 0
Extended(old, new) == old \o Literal(Blank) \o new

(* variable_add, up to the call of expand_string: the old text is freed before *)
(* the new one of a := is expanded (junk stands for what is then read through  *)
(* the pointer).                                                              *)
VariableAdd(m, name, text, flavor, junk) ==
  LET append == flavor = "append" /\ name \in DOMAIN m.table
      kept == Flavor(m, name, flavor)
      old == IF append THEN m.table[name].text ELSE Literal(junk)
      new == IF append THEN Extended(old, text) ELSE text
      With(t) == [m EXCEPT !.table = Set(@, name, [flavor |-> kept, text |-> t,
                                                   exp_count |-> Count(m, name)])]
  IN  IF kept = "simple" THEN Call(With(old), String(text, <<>>, NoName))
      ELSE With(new)

(* variable_add, from there on: the expanded text is kept.                    *)
Store(m, name, flavor) ==
  LET v == m.table[name]
      new == IF flavor = "append" THEN Extended(v.text, Literal(m.out)) ELSE Literal(m.out)
  IN  [m EXCEPT !.table = Set(@, name, [v EXCEPT !.text = new]), !.out = <<>>]

\* The next statement; pperror has left the program for good.
Begin(m, s, junk) ==
  LET now == [m EXCEPT !.line = @ + 1, !.seen = {}] IN
  IF m.error # "" THEN m
  ELSE IF s.kind = "use" THEN Call(now, String(s.text, <<>>, NoName))
  ELSE VariableAdd(now, <<s.name>>, s.text, s.kind, junk)

Finish(m, s) ==
  IF m.error # "" THEN m
  ELSE IF s.kind = "use" THEN [m EXCEPT !.results = Append(@, m.out), !.out = <<>>]
  ELSE Store(m, <<s.name>>, s.kind)

-----------------------------------------------------------------------------
Init ==
  /\ env \in Environments /\ other \in Environments \ {env}
  /\ state = Start /\ again = Start
  /\ read = <<>>
  /\ reading = FALSE
  /\ undefined = FALSE

Running == ~reading /\ state.error = "" /\ Len(read) < MaxStatements

Assignments == {i \in 1 .. Len(read) : read[i].kind # "use"}

\* The other reading finds other memory at the freed pointer.
Reads(s, junk) ==
  /\ state' = Begin(state, s, junk)
  /\ again' = Begin(again, s, <<>>)
  /\ read' = Append(read, s)
  /\ reading' = (state'.stack # <<>> \/ again'.stack # <<>>)
  /\ UNCHANGED <<env, other, undefined>>

(* An assignment: name = text, name := text or name += text.  Only the text of *)
(* a simple variable is expanded there and then.                              *)
Assign ==
  /\ Running /\ Cardinality(Assignments) < MaxAssignments
  /\ \E name \in Names, text \in Values, flavor \in Flavors, junk \in Junk :
       Reads([kind |-> flavor, name |-> name, text |-> text], junk)

(* A text of the file outside an assignment: expand_dollar, expand_one_token.  *)
Use ==
  /\ Running
  /\ \E text \in Uses : Reads([kind |-> "use", name |-> "", text |-> text], <<>>)

Expand ==
  /\ reading
  /\ state.stack # <<>> \/ again.stack # <<>>
  /\ state' = Step(state, env)
  /\ again' = Step(again, other)
  /\ UNCHANGED <<env, other, read, reading, undefined>>

Statement == read[Len(read)]
ReadsItself == Statement.kind = "simple" /\ <<Statement.name>> \in state.seen

Expanded == reading /\ state.stack = <<>> /\ again.stack = <<>>

End ==
  /\ Expanded
  /\ state' = Finish(state, Statement)
  /\ again' = Finish(again, Statement)
  /\ undefined' = (undefined \/ ReadsItself)
  /\ reading' = FALSE
  /\ UNCHANGED <<env, other, read>>

(* A := that reads its own value may also be stopped by the system.           *)
Crash ==
  /\ Expanded
  /\ ReadsItself
  /\ state' = Stop(state, "crash")
  /\ undefined' = TRUE
  /\ reading' = FALSE
  /\ UNCHANGED <<env, other, again, read>>

Next == Assign \/ Use \/ Expand \/ End \/ Crash

Spec == Init /\ [][Next]_vars

-----------------------------------------------------------------------------
(* TypeOK: a simple variable holds plain words only, and no expansion is left  *)
(* counted once a statement is read (preprocess.c:254-280).                   *)
TypeOK ==
  state.error = "" =>
    \A n \in DOMAIN state.table :
      /\ state.table[n].flavor = "simple" =>
           \A k \in DOMAIN state.table[n].text : IsWord(state.table[n].text[k])
      /\ ~reading => state.table[n].exp_count = 0

(* What the file means depends on no environment variable that was set and is  *)
(* not in env_list, from which include/config/auto.conf.cmd is written         *)
(* (preprocess.c:64-106): reading the file again without them, or with other   *)
(* values, gives the same results, and the same error if there is one.         *)
Differ ==
  {x \in DOMAIN env \union DOMAIN other :
     ~(x \in DOMAIN env /\ x \in DOMAIN other /\ other[x] = env[x])}

Forgotten == DOMAIN env \ state.env_list

EnvRemembered ==
  ~reading /\ ~undefined /\ Differ \subseteq Forgotten =>
    again.results = state.results /\ again.error = state.error
=============================================================================
