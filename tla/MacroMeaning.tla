---------------------------- MODULE MacroMeaning ----------------------------
(* What a text of a Kconfig file means, from the statements alone: no table,   *)
(* no counters, no steps.  At statement i a name stands for its last           *)
(* assignment other than += and for the += after it; a simple one for what     *)
(* they meant where they were read.  A meaning is a set of one value, or empty *)
(* where the unfolding does not end or a function is misused.                  *)
EXTENDS Preprocess, SequencesExt

IsAssign(i, name) == read[i].kind # "use" /\ <<read[i].name>> = name
Defined(name, i) == \E j \in 1 .. i : IsAssign(j, name)

Base(name, i) ==
  LET sets == {j \in 1 .. i : IsAssign(j, name) /\ read[j].kind # "append"}
      all == IF sets # {} THEN sets ELSE {j \in 1 .. i : IsAssign(j, name)}
      first == sets = {}
  IN  CHOOSE j \in all : \A k \in all : IF first THEN j <= k ELSE k <= j

Parts(name, i) ==
  SetToSortSeq({j \in Base(name, i) .. i : IsAssign(j, name)}, LAMBDA j, k : j < k)

RECURSIVE Means(_, _, _, _)

Join(m1, between, m2) == {x \o between \o y : x \in m1, y \in m2}

NamedMeans(name, given, i, fuel) ==
  CASE Defined(name, i) ->
         LET simple == read[Base(name, i)].kind = "simple"
             part(j) == IF simple THEN Means(read[j].text, <<>>, j - 1, fuel)
                        ELSE Means(read[j].text, given, i, fuel)
             parts == Parts(name, i)
         IN  FoldLeft(LAMBDA m, j : Join(m, Blank, part(j)), part(parts[1]), Tail(parts))
    [] ~Defined(name, i) /\ IsFunction(name) ->
         IF FunctionError(name, given) = "" THEN {FunctionExpand(name, i + 1)} ELSE {}
    [] OTHER -> {IF given = <<>> /\ name \in DOMAIN env THEN env[name] ELSE <<>>}

ClauseMeans(clauses, args, i, fuel) ==
  LET n == Positional(clauses, args)
      rest == FoldLeft(LAMBDA m, t : {Append(x, y) : x \in m, y \in Means(t, args, i, fuel)},
                       {<<>>}, Tail(clauses))
  IN  IF n # {} THEN {args[CHOOSE k \in n : TRUE]}
      ELSE UNION {NamedMeans(name, given, i, fuel - 1) :
                    name \in Means(clauses[1], args, i, fuel), given \in rest}

Means(text, args, i, fuel) ==
  IF fuel = 0 THEN {}
  ELSE FoldLeft(LAMBDA m, item :
                  Join(m, <<>>, IF IsWord(item) THEN {<<item.word>>}
                                ELSE ClauseMeans(item.clauses, args, i, fuel)),
                {<<>>}, text)

Fuel == 2 * MaxDepth + 3
LastUse == ~reading /\ Len(read) > 0 /\ Last(read).kind = "use"
LastMeans == Means(Last(read).text, <<>>, Len(read) - 1, Fuel)

(* A text that expands without an error gives the value its assignments stand  *)
(* for: which of them count, when each is expanded and which arguments it sees *)
(* (variable_add, variable_expand, eval_clause).                              *)
ExpansionMeans ==
  LastUse /\ state.error = "" /\ ~undefined => LastMeans = {Last(state.results)}

(* An expansion that never ends, or misuses a function, ends in an error and   *)
(* not in a value.  An expansion that ends is not reported as recursive, as     *)
(* long as no variable is called with arguments: such a call may come back to   *)
(* its variable without arguments and end, and is refused (preprocess.c:263).  *)
Calls(text) ==
  \E i \in DOMAIN text :
    ~IsWord(text[i]) /\ Len(text[i].clauses) > 1 /\ ~IsFunction(Words(text[i].clauses[1]))

ErrorsMeant ==
  LastUse /\ ~undefined =>
    \E m \in {LastMeans} :
      /\ m = {} => state.error # ""
      /\ m # {} /\ state.error # "" => \E i \in DOMAIN read : Calls(read[i].text)
=============================================================================
