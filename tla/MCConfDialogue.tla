--------------------------- MODULE MCConfDialogue ---------------------------
EXTENDS ConfDialogue, TLC

Bare == [prompts |-> <<>>, defaults |-> <<>>, ranges |-> <<>>, dir |-> NULL,
         rev |-> Sym("n"), imp |-> Sym("n"), choice |-> None, values |-> <<>>]
If(e) == [Bare EXCEPT !.prompts = <<e>>, !.dir = e]
Asked == If(NULL)
And(e, f) == Two("and", e, f)

Entry(list, up) == [kind |-> "symbol", when |-> NULL, visibility |-> NULL,
                    list |-> list, up |-> up]
Menu(list, up) == [Entry(list, up) EXCEPT !.kind = "menu"]

Trees == {
 \* A selects C in a menu, on which D depends; S is a menu seen with B.
 [order |-> <<"D", "C", "B", "A", "MODULES">>,
  menu  |-> <<"MODULES", "A", "B", "C", "D">>,
  sym   |-> [MODULES |-> [Bare EXCEPT !.defaults = <<<<Sym("y"), NULL>>>>],
             A |-> Asked,
             B |-> If(Sym("A")),
             C |-> [If(Sym("B")) EXCEPT !.rev = Sym("A")],
             D |-> If(And(Sym("B"), Sym("C")))],
  node  |-> [root |-> Menu(<<"A", "S">>, "root"),
             A |-> Entry(<<"B">>, "root"),
             B |-> Entry(<<>>, "A"),
             S |-> [Menu(<<"C">>, "root") EXCEPT !.when = Sym("B")],
             C |-> Entry(<<"D">>, "S"),
             D |-> Entry(<<>>, "C")]],
 \* A choice with a value that depends on what is asked after it.
 [order |-> <<"N", "X", "Y", "B", "CH", "MODULES", "0", "3">>,
  menu  |-> <<"MODULES", "CH", "X", "Y", "N", "B">>,
  sym   |-> [MODULES |-> [Bare EXCEPT !.defaults = <<<<Sym("y"), NULL>>>>],
             CH |-> [Asked EXCEPT !.values = <<"X", "Y">>, !.rev = Sym("m")],
             X |-> [If(Sym("CH")) EXCEPT !.choice = "CH"],
             Y |-> [If(And(Sym("CH"), Sym("B"))) EXCEPT !.choice = "CH"],
             N |-> [If(Sym("Y")) EXCEPT !.ranges = <<<<"0", "3", NULL>>>>],
             B |-> Asked] @@ [s \in {"0", "3"} |-> Bare],
  node  |-> [root |-> Menu(<<"CH", "B">>, "root"),
             CH |-> Entry(<<"X", "Y">>, "root"),
             X |-> Entry(<<>>, "CH"),
             Y |-> Entry(<<"N">>, "CH"),
             N |-> Entry(<<>>, "Y"),
             B |-> Entry(<<>>, "root")]]}

MCNumberOf == ("0" :> 0) @@ ("3" :> 3)

\* Any answers may be in .config, or none.
WithAnswers(trees) ==
  {[files |-> {f \in [{s \in Range(d.order) : d.sym[s].values = <<>> /\ s \notin Numeral}
                       -> {Absent, 0, 1, 2}] :
                 /\ f["MODULES"] = Absent
                 /\ \A s \in DOMAIN f \cap (Bool \cup Number) : f[s] # 1}] @@ d : d \in trees}

MCTrees == WithAnswers(Trees)
=============================================================================
