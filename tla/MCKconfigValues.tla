--------------------------- MODULE MCKconfigValues ---------------------------
EXTENDS KconfigValues, TLC

Bare == [prompts |-> <<>>, defaults |-> <<>>, ranges |-> <<>>, dir |-> NULL,
         rev |-> Sym("n"), imp |-> Sym("n"), choice |-> None, values |-> <<>>]

If(e) == [Bare EXCEPT !.prompts = <<e>>, !.dir = e]
Asked == If(NULL)
DefaultY(r) == [r EXCEPT !.defaults = <<<<Sym("y"), NULL>>>>]

\* B selects C, which may be hidden; A implies E, which C hides.
SelectTree ==
  [order |-> <<"E", "C", "B", "A", "MODULES">>,
   menu  |-> <<"MODULES", "A", "B", "C", "E">>,
   sym   |-> [MODULES |-> DefaultY(Asked),
              A |-> Asked,
              B |-> If(Sym("A")),
              C |-> [If(Sym("n")) EXCEPT !.rev = Sym("B")],
              E |-> [If(Sym("C")) EXCEPT !.imp = Sym("A")]]]

\* A choice whose default comes and goes.
ChoiceTree ==
  [order |-> <<"X", "Y", "B", "CH", "MODULES">>,
   menu  |-> <<"MODULES", "B", "CH", "X", "Y">>,
   sym   |-> [MODULES |-> DefaultY(Bare),
              B  |-> Asked,
              CH |-> [Asked EXCEPT !.values = <<"X", "Y">>, !.rev = Sym("m"),
                                   !.defaults = <<<<Sym("Y"), NULL>>>>],
              X  |-> [If(Sym("CH")) EXCEPT !.choice = "CH"],
              Y  |-> [If(Two("and", Sym("CH"), Sym("B"))) EXCEPT !.choice = "CH"]]]

\* A choice that depends on a value of another, which is calculated after it.
NestedTree ==
  [order |-> <<"P", "CI", "Y", "X", "CH", "MODULES">>,
   menu  |-> <<"MODULES", "CH", "X", "Y", "CI", "P">>,
   sym   |-> [MODULES |-> DefaultY(Bare),
              CH |-> [Asked EXCEPT !.values = <<"X", "Y">>, !.rev = Sym("m")],
              X  |-> [If(Sym("CH")) EXCEPT !.choice = "CH"],
              Y  |-> [If(Sym("CH")) EXCEPT !.choice = "CH"],
              CI |-> [If(Sym("Y")) EXCEPT !.values = <<"P">>,
                                          !.rev = Two("and", Sym("Y"), Sym("m"))],
              P  |-> [If(Sym("CI")) EXCEPT !.choice = "CI"]]]

\* A number with a range one of whose bounds is a symbol; b is what B depends on.
RangeTree(b) ==
  [order |-> <<"N", "B", "L", "MODULES", "0", "3", "5">>,
   menu  |-> <<"MODULES", "L", "N", "B">>,
   sym   |-> [MODULES |-> DefaultY(Bare),
              L |-> [Asked EXCEPT !.defaults = <<<<Sym("3"), NULL>>>>,
                                  !.ranges = <<<<"0", "5", NULL>>>>],
              N |-> [Asked EXCEPT !.defaults = <<<<Sym("0"), NULL>>>>,
                                  !.ranges = <<<<"L", "5", NULL>>>>],
              B |-> If(b)] 
             @@ [s \in {"0", "3", "5"} |-> Bare]]

MCNumberOf == ("0" :> 0) @@ ("3" :> 3) @@ ("5" :> 5)

\* The declarations d with the .config files whose lines are in domains.
WithFiles(d, domains) ==
  LET saved == {s \in Range(d.order) : d.sym[s].values = <<>> /\ s \notin Numeral} IN
  [files |-> {f \in [saved -> UNION Range(domains)] :
                \A s \in saved : f[s] \in domains[s]}] @@ d

YN == {0, 2, Absent}
Nums == Answers \cup {Absent}
NoModules == [MODULES |-> {Absent}]
KSelects == {WithFiles(SelectTree,
  [MODULES |-> {0, 2}, A |-> {1, 2}, B |-> {2}, C |-> {Absent}, E |-> {Absent}])}
KChoices == {WithFiles(ChoiceTree,
  [B |-> {2, Absent}, X |-> YN, Y |-> YN] @@ NoModules)}
KNested == {WithFiles(NestedTree,
  [X |-> {Absent}, Y |-> YN, P |-> {Absent, 2}] @@ NoModules)}
\* No other symbol depends on the number that may be out of its range.
KRanges == {WithFiles(RangeTree(Cmp(">", "L", "3")),
  [L |-> Nums \ {6}, N |-> Nums, B |-> {2, Absent}] @@ NoModules)}
MCKconfigs == KSelects \cup KChoices \cup KNested \cup KRanges
\* One does.
MCStale == {WithFiles(RangeTree(Cmp(">", "N", "3")),
  [L |-> Nums, N |-> Nums, B |-> YN] @@ NoModules)}
=============================================================================
