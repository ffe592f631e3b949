--------------------------- MODULE MCKconfigCycles ---------------------------
EXTENDS KconfigCycles

Bare == [prompts |-> <<>>, defaults |-> <<>>, ranges |-> <<>>, dir |-> NULL,
         rev |-> Sym("n"), imp |-> Sym("n"), choice |-> None, values |-> <<>>]
If(e) == [Bare EXCEPT !.prompts = <<e>>, !.dir = e]
DefaultY(r, e) == [r EXCEPT !.defaults = <<<<Sym("y"), e>>>>]

Conditions == {NULL, Not(Sym("A")), Sym("B"), Neq("X", "n"), Sym("Y")}

\* The condition of what is declared in the choice and depends on its value Y.
InChoice == AllocAnd(Sym("CH"), Sym("Y"))

\* A, whose default has a condition a and which ar selects; B if b; a choice if c; its
\* values X if x and Y.
Declare(a, ar, b, c, x) ==
  [A  |-> [DefaultY(If(NULL), a) EXCEPT !.rev = ar],
   B  |-> If(b),
   CH |-> [If(c) EXCEPT !.values = <<"X", "Y">>, !.rev = AllocAnd(c, Sym("m"))],
   X  |-> [If(AllocAnd(Sym("CH"), x)) EXCEPT !.choice = "CH"],
   Y  |-> [If(Sym("CH")) EXCEPT !.choice = "CH"]]

Orders == {<<"X", "B", "CH", "A", "Y", "MODULES">>, <<"Y", "MODULES", "A", "X", "CH", "B">>}
MCKconfigs ==
  {[order |-> order, has |-> has,
    sym |-> Declare(a, ar, b, c, x) @@ [s \in {"MODULES"} |-> Bare]] :
     order \in Orders, a \in Conditions \ {Not(Sym("A"))}, ar \in {Sym("n"), Sym("B")},
     b \in (Conditions \ {Sym("B")}) \cup {InChoice}, c \in Conditions, x \in Conditions \ {Neq("X", "n")},
     has \in {{}, {"A", "B", "X"}}}

\* A number that bounds another, or each the other.
MCRanges ==
  {[order |-> <<"N", "L", "MODULES", "0", "3", "5">>, has |-> {},
    sym |-> [N |-> [If(NULL) EXCEPT !.ranges = <<<<"0", "L", NULL>>>>,
                                    !.defaults = <<<<Sym("3"), NULL>>>>],
             L |-> [If(NULL) EXCEPT !.ranges = <<<<low, "5", NULL>>>>,
                                    !.defaults = <<<<Sym("0"), NULL>>>>]]
            @@ [s \in {"MODULES", "0", "3", "5"} |-> Bare]] : low \in {"0", "N"}}

MCNumberOf == [s \in {"0", "3", "5"} |-> IF s = "0" THEN 0 ELSE IF s = "3" THEN 3 ELSE 5]
MCAll == MCKconfigs \cup MCRanges
=============================================================================
