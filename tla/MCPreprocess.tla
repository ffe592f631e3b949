---------------------------- MODULE MCPreprocess ----------------------------
(* A file of at most two assignments and a use, over two names, with an        *)
(* environment variable E whose value may name a variable, hold "y" or be     *)
(* unset.                                                                     *)
EXTENDS MacroMeaning

W(w) == <<Word(w)>>
R(clauses) == <<Ref(clauses)>>
V(name) == R(<<W(name)>>)

MCNames == {"X", "Y"}

MCValues ==
  {W("a"), V("X"), V("Y"), V("E"),
   W("b") \o V("1"),                        \* b$(1)
   R(<<V("X")>>),                           \* $($(X))
   R(<<V("1")>>),                           \* $($(1))
   R(<<W("X"), V("Y")>>),                   \* $(X,$(Y))
   R(<<W("error_if"), V("E"), W("a")>>),
   V("lineno")}

MCUses ==
  {V("X"), V("X") \o V("Y"), R(<<W("Y"), V("E")>>), R(<<V("E")>>), V("info")}

MCTexts ==
  MCValues \union MCUses \union
  {V("E"), V("1"), W("X"), W("Y"), W("1"), W("E"), W("error_if"), W("lineno"), W("info")}

Only(n, v) == [x \in {n} |-> v]
MCEnvironments == {<<>>, Only(<<"E">>, <<"y">>), Only(<<"E">>, <<"X">>)}
MCNumerals == <<"1", "2", "3">>
MCJunk == {<<>>, <<"?">>}
=============================================================================
