---------------------------- MODULE MCKconfigMenu ----------------------------
EXTENDS KconfigMenu

MCConditions == {Neq("T", "n"), Eq("T", "n"), Sym("m")}
MCSelected == {Neq("T", "n")}
=============================================================================
