------------------------- MODULE MCIncrementalBuild -------------------------
(* Two objects that share a header (Two...), and one object for the runs in    *)
(* which more may go wrong (Solo...). a.c can include the header under         *)
(* CONFIG_A only, and the header mentions CONFIG_A in one of its versions.     *)
EXTENDS IncrementalBuild, TLC

TwoSyms == {"A"}
TwoTypeOf == "A" :> "bool"
TwoObjs == {"a.o", "b.o"}
TwoFiles == {"a.c", "b.c", "x.h"}
TwoSrcOf == "a.o" :> "a.c" @@ "b.o" :> "b.c"
TwoVersions == "a.c" :> {"if A include"} @@ "b.c" :> {"include"}
               @@ "x.h" :> {"plain", "uses A"}

SoloSyms == {"A"}
SoloTypeOf == "A" :> "bool"
SoloObjs == {"a.o"}
SoloFiles == {"a.c", "x.h"}
SoloSrcOf == "a.o" :> "a.c"
SoloVersions == "a.c" :> {"if A include"} @@ "x.h" :> {"plain", "uses A"}

MCContents == {"plain", "if A include", "include", "uses A"}
MCMentions ==
    [c \in MCContents |-> IF c \in {"if A include", "uses A"} THEN {"A"} ELSE {}]
MCIncludes ==
    [c \in MCContents |-> [g \in Configs |->
        IF c = "include" \/ (c = "if A include" /\ g["A"] = "y")
        THEN {"x.h"} ELSE {}]]
=============================================================================
