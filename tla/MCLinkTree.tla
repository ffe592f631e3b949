----------------------------- MODULE MCLinkTree -----------------------------
(* Two subdirectories whose makes run at the same time, one without an object. *)
EXTENDS LinkTree, TLC

ForkLeaves == {"a.o"}
ForkDirs == {"top", "left", "right"}
ForkHomeOf == "left" :> "top" @@ "right" :> "top" @@ "a.o" :> "left"
=============================================================================
