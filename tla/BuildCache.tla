----------------------------- MODULE BuildCache -----------------------------
(* What an incremental build promises, whatever it records to keep the promise: *)
(* the object files are a cache of the compiler. A kept object equals what the  *)
(* compiler would produce from the present inputs, and is never compiled again. *)
CONSTANTS Objs, NoFile, FromScratch(_, _)   \* the object o compiled from inputs

VARIABLES
    inputs,     \* sources, configuration, command line
    product,    \* the object files
    kept        \* the objects the next build would not compile

Init == product = [o \in Objs |-> NoFile] /\ kept = {}

Accurate == \A o \in kept : product[o] = FromScratch(o, inputs)

(* An input changes: the objects it does not reach may be kept.                *)
Change ==
    /\ inputs' # inputs
    /\ product' = product
    /\ kept' \subseteq kept
    /\ Accurate'

(* Being kept is lost early, or won when the build has recorded enough.        *)
Judge ==
    /\ UNCHANGED <<inputs, product>>
    /\ kept' # kept
    /\ Accurate'

(* An object that is not kept is compiled or lost, the others stay.            *)
Produce ==
    /\ UNCHANGED inputs
    /\ \A o \in kept : product'[o] = product[o]
    /\ \A o \in Objs : product'[o] \in {product[o], NoFile, FromScratch(o, inputs)}
    /\ kept' \subseteq kept

Next == Change \/ Judge \/ Produce

Spec == Init /\ [][Next]_<<inputs, product, kept>>
=============================================================================
