------------------------------ MODULE BuildTree ------------------------------
(* The files that kconfig's conf and the make fragments share: the Kconfig     *)
(* declarations, .config, include/config/auto.conf, include/generated/         *)
(* autoconf.h, the stamps include/config/<symbol>.h and the project's sources. *)
(* Modification times are kept as what make asks of them: newer[o] is the set  *)
(* of stamps and sources that are newer than the object o.                     *)
EXTENDS FiniteSets

CONSTANTS
    Syms,       \* configuration symbols
    Strs,       \* the values a string, int or hex symbol can have
    TypeOf,     \* [Syms -> "bool", "tristate" or "string"]
    Objs,       \* objects of obj-y
    Files,      \* .c files and headers
    SrcOf,      \* [Objs -> Files], the .c file of the pattern rule
    Contents,   \* what a file can hold
    Versions,   \* [Files -> SUBSET Contents], what the editor puts in a file
    Mentions,   \* [Contents -> SUBSET Syms], the CONFIG_ words in a text
    Includes,   \* [Contents -> [Configs -> SUBSET Files]], headers a .c reads
    Flags,      \* values of ccflags-y
    NoFile,     \* a file that does not exist
    Faults      \* what may happen beyond the disciplined use of the tree

(* A symbol the configuration does not set has no line in auto.conf and no     *)
(* #define in autoconf.h: "n" stands for that, for symbols of every type.      *)
Values == {"n", "m", "y"} \cup Strs
Configs == [Syms -> Values]
AllUnset == [s \in Syms |-> "n"]

Types == {"bool", "tristate", "string"}
(* "unknown": named in an expression but declared nowhere (S_UNKNOWN);         *)
(* "absent": the symbol table does not have the name.                          *)
Decls == Types \cup {"unknown", "absent"}

Prereqs == Syms \cup Files

ASSUME NamesAssumption ==
    /\ {"n", "m", "y"} \cap Strs = {}
    /\ Syms \cap Files = {}
    /\ NoFile \notin Configs
    /\ TypeOf \in [Syms -> Types]
    /\ SrcOf \in [Objs -> Files]

ASSUME ContentsAssumption ==
    /\ Versions \in [Files -> SUBSET Contents]
    /\ Mentions \in [Contents -> SUBSET Syms]
    /\ Includes \in [Contents -> [Configs -> SUBSET Files]]

(* An #include is decided by CONFIG_ words of the same text.                   *)
ASSUME GuardAssumption ==
    \A c \in Contents : \A g, h \in Configs :
        (\A s \in Mentions[c] : g[s] = h[s]) => Includes[c][g] = Includes[c][h]

(* build_unsynced: make runs although the last conf run did not end well       *)
(* hand_edit:      .config is edited and no conf run follows                   *)
(* retype:         a symbol's type changes between two conf runs               *)
(* referenced:     a declaration is removed, expressions still name the symbol *)
(* recipe_cut:     a recipe ends after the compiler, before the .cmd is moved  *)
(* reflag:         ccflags-y changes                                           *)
ASSUME FaultsAssumption ==
    Faults \subseteq {"build_unsynced", "hand_edit", "retype", "referenced",
                      "recipe_cut", "reflag"}

VARIABLES
    kconf,      \* the Kconfig declaration of each symbol
    dot,        \* .config
    auto,       \* include/config/auto.conf
    header,     \* include/generated/autoconf.h
    tree,       \* the content of each source file
    flags,      \* the current ccflags-y
    newer       \* prerequisites newer than each object

treeVars == <<kconf, dot, auto, header, tree, flags, newer>>

TreeTypeOK ==
    /\ kconf \in [Syms -> Decls]
    /\ dot \in Configs \cup {NoFile}
    /\ auto \in Configs \cup {NoFile}
    /\ header \in Configs \cup {NoFile}
    /\ tree \in [Files -> Contents]
    /\ flags \in Flags
    /\ newer \in [Objs -> SUBSET Prereqs]

(* A fresh checkout: every symbol declared, nothing configured, nothing built. *)
TreeInit ==
    /\ kconf = TypeOf
    /\ dot = NoFile
    /\ auto = NoFile
    /\ header = NoFile
    /\ tree \in {t \in [Files -> Contents] : \A f \in Files : t[f] \in Versions[f]}
    /\ flags \in Flags
    /\ newer = [o \in Objs |-> {}]

Touch(p) == newer' = [o \in Objs |-> newer[o] \cup {p}]
=============================================================================
