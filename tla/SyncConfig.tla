----------------------------- MODULE SyncConfig -----------------------------
(* One conf run at a time over the shared files: main() of conf.c with         *)
(* conf_write and conf_write_autoconf of confdata.c, one action per step that  *)
(* another process, or the next run after a crash, can observe. How values     *)
(* are computed is abstracted: a run ends with any configuration the           *)
(* declarations admit.                                                         *)
EXTENDS BuildTree

VARIABLES
    conf,       \* the conf process: where it is and what it holds in memory
    synced      \* the last *config target ended with status 0

confVars == <<conf, synced>>

NoConf == [pc |-> "idle", sync |-> FALSE, last |-> FALSE,
           new |-> AllUnset, todo |-> {}]

SyncTypeOK ==
    /\ conf \in [pc : {"idle", "write", "autoconf", "touch", "auto", "next"},
                 sync : BOOLEAN, last : BOOLEAN,
                 new : Configs, todo : SUBSET Syms]
    /\ synced \in BOOLEAN

-----------------------------------------------------------------------------
(* The values sym_calc_value can leave in a symbol of declaration d.           *)
Admits(d) ==
    CASE d = "bool" -> {"n", "y"}
      [] d = "tristate" -> {"n", "m", "y"}
      [] d = "string" -> {"n"} \cup Strs
      [] OTHER -> {"n"}

WellTyped == {c \in Configs : \A s \in Syms : c[s] \in Admits(kconf[s])}

(* conf_set_sym_val on a line of auto.conf: does the symbol get SYMBOL_DEF_AUTO *)
(* from the old value? A value of another type is rejected without a trace.    *)
HasOld(d, old) == old # "n" /\ old \in Admits(d)

(* A mutant: an option that is switched off is not touched.                    *)
NeedsTouchWhenSet(d, old, new) == new # "n" /\ new # old

(* The part of conf_read_simple(S_DEF_AUTO) and conf_touch_deps that decides   *)
(* whether include/config/<s>.h is touched. A symbol with value "n" that is a  *)
(* string is one without SYMBOL_WRITE; for bool and tristate the code treats   *)
(* "written as n" and "not written" alike.                                     *)
NeedsTouch(d, old, new) ==
    \/ d = "absent" /\ old # "n"
    \/ d # "absent" /\ HasOld(d, old) /\ new # old
    \/ d # "absent" /\ ~HasOld(d, old) /\ new # "n"

OldAuto == IF auto = NoFile THEN AllUnset ELSE auto
TouchSet(new) == {s \in Syms : NeedsTouch(kconf[s], OldAuto[s], new[s])}

-----------------------------------------------------------------------------
(* make <x>config: first conf --<x>config, then conf --syncconfig. The first   *)
(* may be syncconfig itself. conf_read, the questions and the evaluation leave *)
(* a configuration in memory.                                                  *)
ConfStart ==
    /\ conf.pc = "idle"
    /\ \E new \in WellTyped, sync \in BOOLEAN :
        conf' = [pc |-> "write", sync |-> sync, last |-> FALSE,
                 new |-> new, todo |-> {}]
    /\ synced' = FALSE
    /\ UNCHANGED treeVars

(* A mutant: the configuration stays in memory.                                *)
ConfSaveNothing ==
    /\ conf.pc = "write"
    /\ conf' = [conf EXCEPT !.pc =
                    IF ~conf.sync /\ auto # NoFile THEN "next" ELSE "autoconf"]
    /\ UNCHANGED <<synced, treeVars>>

(* conf_write: .config holds the new configuration (ConfWrite.tla has the      *)
(* renames). conf_write_autoconf(0) returns at once when auto.conf exists.     *)
ConfSave ==
    /\ conf.pc = "write"
    /\ dot' = conf.new
    /\ conf' = [conf EXCEPT !.pc =
                    IF ~conf.sync /\ auto # NoFile THEN "next" ELSE "autoconf"]
    /\ UNCHANGED <<synced, kconf, auto, header, tree, flags, newer>>

(* conf_write_dep, then conf_touch_deps reads the old auto.conf and finds the  *)
(* symbols whose stamp is to be touched.                                       *)
ReadOldAuto ==
    /\ conf.pc = "autoconf"
    /\ conf' = [conf EXCEPT !.pc = "touch", !.todo = TouchSet(conf.new)]
    /\ UNCHANGED <<synced, treeVars>>

(* conf_touch_dep, in the order of the symbol table, which is any order here.  *)
TouchDep(s) ==
    /\ conf.pc = "touch"
    /\ s \in conf.todo
    /\ Touch(s)
    /\ conf' = [conf EXCEPT !.todo = @ \ {s}]
    /\ UNCHANGED <<synced, kconf, dot, auto, header, tree, flags>>

(* A mutant: the stamps are not all touched first.                             *)
RenameHeaderEarly ==
    /\ conf.pc = "touch"
    /\ header' = conf.new
    /\ conf' = [conf EXCEPT !.pc = "auto"]
    /\ UNCHANGED <<synced, kconf, dot, auto, tree, flags, newer>>

(* .tmpconfig and .tmpconfig.h are written, and the header is renamed.         *)
RenameHeader ==
    /\ conf.pc = "touch"
    /\ conf.todo = {}
    /\ header' = conf.new
    /\ conf' = [conf EXCEPT !.pc = "auto"]
    /\ UNCHANGED <<synced, kconf, dot, auto, tree, flags, newer>>

(* A mutant: auto.conf is made once and then never replaced.                   *)
RenameAutoOnce ==
    /\ conf.pc = "auto"
    /\ auto = NoFile
    /\ auto' = conf.new
    /\ conf' = IF conf.last THEN NoConf ELSE [conf EXCEPT !.pc = "next"]
    /\ synced' = conf.last
    /\ UNCHANGED <<kconf, dot, header, tree, flags, newer>>

(* auto.conf is renamed, the last step of conf_write_autoconf.                 *)
RenameAuto ==
    /\ conf.pc = "auto"
    /\ auto' = conf.new
    /\ conf' = IF conf.last THEN NoConf ELSE [conf EXCEPT !.pc = "next"]
    /\ synced' = conf.last
    /\ UNCHANGED <<kconf, dot, header, tree, flags, newer>>

(* The second line of the recipe: conf --syncconfig reads the saved .config.   *)
ConfResync ==
    /\ conf.pc = "next"
    /\ conf' = [pc |-> "write", sync |-> TRUE, last |-> TRUE,
                new |-> dot, todo |-> {}]
    /\ UNCHANGED <<synced, treeVars>>

(* conf exits with an error, or is killed, at any step: what it renamed and    *)
(* touched stays.                                                              *)
ConfDies ==
    /\ conf.pc # "idle"
    /\ conf' = NoConf
    /\ UNCHANGED <<synced, treeVars>>

(* Without --syncconfig main() ignores what conf_write_autoconf returns: the    *)
(* first command of the recipe ends well and the second one runs.              *)
AutoconfFails ==
    /\ conf.pc \in {"autoconf", "touch", "auto"}
    /\ ~conf.sync
    /\ conf' = [conf EXCEPT !.pc = "next", !.todo = {}]
    /\ UNCHANGED <<synced, treeVars>>

(* The steps of a run that goes well.                                          *)
ConfRuns ==
    \/ ConfSave \/ ReadOldAuto \/ RenameHeader \/ RenameAuto \/ ConfResync
    \/ \E s \in Syms : TouchDep(s)

ConfStep == ConfStart \/ ConfRuns \/ AutoconfFails \/ ConfDies
=============================================================================
