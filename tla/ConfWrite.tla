----------------------------- MODULE ConfWrite -----------------------------
(* conf_write of confdata.c at the granularity of its system calls: several    *)
(* front ends (conf, mconf, gconf) may save the configuration of one tree at   *)
(* the same time, and each may be killed at any step.                          *)

CONSTANTS
    Procs,      \* the processes that save; a process may save many times
    Configs,    \* texts of a .config file
    NoFile,
    Partial,    \* a file that was not written to its end
    Faults      \* "full": a write fails; "backup_fails": the first rename does

ASSUME TextsAssumption ==
    /\ Partial \notin Configs
    /\ NoFile \notin Configs \cup {Partial}
    /\ Faults \subseteq {"full", "backup_fails"}

VARIABLES
    dot,        \* .config
    old,        \* .config.old
    tmp,        \* each process's .config.<pid>.tmp
    pc,         \* how far each process is in conf_write
    new         \* the configuration each process holds in memory

vars == <<dot, old, tmp, pc, new>>

Contents == Configs \cup {Partial, NoFile}

TypeOK ==
    /\ dot \in Contents
    /\ old \in Contents
    /\ tmp \in [Procs -> Contents]
    /\ pc \in [Procs -> {"idle", "write", "compare", "backup", "install"}]
    /\ new \in [Procs -> Configs]

Init ==
    /\ dot \in Configs \cup {NoFile}
    /\ old \in Configs \cup {NoFile}
    /\ tmp = [p \in Procs |-> NoFile]
    /\ pc = [p \in Procs |-> "idle"]
    /\ new \in [Procs -> Configs]

-----------------------------------------------------------------------------
(* A mutant: the temporary file has one name for all processes.                *)
TmpOfTree(p) == CHOOSE q \in Procs : TRUE

(* The name of the temporary file contains the process id.                     *)
TmpOf(p) == p

Goto(p, where) == pc' = [pc EXCEPT ![p] = where]

(* fopen truncates what a killed process of the same id has left.               *)
Open(p) ==
    /\ pc[p] = "idle"
    /\ \E c \in Configs : new' = [new EXCEPT ![p] = c]
    /\ tmp' = [tmp EXCEPT ![TmpOf(p)] = Partial]
    /\ Goto(p, "write")
    /\ UNCHANGED <<dot, old>>

(* The symbols are printed and the file is closed; neither fprintf nor fclose  *)
(* is asked whether the text reached the disk.                                 *)
WriteAll(p) ==
    /\ pc[p] = "write"
    /\ \E c \in {new[p]} \cup (IF "full" \in Faults THEN {Partial} ELSE {}) :
        tmp' = [tmp EXCEPT ![TmpOf(p)] = c]
    /\ Goto(p, "compare")
    /\ UNCHANGED <<dot, old, new>>

Same(p) == dot \in Configs /\ dot = tmp[TmpOf(p)]

NoChange(p) ==
    /\ pc[p] = "compare"
    /\ Same(p)
    /\ tmp' = [tmp EXCEPT ![TmpOf(p)] = NoFile]
    /\ Goto(p, "idle")
    /\ UNCHANGED <<dot, old, new>>

Change(p) ==
    /\ pc[p] = "compare"
    /\ ~Same(p)
    /\ Goto(p, "backup")
    /\ UNCHANGED <<dot, old, tmp, new>>

(* rename(name, oldname), whose result is ignored: it fails when there is no   *)
(* .config.                                                                    *)
Backup(p) ==
    /\ pc[p] = "backup"
    /\ \/ dot # NoFile /\ old' = dot /\ dot' = NoFile
       \/ dot = NoFile /\ UNCHANGED <<old, dot>>
       \/ "backup_fails" \in Faults /\ UNCHANGED <<old, dot>>
    /\ Goto(p, "install")
    /\ UNCHANGED <<tmp, new>>

(* rename(tmpname, name).                                                      *)
Install(p) ==
    /\ pc[p] = "install"
    /\ dot' = tmp[TmpOf(p)]
    /\ tmp' = [tmp EXCEPT ![TmpOf(p)] = NoFile]
    /\ Goto(p, "idle")
    /\ UNCHANGED <<old, new>>

(* The process is killed, or its last rename fails: every file stays.          *)
Die(p) ==
    /\ pc[p] # "idle"
    /\ Goto(p, "idle")
    /\ UNCHANGED <<dot, old, tmp, new>>

Next ==
    \E p \in Procs :
        \/ Open(p) \/ WriteAll(p) \/ NoChange(p) \/ Change(p)
        \/ Backup(p) \/ Install(p) \/ Die(p)

Spec == Init /\ [][Next]_vars

-----------------------------------------------------------------------------
(* The configuration that can be had back: .config, or while there is none the *)
(* backup.                                                                     *)
Saved == IF dot = NoFile THEN old ELSE dot

(* conf_write: the last saved configuration can be had back at every moment,   *)
(* whichever processes save or die; it changes in one step, to a whole         *)
(* configuration that some process holds.                                      *)
SavesAtomic ==
    [][Saved' # Saved =>
        \E p \in Procs : pc[p] = "install" /\ pc'[p] = "idle" /\ Saved' = new[p]]_vars
=============================================================================
