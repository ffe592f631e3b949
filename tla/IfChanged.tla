------------------------------ MODULE IfChanged ------------------------------
(* One run of make over the objects of a directory: the pattern rules of       *)
(* generic/process.mk through if_changed_dep of include/define.mk, with        *)
(* fixdep recording what an object was built from. The objects of a run are    *)
(* built in parallel (make -j).                                                *)
EXTENDS BuildTree

VARIABLES
    obj,        \* each object file: what it was compiled from, or NoFile
    cmd,        \* each .<object>.cmd: recorded dependencies and command
    job,        \* where make is with each object
    mk,         \* the make run
    calm        \* no input changed since the make run began

makeVars == <<obj, cmd, job, mk, calm>>

(* The files the compiler reads, and the symbols their texts mention.          *)
ReadSet(o, t, h) == {SrcOf[o]} \cup Includes[t[SrcOf[o]]][h]
Mentioned(fs, t) == UNION {Mentions[t[f]] : f \in fs}

HeaderView == IF header = NoFile THEN AllUnset ELSE header

(* What the compiler makes of a tree, a configuration and a command line.       *)
Image(o, t, h, fl) ==
    LET rd == ReadSet(o, t, h) IN
    [files |-> [f \in rd |-> t[f]],
     cfg |-> [s \in Mentioned(rd, t) |-> h[s]],
     flags |-> fl]

(* What a compilation would produce now.                                       *)
Compile(o) == Image(o, tree, HeaderView, flags)

JobStates == {"none", "todo", "cc", "dep", "ok"}
MakeStates == {"idle", "run", "fail", "done"}

PartialTree == UNION {[F -> Contents] : F \in SUBSET Files}
PartialConf == UNION {[S -> Values] : S \in SUBSET Syms}

Images == [files : PartialTree, cfg : PartialConf, flags : Flags]
Cmds == [deps : SUBSET Files, syms : SUBSET Syms, flags : Flags]

ASSUME NoFileAssumption == NoFile \notin Images /\ NoFile \notin Cmds

MakeTypeOK ==
    /\ obj \in [Objs -> Images \cup {NoFile}]
    /\ cmd \in [Objs -> Cmds \cup {NoFile}]
    /\ job \in [Objs -> JobStates]
    /\ mk \in MakeStates
    /\ calm \in BOOLEAN

MakeInit ==
    /\ obj = [o \in Objs |-> NoFile]
    /\ cmd = [o \in Objs |-> NoFile]
    /\ job = [o \in Objs |-> "none"]
    /\ mk = "idle"
    /\ calm = FALSE

-----------------------------------------------------------------------------
(* The prerequisites make knows: the .c file of the pattern rule, and what the *)
(* .cmd file adds.                                                             *)
Recorded(o) ==
    {SrcOf[o]} \cup (IF cmd[o] = NoFile THEN {} ELSE cmd[o].deps \cup cmd[o].syms)

(* A mutant: the .cmd file is not read back, only the pattern rule counts.     *)
NewerPrereqsOfRule(o) == newer[o] \cap {SrcOf[o]}

(* newer-prereqs: $? without the phony targets.                                *)
NewerPrereqs(o) == newer[o] \cap Recorded(o)

(* cmd-check: only whether a command was saved.                                *)
CmdCheck(o) == cmd[o] = NoFile

NeedsBuild(o) == obj[o] = NoFile \/ CmdCheck(o) \/ NewerPrereqs(o) # {}

MakeStart ==
    /\ mk \in {"idle", "done"}
    /\ job' = [o \in Objs |-> "todo"]
    /\ mk' = "run"
    /\ calm' = TRUE
    /\ UNCHANGED <<obj, cmd, treeVars>>

JobSkip(o) ==
    /\ mk = "run"
    /\ job[o] = "todo"
    /\ ~NeedsBuild(o)
    /\ job' = [job EXCEPT ![o] = "ok"]
    /\ UNCHANGED <<obj, cmd, mk, calm, treeVars>>

JobStart(o) ==
    /\ mk = "run"
    /\ job[o] = "todo"
    /\ NeedsBuild(o)
    /\ job' = [job EXCEPT ![o] = "cc"]
    /\ UNCHANGED <<obj, cmd, mk, calm, treeVars>>

(* The compiler writes the object and the depfile.                             *)
CcDone(o) ==
    /\ job[o] = "cc"
    /\ header # NoFile
    /\ obj' = [obj EXCEPT ![o] = Compile(o)]
    /\ newer' = [newer EXCEPT ![o] = {}]
    /\ job' = [job EXCEPT ![o] = "dep"]
    /\ UNCHANGED <<cmd, mk, calm, kconf, dot, auto, header, tree, flags>>

(* The compiler fails, and removes the object or leaves the old one.           *)
CcFail(o) ==
    /\ job[o] = "cc"
    /\ \E left \in {obj[o], NoFile} : obj' = [obj EXCEPT ![o] = left]
    /\ job' = [job EXCEPT ![o] = "none"]
    /\ mk' = "fail"
    /\ UNCHANGED <<cmd, calm, treeVars>>

(* A mutant: fixdep greps the .c file only, not the headers it read.           *)
FixdepSourceOnly(o) ==
    /\ job[o] = "dep"
    /\ cmd' = [cmd EXCEPT ![o] = [deps |-> DOMAIN obj[o].files \ {SrcOf[o]},
                                  syms |-> Mentioned({SrcOf[o]}, tree),
                                  flags |-> obj[o].flags]]
    /\ job' = [job EXCEPT ![o] = "ok"]
    /\ UNCHANGED <<obj, mk, calm, treeVars>>

(* fixdep lists the files of the depfile but the .c file and autoconf.h, and   *)
(* the CONFIG_ words it finds in those files as they are now; the .tmp file is *)
(* moved over the .cmd file.                                                   *)
FixdepDone(o) ==
    /\ job[o] = "dep"
    /\ LET read == DOMAIN obj[o].files IN
        cmd' = [cmd EXCEPT ![o] = [deps |-> read \ {SrcOf[o]},
                                   syms |-> Mentioned(read, tree),
                                   flags |-> obj[o].flags]]
    /\ job' = [job EXCEPT ![o] = "ok"]
    /\ UNCHANGED <<obj, mk, calm, treeVars>>

(* fixdep or mv fails, or the shell is killed: the new object stays beside the *)
(* old .cmd file, there is no .DELETE_ON_ERROR.                                *)
RecipeCut(o) ==
    /\ "recipe_cut" \in Faults
    /\ job[o] = "dep"
    /\ job' = [job EXCEPT ![o] = "none"]
    /\ mk' = "fail"
    /\ UNCHANGED <<obj, cmd, calm, treeVars>>

(* Without -k a failed run starts no further recipe and waits for the others.  *)
MakeEnd ==
    \/ /\ mk = "run"
       /\ \A o \in Objs : job[o] = "ok"
       /\ mk' = "done"
       /\ job' = [o \in Objs |-> "none"]
       /\ UNCHANGED <<obj, cmd, calm, treeVars>>
    \/ /\ mk = "fail"
       /\ \A o \in Objs : job[o] \notin {"cc", "dep"}
       /\ mk' = "idle"
       /\ job' = [o \in Objs |-> "none"]
       /\ UNCHANGED <<obj, cmd, calm, treeVars>>

(* SIGINT: make deletes the targets its running recipes have changed.          *)
Interrupt ==
    /\ mk \in {"run", "fail"}
    /\ obj' = [o \in Objs |-> IF job[o] = "dep" THEN NoFile ELSE obj[o]]
    /\ job' = [o \in Objs |-> "none"]
    /\ mk' = "idle"
    /\ UNCHANGED <<cmd, calm, treeVars>>

(* The steps of a recipe that goes well.                                       *)
JobRuns(o) == JobSkip(o) \/ JobStart(o) \/ CcDone(o) \/ FixdepDone(o)

JobStep(o) == JobRuns(o) \/ CcFail(o) \/ RecipeCut(o)

Building == mk \in {"run", "fail"}
=============================================================================
