-------------------------- MODULE IncrementalBuild --------------------------
(* The project under development: its sources and Kconfig are edited, make     *)
(* *config and make are run again and again, each may fail or be killed. conf  *)
(* and make communicate only through files.                                    *)
EXTENDS SyncConfig, IfChanged

vars == <<treeVars, confVars, makeVars>>

Init ==
    /\ TreeInit
    /\ conf = NoConf
    /\ synced = FALSE
    /\ MakeInit

Compiling == \E o \in Objs : job[o] = "cc"

(* An editor replaces a source file. A file saved between the compiler's       *)
(* reading it and the object's time stamp is lost to every make: that window   *)
(* is left out.                                                                *)
EditFile(f) ==
    /\ ~Compiling
    /\ \E c \in Versions[f] \ {tree[f]} : tree' = [tree EXCEPT ![f] = c]
    /\ Touch(f)
    /\ calm' = FALSE
    /\ UNCHANGED <<kconf, dot, auto, header, flags, confVars, obj, cmd, job, mk>>

(* A symbol's declaration is removed from the Kconfig files or comes back.     *)
EditKconfig(s) ==
    /\ conf.pc = "idle"
    /\ \E d \in Decls \ {kconf[s]} :
        /\ \/ d \in {TypeOf[s], "absent"}
           \/ "retype" \in Faults /\ d \in Types
           \/ "referenced" \in Faults /\ d = "unknown"
        /\ kconf' = [kconf EXCEPT ![s] = d]
    /\ UNCHANGED <<dot, auto, header, tree, flags, newer, confVars, makeVars>>

HandEdit ==
    /\ "hand_edit" \in Faults
    /\ conf.pc = "idle"
    /\ \E c \in WellTyped : dot' = c
    /\ UNCHANGED <<kconf, auto, header, tree, flags, newer, confVars, makeVars>>

EditFlags ==
    /\ "reflag" \in Faults
    /\ ~Compiling
    /\ \E v \in Flags \ {flags} : flags' = v
    /\ calm' = FALSE
    /\ UNCHANGED <<kconf, dot, auto, header, tree, newer, confVars,
                   obj, cmd, job, mk>>

(* One make at a time: *config and build are not run concurrently, and a build *)
(* is started after a *config that ended well.                                 *)
ByConf(step) ==
    /\ ~Building
    /\ step
    /\ calm' = FALSE
    /\ UNCHANGED <<obj, cmd, job, mk>>

Conf == ByConf(ConfStep)

Start ==
    /\ conf.pc = "idle"
    /\ synced \/ "build_unsynced" \in Faults
    /\ MakeStart
    /\ UNCHANGED confVars

Work ==
    /\ \/ \E o \in Objs : JobStep(o)
       \/ MakeEnd
       \/ Interrupt
    /\ UNCHANGED confVars

Next ==
    \/ \E f \in Files : EditFile(f)
    \/ \E s \in Syms : EditKconfig(s)
    \/ HandEdit
    \/ EditFlags
    \/ Conf
    \/ Start
    \/ Work

Spec == Init /\ [][Next]_vars

TypeOK == TreeTypeOK /\ SyncTypeOK /\ MakeTypeOK

-----------------------------------------------------------------------------
(* An object make would keep.                                                  *)
Kept(o) == job[o] # "dep" /\ ~NeedsBuild(o)

(* The .cmd file was made for this object file, and not for an earlier one.     *)
Describes(o) ==
    /\ cmd[o] # NoFile
    /\ cmd[o].deps = DOMAIN obj[o].files \ {SrcOf[o]}
    /\ DOMAIN obj[o].cfg \subseteq cmd[o].syms

SourcesMatch(o) == \A f \in DOMAIN obj[o].files : obj[o].files[f] = tree[f]
ConfigMatches(o) == \A s \in DOMAIN obj[o].cfg : obj[o].cfg[s] = HeaderView[s]

(* fixdep.c, "if any of the files the compiler read changed, we need to        *)
(* rebuild": the files an object was compiled from are unchanged as long as    *)
(* make would keep it.                                                         *)
KeptMatchesSources == \A o \in Objs : Kept(o) => SourcesMatch(o)

(* fixdep.c, the objects that depend on a changed option are rebuilt: the      *)
(* options an object was compiled with have the values of autoconf.h as long   *)
(* as make would keep it.                                                      *)
KeptMatchesConfig == \A o \in Objs : Kept(o) => ConfigMatches(o)

(* When recipes may be cut off it is the pair of object and .cmd file that is  *)
(* right: an object whose .cmd file is its own is kept only while both its     *)
(* sources and its options are unchanged.                                      *)
DescribedMatches ==
    \A o \in Objs : Kept(o) /\ Describes(o) => SourcesMatch(o) /\ ConfigMatches(o)

(* The last run of make ended well and nothing it depends on changed since.    *)
UpToDate == mk = "done" /\ calm

(* A finished build is what a build from scratch gives, and another make would *)
(* compile nothing.                                                            *)
DoneIsFresh ==
    UpToDate => \A o \in Objs : ~NeedsBuild(o) /\ obj[o] = Compile(o)

-----------------------------------------------------------------------------
(* The promise, with the objects make would keep read off the .cmd files and   *)
(* the time stamps.                                                            *)
Cache == INSTANCE BuildCache WITH
    inputs <- <<tree, HeaderView, flags>>,
    product <- obj,
    kept <- {o \in Objs : Kept(o)},
    FromScratch <- LAMBDA o, in : Image(o, in[1], in[2], in[3])

(* define.mk and fixdep.c implement the cache: an object is reused only while  *)
(* it is right, and no object that is right to reuse is compiled again.        *)
ImplementsCache == Cache!Spec

-----------------------------------------------------------------------------
(* The scheduling of processes: a started conf run and a started make run take *)
(* their steps. The developer repeats a *config that failed, and runs make.    *)
RetryConfig == ~synced /\ ByConf(ConfStart)

Fairness ==
    /\ WF_vars(ByConf(ConfRuns))
    /\ WF_vars(RetryConfig)
    /\ WF_vars(Start)
    /\ \A o \in Objs : WF_vars(JobRuns(o) /\ UNCHANGED confVars)
    /\ WF_vars(MakeEnd /\ UNCHANGED confVars)

FairSpec == Spec /\ Fairness

(* Edits, new configurations, and commands that fail or are killed.            *)
Disturbance ==
    \/ tree' # tree
    \/ kconf' # kconf
    \/ synced /\ ~synced'
    \/ conf.pc # "idle" /\ conf'.pc = "idle" /\ ~synced'
    \/ mk # "fail" /\ mk' = "fail"
    \/ mk = "run" /\ mk' = "idle"

(* Whatever was interrupted, killed or half done before: when the disturbances *)
(* stop, make brings the tree up to date, and does so again and again.         *)
Recovers == <>[][~Disturbance]_vars => []<>UpToDate
=============================================================================
