---------------------- MODULE IncrementalBuild_proofs ----------------------
(* Proofs about the incremental build, for every set of symbols, objects,      *)
(* files and texts.                                                            *)
EXTENDS IncrementalBuild, TLAPS

LEMMA HeaderViewType == TypeOK => HeaderView \in Configs
BY DEF TypeOK, TreeTypeOK, HeaderView, AllUnset, Configs, Values

LEMMA OldAutoType == TypeOK => OldAuto \in Configs
BY DEF TypeOK, TreeTypeOK, OldAuto, AllUnset, Configs, Values

(* What the compiler leaves is an image, and its file list starts with the .c. *)
LEMMA CompileType ==
    ASSUME TypeOK, NEW o \in Objs
    PROVE  /\ Compile(o) \in Images
           /\ SrcOf[o] \in DOMAIN Compile(o).files
<1>1. HeaderView \in Configs
  BY HeaderViewType
<1> DEFINE rd == ReadSet(o, tree, HeaderView)
           ms == Mentioned(rd, tree)
<1>2. SrcOf[o] \in Files /\ tree \in [Files -> Contents] /\ flags \in Flags
  BY NamesAssumption DEF TypeOK, TreeTypeOK
<1>3. rd \subseteq Files
  BY <1>1, <1>2, ContentsAssumption DEF ReadSet
<1>4. ms \subseteq Syms
  BY <1>2, <1>3, ContentsAssumption DEF Mentioned
<1>5. [f \in rd |-> tree[f]] \in PartialTree
  <2>1. [f \in rd |-> tree[f]] \in [rd -> Contents]
    BY <1>2, <1>3
  <2> QED BY <2>1, <1>3 DEF PartialTree
<1>6. [s \in ms |-> HeaderView[s]] \in PartialConf
  <2>1. [s \in ms |-> HeaderView[s]] \in [ms -> Values]
    BY <1>1, <1>4 DEF Configs
  <2> QED BY <2>1, <1>4 DEF PartialConf
<1>7. SrcOf[o] \in rd
  BY DEF ReadSet
<1>8. Compile(o) = [files |-> [f \in rd |-> tree[f]],
                    cfg |-> [s \in ms |-> HeaderView[s]], flags |-> flags]
  BY DEF Compile, Image
<1> HIDE DEF rd, ms
<1> QED BY <1>2, <1>5, <1>6, <1>7, <1>8 DEF Images

-----------------------------------------------------------------------------
(* Type correctness.                                                           *)

(* A second conf run finds a .config: the first one saved it.                  *)
SavedDot == conf.pc \in {"autoconf", "touch", "auto", "next"} => dot \in Configs

(* Between the compiler and fixdep there is an object.                         *)
MadeObject == \A o \in Objs : job[o] = "dep" => obj[o] \in Images

TypeInv == TypeOK /\ SavedDot /\ MadeObject

LEMMA TypeInit == Init => TypeInv
<1> SUFFICES ASSUME Init PROVE TypeInv
  OBVIOUS
<1> USE DEF Init, TreeInit, MakeInit
<1>1. TreeTypeOK
  BY NamesAssumption, ContentsAssumption DEF TreeTypeOK, Decls
<1>2. SyncTypeOK
  BY DEF SyncTypeOK, NoConf, AllUnset, Configs, Values
<1>3. MakeTypeOK
  BY DEF MakeTypeOK, JobStates, MakeStates
<1> QED BY <1>1, <1>2, <1>3 DEF TypeInv, TypeOK, SavedDot, MadeObject, NoConf

LEMMA TouchType ==
    ASSUME TypeOK, NEW p \in Prereqs, Touch(p)
    PROVE  newer' \in [Objs -> SUBSET Prereqs]
BY DEF TypeOK, TreeTypeOK, Touch

LEMMA ConfStepType ==
    ASSUME TypeInv, ConfStep
    PROVE  TreeTypeOK' /\ SyncTypeOK' /\ SavedDot'
<1> USE DEF TypeInv, TypeOK, SavedDot, TreeTypeOK, SyncTypeOK, treeVars
<1>1. CASE ConfStart
  <2>1. PICK new \in WellTyped, sync \in BOOLEAN :
            conf' = [pc |-> "write", sync |-> sync, last |-> FALSE,
                     new |-> new, todo |-> {}]
    BY <1>1 DEF ConfStart
  <2>2. new \in Configs
    BY DEF WellTyped
  <2> QED BY <1>1, <2>1, <2>2 DEF ConfStart
<1>2. CASE ConfSave
  BY <1>2 DEF ConfSave
<1>3. CASE ReadOldAuto
  BY <1>3 DEF ReadOldAuto, TouchSet
<1>4. CASE RenameHeader
  BY <1>4 DEF RenameHeader
<1>5. CASE RenameAuto
  BY <1>5 DEF RenameAuto, NoConf, AllUnset, Configs, Values
<1>6. CASE ConfResync
  BY <1>6 DEF ConfResync
<1>7. CASE AutoconfFails
  BY <1>7 DEF AutoconfFails
<1>8. CASE ConfDies
  BY <1>8 DEF ConfDies, NoConf, AllUnset, Configs, Values
<1>9. ASSUME NEW s \in Syms, TouchDep(s)
      PROVE TreeTypeOK' /\ SyncTypeOK' /\ SavedDot'
  BY <1>9, TouchType DEF TouchDep, Prereqs
<1> QED BY <1>1, <1>2, <1>3, <1>4, <1>5, <1>6, <1>7, <1>8, <1>9
        DEF ConfStep, ConfRuns

LEMMA FixdepType ==
    ASSUME TypeInv, NEW o \in Objs, FixdepDone(o)
    PROVE  \E r \in Cmds : cmd' = [cmd EXCEPT ![o] = r]
<1> DEFINE read == DOMAIN obj[o].files
           rec == [deps |-> read \ {SrcOf[o]}, syms |-> Mentioned(read, tree),
                   flags |-> obj[o].flags]
<1>1. obj[o] \in Images
  BY DEF FixdepDone, TypeInv, MadeObject
<1>2. read \subseteq Files /\ obj[o].flags \in Flags
  BY <1>1 DEF Images, PartialTree
<1>3. Mentioned(read, tree) \subseteq Syms
  BY <1>2, ContentsAssumption DEF Mentioned, TypeInv, TypeOK, TreeTypeOK
<1>4. rec \in Cmds
  BY <1>2, <1>3 DEF Cmds
<1>5. cmd' = [cmd EXCEPT ![o] = rec]
  BY DEF FixdepDone
<1> QED BY <1>4, <1>5

LEMMA JobType ==
    ASSUME TypeInv, NEW o \in Objs, JobStep(o), UNCHANGED confVars
    PROVE  TypeOK' /\ MadeObject'
<1> USE DEF TypeInv, TypeOK, MakeTypeOK, MadeObject, JobStates, MakeStates
<1>1. SyncTypeOK'
  BY DEF SyncTypeOK, confVars
<1>2. TreeTypeOK' /\ MakeTypeOK' /\ MadeObject'
  <2> USE DEF TreeTypeOK, treeVars
  <2>1. CASE JobSkip(o)
    BY <2>1 DEF JobSkip
  <2>2. CASE JobStart(o)
    BY <2>2 DEF JobStart
  <2>3. CASE CcDone(o)
    BY <2>3, CompileType DEF CcDone
  <2>4. CASE CcFail(o)
    BY <2>4 DEF CcFail
  <2>5. CASE FixdepDone(o)
    BY <2>5, FixdepType DEF FixdepDone
  <2>6. CASE RecipeCut(o)
    BY <2>6 DEF RecipeCut
  <2> QED BY <2>1, <2>2, <2>3, <2>4, <2>5, <2>6 DEF JobStep, JobRuns
<1> QED BY <1>1, <1>2

LEMMA TypeNext == TypeInv /\ [Next]_vars => TypeInv'
<1> SUFFICES ASSUME TypeInv, [Next]_vars PROVE TypeInv'
  OBVIOUS
<1> USE DEF TypeInv
<1>1. ASSUME NEW f \in Files, EditFile(f) PROVE TypeInv'
  BY <1>1, TouchType, ContentsAssumption
  DEF EditFile, TypeOK, TreeTypeOK, SyncTypeOK, MakeTypeOK, confVars, Prereqs,
      SavedDot, MadeObject
<1>2. ASSUME NEW s \in Syms, EditKconfig(s) PROVE TypeInv'
  BY <1>2 DEF EditKconfig, TypeOK, TreeTypeOK, SyncTypeOK, MakeTypeOK, confVars,
              makeVars, SavedDot, MadeObject
<1>3. CASE HandEdit
  BY <1>3 DEF HandEdit, WellTyped, TypeOK, TreeTypeOK, SyncTypeOK, MakeTypeOK,
              confVars, makeVars, SavedDot, MadeObject
<1>4. CASE EditFlags
  BY <1>4 DEF EditFlags, TypeOK, TreeTypeOK, SyncTypeOK, MakeTypeOK, confVars,
              SavedDot, MadeObject
<1>5. CASE Conf
  <2>1. ConfStep /\ calm' = FALSE /\ UNCHANGED <<obj, cmd, job, mk>>
    BY <1>5 DEF Conf, ByConf
  <2>2. MakeTypeOK' /\ MadeObject'
    BY <2>1 DEF TypeOK, MakeTypeOK, MadeObject
  <2> QED BY <2>1, <2>2, ConfStepType DEF TypeOK
<1>6. CASE Start
  BY <1>6 DEF Start, MakeStart, TypeOK, TreeTypeOK, SyncTypeOK, MakeTypeOK,
              JobStates, MakeStates, treeVars, confVars, SavedDot, MadeObject
<1>7. ASSUME NEW o \in Objs, JobStep(o), UNCHANGED confVars PROVE TypeInv'
  <2>1. dot' = dot
    BY <1>7 DEF JobStep, JobRuns, JobSkip, JobStart, CcDone, CcFail, FixdepDone,
                RecipeCut, treeVars
  <2> QED BY <1>7, <2>1, JobType DEF SavedDot, confVars, Configs
<1>8. CASE MakeEnd /\ UNCHANGED confVars
  BY <1>8 DEF MakeEnd, TypeOK, TreeTypeOK, SyncTypeOK, MakeTypeOK, JobStates,
              MakeStates, treeVars, confVars, SavedDot, MadeObject
<1>9. CASE Interrupt /\ UNCHANGED confVars
  BY <1>9 DEF Interrupt, TypeOK, TreeTypeOK, SyncTypeOK, MakeTypeOK, JobStates,
              MakeStates, treeVars, confVars, SavedDot, MadeObject
<1>10. CASE UNCHANGED vars
  BY <1>10 DEF vars, TypeOK, TreeTypeOK, SyncTypeOK, MakeTypeOK, treeVars,
               confVars, makeVars, SavedDot, MadeObject
<1> QED BY <1>1, <1>2, <1>3, <1>4, <1>5, <1>6, <1>7, <1>8, <1>9, <1>10
        DEF Next, Work

(* Every variable keeps its type, whatever fails.                              *)
THEOREM TypeCorrect == Spec => []TypeOK
<1>1. Spec => []TypeInv
  BY TypeInit, TypeNext, PTL DEF Spec
<1> QED BY <1>1, PTL DEF TypeInv
-----------------------------------------------------------------------------
(* The sources an object was compiled from.                                    *)

(* Every file the compiler read is as it was then, or newer than the object.    *)
SourcesAged ==
    \A o \in Objs : obj[o] # NoFile =>
        \A f \in DOMAIN obj[o].files : obj[o].files[f] = tree[f] \/ f \in newer[o]

(* Outside a recipe the .cmd file names every file the compiler read. It is    *)
(* what a recipe that is cut off destroys.                                     *)
FilesListed ==
    \A o \in Objs :
        obj[o] # NoFile /\ cmd[o] # NoFile /\ job[o] # "dep"
            => DOMAIN obj[o].files \subseteq cmd[o].deps \cup {SrcOf[o]}

LEMMA ImageFiles ==
    ASSUME NEW o \in Objs, NEW f \in DOMAIN Compile(o).files
    PROVE  Compile(o).files[f] = tree[f]
BY DEF Compile, Image

(* Recipes run only while make does.                                           *)
NoJobLeft == Building \/ \A o \in Objs : job[o] = "none"

LEMMA NoJobLeftNext == TypeInv /\ NoJobLeft /\ [Next]_vars => NoJobLeft'
<1> SUFFICES ASSUME TypeInv, NoJobLeft, [Next]_vars PROVE NoJobLeft'
  OBVIOUS
<1> USE DEF NoJobLeft, Building
<1>1. ASSUME NEW o \in Objs, JobStep(o) PROVE NoJobLeft'
  BY <1>1 DEF JobStep, JobRuns, JobSkip, JobStart, CcDone, CcFail, FixdepDone,
              RecipeCut
<1>2. CASE Start \/ MakeEnd \/ Interrupt
  BY <1>2 DEF Start, MakeStart, MakeEnd, Interrupt
<1>3. CASE UNCHANGED <<job, mk>>
  BY <1>3
<1> QED
  BY <1>1, <1>2, <1>3
  DEF Next, Work, EditFile, EditKconfig, HandEdit, EditFlags, Conf, ByConf, vars,
      makeVars

LEMMA SourcesAgedNext ==
    TypeInv /\ SourcesAged /\ [Next]_vars => SourcesAged'
<1> SUFFICES ASSUME TypeInv, SourcesAged, [Next]_vars PROVE SourcesAged'
  OBVIOUS
<1> USE DEF SourcesAged
<1>1. ASSUME NEW f \in Files, EditFile(f) PROVE SourcesAged'
  <2>1. \A g \in Files \ {f} : tree'[g] = tree[g]
    BY <1>1 DEF EditFile, TypeInv, TypeOK, TreeTypeOK
  <2>2. \A o \in Objs : newer'[o] = newer[o] \cup {f}
    BY <1>1 DEF EditFile, Touch
  <2>3. \A o \in Objs : obj[o] # NoFile => DOMAIN obj[o].files \subseteq Files
    BY DEF TypeInv, TypeOK, MakeTypeOK, Images, PartialTree
  <2>4. obj' = obj
    BY <1>1 DEF EditFile
  <2> QED BY <2>1, <2>2, <2>3, <2>4
<1>2. CASE Conf
  <2>1. obj' = obj
    BY <1>2 DEF Conf, ByConf
  <2>2. tree' = tree /\ \A o \in Objs : newer[o] \subseteq newer'[o]
    BY <1>2 DEF Conf, ByConf, ConfStep, ConfRuns, ConfStart, ConfSave, ReadOldAuto,
                RenameHeader, RenameAuto, ConfResync, TouchDep, Touch, ConfDies,
                AutoconfFails, treeVars
  <2> QED BY <2>1, <2>2
<1>3. ASSUME NEW o \in Objs, JobStep(o) PROVE SourcesAged'
  <2>1. CASE CcDone(o)
    <3>1. obj' = [obj EXCEPT ![o] = Compile(o)] /\ tree' = tree
      BY <2>1 DEF CcDone
    <3>2. \A p \in Objs : newer'[p] = IF p = o THEN {} ELSE newer[p]
      BY <2>1 DEF CcDone, TypeInv, TypeOK, TreeTypeOK
    <3>3. \A p \in Objs : obj'[p] = IF p = o THEN Compile(o) ELSE obj[p]
      BY <3>1 DEF TypeInv, TypeOK, MakeTypeOK
    <3> QED BY <3>1, <3>2, <3>3, ImageFiles
  <2>2. CASE CcFail(o)
    BY <2>2 DEF CcFail, treeVars, TypeInv, TypeOK, MakeTypeOK
  <2>3. CASE JobSkip(o) \/ JobStart(o) \/ FixdepDone(o) \/ RecipeCut(o)
    BY <2>3 DEF JobSkip, JobStart, FixdepDone, RecipeCut, treeVars
  <2> QED BY <1>3, <2>1, <2>2, <2>3 DEF JobStep, JobRuns
<1>4. CASE Interrupt
  BY <1>4 DEF Interrupt, treeVars
<1>5. CASE UNCHANGED <<tree, newer, obj>>
  BY <1>5
<1> QED
  BY <1>1, <1>2, <1>3, <1>4, <1>5
  DEF Next, Work, EditKconfig, HandEdit, EditFlags, Start, MakeStart, MakeEnd,
      vars, treeVars, makeVars

LEMMA FilesListedNext ==
    ASSUME "recipe_cut" \notin Faults
    PROVE  TypeInv /\ NoJobLeft /\ FilesListed /\ [Next]_vars => FilesListed'
<1> SUFFICES ASSUME TypeInv, NoJobLeft, FilesListed, [Next]_vars
             PROVE  FilesListed'
  OBVIOUS
<1> USE DEF FilesListed
<1>1. ASSUME NEW o \in Objs, JobStep(o) PROVE FilesListed'
  <2> USE DEF TypeInv, TypeOK, MakeTypeOK
  <2>1. CASE CcDone(o)
    BY <2>1 DEF CcDone
  <2>2. CASE CcFail(o)
    BY <2>2 DEF CcFail
  <2>3. CASE FixdepDone(o)
    BY <2>3 DEF FixdepDone
  <2>4. CASE JobSkip(o) \/ JobStart(o)
    BY <2>4 DEF JobSkip, JobStart
  <2> QED BY <1>1, <2>1, <2>2, <2>3, <2>4 DEF JobStep, JobRuns, RecipeCut
<1>2. CASE Interrupt
  BY <1>2 DEF Interrupt
<1>3. CASE Start \/ MakeEnd
  BY <1>3 DEF Start, MakeStart, MakeEnd, NoJobLeft, Building
<1>4. CASE UNCHANGED <<obj, cmd, job>>
  BY <1>4
<1> QED
  BY <1>1, <1>2, <1>3, <1>4
  DEF Next, Work, EditFile, EditKconfig, HandEdit, EditFlags, Conf, ByConf, vars,
      makeVars

(* A kept object was compiled from the sources as they are, whatever conf does *)
(* and whatever happens to Kconfig, as long as no recipe is cut off between    *)
(* the compiler and mv.                                                        *)
THEOREM SourcesCorrect ==
    ASSUME "recipe_cut" \notin Faults
    PROVE  Spec => []KeptMatchesSources
<1>1. Init => TypeInv /\ SourcesAged /\ NoJobLeft /\ FilesListed
  BY TypeInit DEF Init, MakeInit, NoJobLeft, SourcesAged, FilesListed
<1>2. TypeInv /\ SourcesAged /\ NoJobLeft /\ FilesListed /\ [Next]_vars
        => (TypeInv /\ SourcesAged /\ NoJobLeft /\ FilesListed)'
  BY TypeNext, NoJobLeftNext, SourcesAgedNext, FilesListedNext
<1>3. SourcesAged /\ FilesListed => KeptMatchesSources
  BY DEF KeptMatchesSources, Kept, SourcesMatch, NeedsBuild, CmdCheck,
         NewerPrereqs, Recorded, SourcesAged, FilesListed
<1> QED BY <1>1, <1>2, <1>3, PTL DEF Spec
-----------------------------------------------------------------------------
(* The options an object was compiled with.                                    *)

Touched(s) == \A o \in Objs : s \in newer[o]

(* A symbol keeps its type, or its declaration goes away.                      *)
Declared == \A s \in Syms : kconf[s] \in {TypeOf[s], "absent"}

OldTyped == \A s \in Syms : OldAuto[s] \in Admits(TypeOf[s])

(* An interrupted conf leaves a header that differs from auto.conf only where  *)
(* the stamps were touched.                                                    *)
HeaderAged == \A s \in Syms : HeaderView[s] = OldAuto[s] \/ Touched(s)

ConfTyped == conf.pc # "idle" => \A s \in Syms : conf.new[s] \in Admits(kconf[s])
ConfSaved == conf.pc \in {"autoconf", "touch", "auto", "next"} => dot = conf.new
ConfTouched ==
    conf.pc = "touch" =>
        \A s \in Syms : conf.new[s] = OldAuto[s] \/ s \in conf.todo \/ Touched(s)
ConfNamed == conf.pc = "auto" => header = conf.new

ConfInv == ConfTyped /\ ConfSaved /\ ConfTouched /\ ConfNamed

(* A synchronised tree has one configuration, and only such a tree is built.   *)
OneConfig == synced => conf.pc = "idle" /\ header = auto
BuildSynced == Building => synced

(* An object was compiled with the options its sources mention, and they are   *)
(* as they were then, or newer than the object.                                *)
OptionsMentioned ==
    \A o \in Objs : obj[o] # NoFile =>
        DOMAIN obj[o].cfg = UNION {Mentions[obj[o].files[f]] : f \in DOMAIN obj[o].files}
OptionsAged ==
    \A o \in Objs : obj[o] # NoFile =>
        \A s \in DOMAIN obj[o].cfg : obj[o].cfg[s] = HeaderView[s] \/ s \in newer[o]

(* fixdep reads the sources later than the compiler: its list of symbols is    *)
(* complete for an object unless one of its files is newer.                    *)
OptionsListed ==
    \A o \in Objs :
        /\ obj[o] # NoFile /\ cmd[o] # NoFile /\ job[o] # "dep"
        /\ DOMAIN obj[o].files \cap newer[o] = {}
        => DOMAIN obj[o].cfg \subseteq cmd[o].syms
SyncInv ==
    /\ Declared
    /\ OldTyped
    /\ HeaderAged
    /\ ConfInv
    /\ OneConfig
    /\ BuildSynced

(* Builds follow a *config that ended well, and symbols keep their types or go. *)
Synchronised == Faults \cap {"build_unsynced", "retype", "referenced"} = {}

(* A disciplined use of the tree: what KeptMatchesConfig needs.                *)
Disciplined == Synchronised /\ "recipe_cut" \notin Faults

(* Without a change of type, conf_touch_deps finds exactly the symbols whose   *)
(* value changes.                                                              *)
LEMMA NeedsTouchExact ==
    ASSUME NEW s \in Syms, NEW old \in Admits(TypeOf[s]),
           kconf[s] \in {TypeOf[s], "absent"}, NEW new \in Admits(kconf[s])
    PROVE  NeedsTouch(kconf[s], old, new) <=> new # old
<1>1. TypeOf[s] \in Types
  BY NamesAssumption
<1>2. "absent" \notin Types /\ Admits("absent") = {"n"}
  BY DEF Types, Admits
<1>3. CASE kconf[s] = "absent"
  BY <1>2, <1>3 DEF NeedsTouch
<1>4. CASE kconf[s] = TypeOf[s]
  BY <1>1, <1>2, <1>4 DEF NeedsTouch, HasOld
<1> QED BY <1>3, <1>4

LEMMA AdmitsDeclared ==
    ASSUME Declared, NEW s \in Syms
    PROVE  Admits(kconf[s]) \subseteq Admits(TypeOf[s])
BY NamesAssumption DEF Declared, Admits, Types

LEMMA SyncConfStep ==
    ASSUME TypeInv, SyncInv, ConfStep, ~Building
    PROVE  (Declared /\ OldTyped /\ HeaderAged /\ ConfInv /\ OneConfig)'
<1> USE DEF SyncInv, ConfInv
<1>0. conf \in [pc : {"idle", "write", "autoconf", "touch", "auto", "next"},
                sync : BOOLEAN, last : BOOLEAN,
                new : Configs, todo : SUBSET Syms]
  BY DEF TypeInv, TypeOK, SyncTypeOK
<1> USE DEF Declared, OldTyped, HeaderAged, ConfTyped, ConfSaved, ConfTouched,
            ConfNamed, OneConfig
<1>1. CASE ConfStart
  <2>1. PICK new \in WellTyped, sync \in BOOLEAN :
            conf' = [pc |-> "write", sync |-> sync, last |-> FALSE,
                     new |-> new, todo |-> {}]
    BY <1>1 DEF ConfStart
  <2>2. synced' = FALSE /\ UNCHANGED <<kconf, dot, auto, header, newer>>
    BY <1>1 DEF ConfStart, treeVars
  <2>3. \A s \in Syms : new[s] \in Admits(kconf[s])
    BY DEF WellTyped
  <2> QED BY <2>1, <2>2, <2>3 DEF HeaderView, OldAuto, Touched
<1>2. CASE ConfSave
  BY <1>0, <1>2 DEF ConfSave, HeaderView, OldAuto, Touched
<1>3. CASE ReadOldAuto
  <2>1. /\ conf.pc = "autoconf"
        /\ conf' = [conf EXCEPT !.pc = "touch", !.todo = TouchSet(conf.new)]
        /\ UNCHANGED <<synced, kconf, dot, auto, header, newer>>
    BY <1>3 DEF ReadOldAuto, treeVars
  <2>2. \A s \in Syms : conf.new[s] = OldAuto[s] \/ s \in TouchSet(conf.new)
    BY <2>1, NeedsTouchExact DEF TouchSet
  <2> QED BY <1>0, <2>1, <2>2 DEF HeaderView, OldAuto, Touched
<1>4. CASE RenameHeader
  <2>1. /\ conf.pc = "touch" /\ conf.todo = {}
        /\ header' = conf.new
        /\ conf' = [conf EXCEPT !.pc = "auto"]
        /\ UNCHANGED <<synced, kconf, dot, auto, newer>>
    BY <1>4 DEF RenameHeader
  <2>2. header' # NoFile
    BY <1>0, <2>1, NamesAssumption
  <2>3. \A s \in Syms : HeaderView'[s] = OldAuto'[s] \/ Touched(s)'
    BY <2>1, <2>2 DEF HeaderView, OldAuto, Touched
  <2>4. ~synced'
    BY <2>1
  <2> QED BY <1>0, <2>1, <2>3, <2>4 DEF OldAuto
<1>5. CASE RenameAuto
  <2>1. /\ conf.pc = "auto"
        /\ auto' = conf.new
        /\ conf' = IF conf.last THEN NoConf ELSE [conf EXCEPT !.pc = "next"]
        /\ synced' = conf.last
        /\ UNCHANGED <<kconf, dot, header, newer>>
    BY <1>5 DEF RenameAuto
  <2>2. auto' = header' /\ auto' # NoFile /\ OldAuto' = conf.new
    BY <1>0, <2>1, NamesAssumption DEF OldAuto
  <2>3. \A s \in Syms : conf.new[s] \in Admits(TypeOf[s])
    BY <2>1, AdmitsDeclared
  <2>4. HeaderView' = OldAuto'
    BY <2>2 DEF HeaderView, OldAuto
  <2> QED BY <1>0, <2>1, <2>2, <2>3, <2>4 DEF NoConf
<1>6. CASE ConfResync
  BY <1>0, <1>6 DEF ConfResync, treeVars, HeaderView, OldAuto, Touched
<1>7. CASE AutoconfFails
  BY <1>0, <1>7 DEF AutoconfFails, treeVars, HeaderView, OldAuto, Touched
<1>8. CASE ConfDies
  BY <1>0, <1>8 DEF ConfDies, NoConf, treeVars, HeaderView, OldAuto, Touched
<1>9. ASSUME NEW s \in Syms, TouchDep(s)
      PROVE  (Declared /\ OldTyped /\ HeaderAged /\ ConfInv /\ OneConfig)'
  <2>1. /\ conf.pc = "touch" /\ s \in conf.todo
        /\ conf' = [conf EXCEPT !.todo = @ \ {s}]
        /\ UNCHANGED <<synced, kconf, dot, auto, header>>
    BY <1>9 DEF TouchDep
  <2>2. \A t \in Syms : Touched(t)' <=> Touched(t) \/ t = s
    BY <1>9 DEF TouchDep, Touch, Touched
  <2> QED BY <1>0, <2>1, <2>2 DEF HeaderView, OldAuto
<1> QED BY <1>1, <1>2, <1>3, <1>4, <1>5, <1>6, <1>7, <1>8, <1>9
        DEF ConfStep, ConfRuns
LEMMA SyncNext ==
    ASSUME Synchronised
    PROVE  TypeInv /\ NoJobLeft /\ SyncInv /\ [Next]_vars => SyncInv'
<1> SUFFICES ASSUME TypeInv, NoJobLeft, SyncInv, [Next]_vars PROVE SyncInv'
  OBVIOUS
<1>0. {"build_unsynced", "retype", "referenced"} \cap Faults = {}
  BY DEF Synchronised
<1>a. newer \in [Objs -> SUBSET Prereqs]
  BY DEF TypeInv, TypeOK, TreeTypeOK
<1> USE DEF SyncInv, ConfInv, Declared, OldTyped, HeaderAged, ConfTyped, ConfSaved,
            ConfTouched, ConfNamed, OneConfig, BuildSynced
<1>1. ASSUME NEW f \in Files, EditFile(f) PROVE SyncInv'
  <2>1. UNCHANGED <<kconf, dot, auto, header, conf, synced, mk>>
    BY <1>1 DEF EditFile, confVars
  <2>2. \A s \in Syms : Touched(s) => Touched(s)'
    BY <1>1 DEF EditFile, Touch, Touched
  <2> QED BY <2>1, <2>2 DEF HeaderView, OldAuto, Building
<1>2. ASSUME NEW s \in Syms, EditKconfig(s) PROVE SyncInv'
  <2>1. /\ conf.pc = "idle"
        /\ UNCHANGED <<dot, auto, header, newer, conf, synced, mk>>
    BY <1>2 DEF EditKconfig, confVars, makeVars
  <2>2. \A t \in Syms : kconf'[t] \in {TypeOf[t], "absent"}
    BY <1>0, <1>2 DEF EditKconfig, TypeInv, TypeOK, TreeTypeOK
  <2> QED BY <2>1, <2>2 DEF HeaderView, OldAuto, Touched, Building
<1>3. CASE HandEdit
  BY <1>3 DEF HandEdit, confVars, makeVars, HeaderView, OldAuto, Touched, Building
<1>4. CASE EditFlags
  BY <1>4 DEF EditFlags, confVars, HeaderView, OldAuto, Touched, Building
<1>5. CASE Conf
  <2>1. ConfStep /\ ~Building /\ mk' = mk
    BY <1>5 DEF Conf, ByConf
  <2>2. ~Building'
    BY <2>1 DEF Building
  <2> HIDE DEF ConfInv, Declared, OldTyped, HeaderAged, OneConfig
  <2> QED BY <2>1, <2>2, SyncConfStep
<1>6. CASE Start
  BY <1>0, <1>6 DEF Start, MakeStart, treeVars, confVars, HeaderView, OldAuto,
                    Touched
<1>7. ASSUME NEW o \in Objs, JobStep(o), UNCHANGED confVars PROVE SyncInv'
  <2>1. Building
    BY <1>7 DEF JobStep, JobRuns, JobSkip, JobStart, CcDone, CcFail, FixdepDone,
                RecipeCut, Building, NoJobLeft
  <2>2. UNCHANGED <<kconf, dot, auto, header, conf, synced>>
    BY <1>7 DEF JobStep, JobRuns, JobSkip, JobStart, CcDone, CcFail, FixdepDone,
                RecipeCut, treeVars, confVars
  <2>3. header = auto /\ conf.pc = "idle" /\ synced
    BY <2>1
  <2> QED BY <2>2, <2>3 DEF HeaderView, OldAuto
<1>8. CASE (MakeEnd \/ Interrupt) /\ UNCHANGED confVars
  BY <1>8 DEF MakeEnd, Interrupt, treeVars, confVars, HeaderView, OldAuto,
              Touched, Building
<1>9. CASE UNCHANGED vars
  BY <1>9 DEF vars, treeVars, confVars, makeVars, HeaderView, OldAuto, Touched,
              Building
<1> QED BY <1>1, <1>2, <1>3, <1>4, <1>5, <1>6, <1>7, <1>8, <1>9 DEF Next, Work

(* The compiler's image has the options that the texts it read mention.        *)
LEMMA ImageOptions ==
    ASSUME NEW o \in Objs
    PROVE  LET new == Compile(o) IN
           /\ DOMAIN new.cfg = UNION {Mentions[new.files[f]] : f \in DOMAIN new.files}
           /\ \A s \in DOMAIN new.cfg : new.cfg[s] = HeaderView[s]
<1> DEFINE rd == ReadSet(o, tree, HeaderView)
<1>1. /\ Compile(o).files = [f \in rd |-> tree[f]]
      /\ Compile(o).cfg = [s \in Mentioned(rd, tree) |-> HeaderView[s]]
  BY DEF Compile, Image
<1>2. UNION {Mentions[Compile(o).files[f]] : f \in DOMAIN Compile(o).files}
        = Mentioned(rd, tree)
  BY <1>1 DEF Mentioned
<1> QED BY <1>1, <1>2

LEMMA OptionsMentionedNext ==
    TypeInv /\ OptionsMentioned /\ [Next]_vars => OptionsMentioned'
<1> SUFFICES ASSUME TypeInv, OptionsMentioned, [Next]_vars PROVE OptionsMentioned'
  OBVIOUS
<1> USE DEF OptionsMentioned
<1>1. ASSUME NEW o \in Objs, JobStep(o) PROVE OptionsMentioned'
  <2>0. obj \in [Objs -> Images \cup {NoFile}]
    BY DEF TypeInv, TypeOK, MakeTypeOK
  <2>1. CASE CcDone(o)
    <3>1. obj' = [obj EXCEPT ![o] = Compile(o)]
      BY <2>1 DEF CcDone
    <3>2. \A p \in Objs : obj'[p] = IF p = o THEN Compile(o) ELSE obj[p]
      BY <2>0, <3>1
    <3> QED BY <3>2, ImageOptions
  <2>2. CASE CcFail(o)
    BY <2>0, <2>2 DEF CcFail
  <2>3. CASE JobSkip(o) \/ JobStart(o) \/ FixdepDone(o) \/ RecipeCut(o)
    BY <2>3 DEF JobSkip, JobStart, FixdepDone, RecipeCut
  <2> QED BY <1>1, <2>1, <2>2, <2>3 DEF JobStep, JobRuns
<1>2. CASE Interrupt
  BY <1>2 DEF Interrupt
<1>3. CASE obj' = obj
  BY <1>3
<1> QED
  BY <1>1, <1>2, <1>3
  DEF Next, Work, EditFile, EditKconfig, HandEdit, EditFlags, Conf, ByConf, Start,
      MakeStart, MakeEnd, vars, makeVars
LEMMA OptionsAgedNext ==
    TypeInv /\ SyncInv /\ OptionsAged /\ [Next]_vars => OptionsAged'
<1> SUFFICES ASSUME TypeInv, SyncInv, OptionsAged, [Next]_vars PROVE OptionsAged'
  OBVIOUS
<1> USE DEF OptionsAged
<1>0. \A o \in Objs : obj[o] # NoFile => DOMAIN obj[o].cfg \subseteq Syms
  BY DEF TypeInv, TypeOK, MakeTypeOK, Images, PartialConf
<1>1. CASE Conf
  <2>1. obj' = obj
    BY <1>1 DEF Conf, ByConf
  <2>2. CASE RenameHeader
    <3>1. conf.pc = "touch" /\ conf.todo = {} /\ header' = conf.new /\ newer' = newer
      BY <2>2 DEF RenameHeader
    <3>2. conf.new \in Configs
      BY DEF TypeInv, TypeOK, SyncTypeOK
    <3>3. HeaderView' = conf.new
      BY <3>1, <3>2, NamesAssumption DEF HeaderView
    <3>4. \A s \in Syms : HeaderView'[s] = HeaderView[s] \/ Touched(s)
      BY <3>1, <3>3 DEF SyncInv, ConfInv, ConfTouched, HeaderAged
    <3> QED BY <1>0, <2>1, <3>1, <3>4 DEF Touched
  <2>3. CASE ~RenameHeader
    <3>1. header' = header /\ \A o \in Objs : newer[o] \subseteq newer'[o]
      BY <1>1, <2>3
      DEF Conf, ByConf, ConfStep, ConfRuns, ConfStart, ConfSave, ReadOldAuto,
          RenameAuto, ConfResync, TouchDep, Touch, ConfDies, AutoconfFails, treeVars
    <3> QED BY <2>1, <3>1 DEF HeaderView
  <2> QED BY <2>2, <2>3
<1>2. ASSUME NEW f \in Files, EditFile(f) PROVE OptionsAged'
  BY <1>2 DEF EditFile, Touch, HeaderView
<1>3. ASSUME NEW o \in Objs, JobStep(o) PROVE OptionsAged'
  <2>0. /\ obj \in [Objs -> Images \cup {NoFile}]
        /\ newer \in [Objs -> SUBSET Prereqs]
    BY DEF TypeInv, TypeOK, MakeTypeOK, TreeTypeOK
  <2>1. CASE CcDone(o)
    <3>1. /\ obj' = [obj EXCEPT ![o] = Compile(o)]
          /\ newer' = [newer EXCEPT ![o] = {}]
          /\ header' = header
      BY <2>1 DEF CcDone
    <3>2. \A p \in Objs : p # o => obj'[p] = obj[p] /\ newer'[p] = newer[p]
      BY <2>0, <3>1
    <3>3. obj'[o] = Compile(o)
      BY <2>0, <3>1
    <3> QED BY <3>1, <3>2, <3>3, ImageOptions DEF HeaderView
  <2>2. CASE CcFail(o)
    BY <2>0, <2>2 DEF CcFail, treeVars, HeaderView
  <2>3. CASE JobSkip(o) \/ JobStart(o) \/ FixdepDone(o) \/ RecipeCut(o)
    BY <2>3 DEF JobSkip, JobStart, FixdepDone, RecipeCut, treeVars, HeaderView
  <2> QED BY <1>3, <2>1, <2>2, <2>3 DEF JobStep, JobRuns
<1>4. CASE Interrupt
  BY <1>4 DEF Interrupt, treeVars, HeaderView
<1>5. CASE UNCHANGED <<header, newer, obj>>
  BY <1>5 DEF HeaderView
<1> QED
  BY <1>1, <1>2, <1>3, <1>4, <1>5
  DEF Next, Work, EditKconfig, HandEdit, EditFlags, Start, MakeStart, MakeEnd,
      vars, treeVars, makeVars

LEMMA OptionsListedNext ==
    ASSUME Disciplined
    PROVE  /\ TypeInv /\ NoJobLeft /\ SourcesAged
           /\ OptionsMentioned /\ OptionsListed
           /\ [Next]_vars
           => OptionsListed'
<1> SUFFICES ASSUME TypeInv, NoJobLeft, SourcesAged, OptionsMentioned,
                    OptionsListed, [Next]_vars
             PROVE  OptionsListed'
  OBVIOUS
<1> USE DEF OptionsListed
<1>1. ASSUME UNCHANGED <<obj, cmd, job>>, \A o \in Objs : newer[o] \subseteq newer'[o]
      PROVE  OptionsListed'
  BY <1>1
<1>2. CASE Conf
  <2>1. \A o \in Objs : newer[o] \subseteq newer'[o]
    BY <1>2
    DEF Conf, ByConf, ConfStep, ConfRuns, ConfStart, ConfSave, ReadOldAuto,
        RenameHeader, RenameAuto, ConfResync, TouchDep, Touch, ConfDies,
        AutoconfFails, treeVars
  <2> QED BY <1>1, <1>2, <2>1 DEF Conf, ByConf
<1>3. ASSUME NEW f \in Files, EditFile(f) PROVE OptionsListed'
  BY <1>1, <1>3 DEF EditFile, Touch
<1>4. ASSUME NEW o \in Objs, JobStep(o) PROVE OptionsListed'
  <2>0. /\ obj \in [Objs -> Images \cup {NoFile}]
        /\ newer \in [Objs -> SUBSET Prereqs]
        /\ job \in [Objs -> JobStates]
        /\ cmd \in [Objs -> Cmds \cup {NoFile}]
    BY DEF TypeInv, TypeOK, MakeTypeOK, TreeTypeOK
  <2>1. CASE CcDone(o)
    BY <2>0, <2>1 DEF CcDone
  <2>2. CASE CcFail(o)
    BY <2>0, <2>2 DEF CcFail, treeVars
  <2>3. CASE FixdepDone(o)
    <3>1. /\ UNCHANGED <<obj, newer, tree>>
          /\ \A p \in Objs : p # o => cmd'[p] = cmd[p] /\ job'[p] = job[p]
      BY <2>0, <2>3 DEF FixdepDone, treeVars
    <3>2. cmd'[o].syms = Mentioned(DOMAIN obj[o].files, tree)
      BY <2>0, <2>3 DEF FixdepDone
    <3>3. ASSUME obj[o] # NoFile, DOMAIN obj[o].files \cap newer[o] = {}
          PROVE  DOMAIN obj[o].cfg \subseteq Mentioned(DOMAIN obj[o].files, tree)
      <4>1. \A f \in DOMAIN obj[o].files : obj[o].files[f] = tree[f]
        BY <3>3 DEF SourcesAged
      <4>2. DOMAIN obj[o].cfg =
              UNION {Mentions[obj[o].files[f]] : f \in DOMAIN obj[o].files}
        BY <3>3 DEF OptionsMentioned
      <4> QED BY <4>1, <4>2 DEF Mentioned
    <3> QED BY <3>1, <3>2, <3>3
  <2>4. CASE JobSkip(o) \/ JobStart(o)
    BY <2>0, <2>4 DEF JobSkip, JobStart, treeVars
  <2> QED BY <1>4, <2>1, <2>2, <2>3, <2>4 DEF JobStep, JobRuns, RecipeCut, Disciplined
<1>5. CASE Interrupt
  BY <1>5 DEF Interrupt, treeVars
<1>6. CASE Start \/ MakeEnd
  BY <1>6 DEF Start, MakeStart, MakeEnd, NoJobLeft, Building, treeVars
<1>7. CASE UNCHANGED <<obj, cmd, job, newer>>
  BY <1>7
<1> QED
  BY <1>2, <1>3, <1>4, <1>5, <1>6, <1>7
  DEF Next, Work, EditKconfig, HandEdit, EditFlags, vars, treeVars, makeVars

(* What an object that make keeps depends on.                                  *)
BuildInv ==
    /\ TypeInv
    /\ NoJobLeft
    /\ SourcesAged
    /\ FilesListed
    /\ SyncInv
    /\ OptionsMentioned
    /\ OptionsAged
    /\ OptionsListed

LEMMA BuildInvInit == Init => BuildInv
<1> SUFFICES ASSUME Init PROVE BuildInv
  OBVIOUS
<1>1. TypeInv
  BY TypeInit
<1>2. NoJobLeft /\ SourcesAged /\ FilesListed
  BY DEF Init, MakeInit, NoJobLeft, SourcesAged, FilesListed
<1>3. OptionsMentioned /\ OptionsAged /\ OptionsListed
  BY DEF Init, MakeInit, OptionsMentioned, OptionsAged, OptionsListed
<1>4. \A s \in Syms : "n" \in Admits(TypeOf[s])
  BY NamesAssumption DEF Types, Admits
<1>5. SyncInv
  BY <1>4
  DEF Init, TreeInit, MakeInit, NoConf, SyncInv, Declared, OldTyped, HeaderAged,
      ConfInv, ConfTyped, ConfSaved, ConfTouched, ConfNamed, OneConfig, BuildSynced,
      Building, OldAuto, HeaderView, AllUnset
<1> QED BY <1>1, <1>2, <1>3, <1>5 DEF BuildInv

LEMMA BuildInvNext ==
    ASSUME Disciplined
    PROVE  BuildInv /\ [Next]_vars => BuildInv'
<1>1. Synchronised /\ "recipe_cut" \notin Faults
  BY DEF Disciplined
<1> QED
  BY <1>1, TypeNext, NoJobLeftNext, SourcesAgedNext, FilesListedNext, SyncNext,
     OptionsMentionedNext, OptionsAgedNext, OptionsListedNext
  DEF BuildInv

LEMMA KeptCorrect ==
    ASSUME BuildInv, NEW o \in Objs, Kept(o)
    PROVE  SourcesMatch(o) /\ ConfigMatches(o)
<1>1. /\ obj[o] # NoFile /\ cmd[o] # NoFile /\ job[o] # "dep"
      /\ newer[o] \cap Recorded(o) = {}
  BY DEF Kept, NeedsBuild, CmdCheck, NewerPrereqs
<1>2. DOMAIN obj[o].files \cap newer[o] = {}
  BY <1>1 DEF BuildInv, FilesListed, Recorded
<1>3. DOMAIN obj[o].cfg \cap newer[o] = {}
  BY <1>1, <1>2 DEF BuildInv, OptionsListed, Recorded
<1> QED
  BY <1>1, <1>2, <1>3
  DEF BuildInv, SourcesAged, OptionsAged, SourcesMatch, ConfigMatches

(* A kept object was compiled with the options of the present configuration,   *)
(* whatever is killed, edited or reconfigured, when builds follow a *config    *)
(* that ended well, no symbol's type changes, no removed symbol is still       *)
(* referenced and no recipe is cut off.                                        *)
THEOREM ConfigCorrect ==
    ASSUME Disciplined
    PROVE  Spec => []KeptMatchesConfig
<1>1. BuildInv => KeptMatchesConfig
  BY KeptCorrect DEF KeptMatchesConfig
<1> QED BY <1>1, BuildInvInit, BuildInvNext, PTL DEF Spec

(* With recipes cut off at any moment the .cmd file may be an earlier object's; *)
(* an object that is described by its own is kept only while it is right.      *)
DescribedInv == TypeInv /\ NoJobLeft /\ SourcesAged /\ SyncInv /\ OptionsAged

THEOREM DescribedCorrect ==
    ASSUME Synchronised
    PROVE  Spec => []DescribedMatches
<1>1. Init => DescribedInv
  BY BuildInvInit DEF BuildInv, DescribedInv
<1>2. DescribedInv /\ [Next]_vars => DescribedInv'
  BY TypeNext, NoJobLeftNext, SourcesAgedNext, SyncNext, OptionsAgedNext
  DEF DescribedInv
<1>3. DescribedInv => DescribedMatches
  <2> SUFFICES ASSUME DescribedInv, NEW o \in Objs, Kept(o), Describes(o)
               PROVE  SourcesMatch(o) /\ ConfigMatches(o)
    BY DEF DescribedMatches
  <2>1. obj[o] # NoFile /\ newer[o] \cap Recorded(o) = {}
    BY DEF Kept, NeedsBuild, NewerPrereqs
  <2>2. DOMAIN obj[o].files \cup DOMAIN obj[o].cfg \subseteq Recorded(o)
    BY DEF Describes, Recorded
  <2> QED
    BY <2>1, <2>2
    DEF DescribedInv, SourcesAged, OptionsAged, SourcesMatch, ConfigMatches
<1> QED BY <1>1, <1>2, <1>3, PTL DEF Spec
-----------------------------------------------------------------------------
(* A finished build equals a build from scratch.                               *)

(* The files an object was compiled from are the ones its texts include under  *)
(* the options it was compiled with.                                           *)
FilesRead ==
    \A o \in Objs : obj[o] # NoFile =>
        /\ SrcOf[o] \in DOMAIN obj[o].files
        /\ \E h \in Configs :
            /\ \A s \in Mentions[obj[o].files[SrcOf[o]]] : h[s] = obj[o].cfg[s]
            /\ DOMAIN obj[o].files =
                 {SrcOf[o]} \cup Includes[obj[o].files[SrcOf[o]]][h]

FlagsKept == \A o \in Objs : obj[o] # NoFile => obj[o].flags = flags

(* While nothing changes, what make has passed stays up to date.               *)
Settled ==
    calm => /\ \A o \in Objs : job[o] = "dep" => newer[o] = {}
            /\ \A o \in Objs : job[o] = "ok" \/ mk = "done" => ~NeedsBuild(o)

LEMMA FilesReadNext == TypeInv /\ FilesRead /\ [Next]_vars => FilesRead'
<1> SUFFICES ASSUME TypeInv, FilesRead, [Next]_vars PROVE FilesRead'
  OBVIOUS
<1> USE DEF FilesRead
<1>1. ASSUME NEW o \in Objs, JobStep(o) PROVE FilesRead'
  <2>0. obj \in [Objs -> Images \cup {NoFile}]
    BY DEF TypeInv, TypeOK, MakeTypeOK
  <2>1. CASE CcDone(o)
    <3>1. \A p \in Objs : obj'[p] = IF p = o THEN Compile(o) ELSE obj[p]
      BY <2>0, <2>1 DEF CcDone
    <3>2. SrcOf[o] \in DOMAIN Compile(o).files
      BY CompileType DEF TypeInv
    <3>3. Compile(o).files[SrcOf[o]] = tree[SrcOf[o]]
      BY <3>2, ImageFiles
    <3>4. DOMAIN Compile(o).files =
            {SrcOf[o]} \cup Includes[tree[SrcOf[o]]][HeaderView]
      BY DEF Compile, Image, ReadSet
    <3>5. \A s \in Mentions[tree[SrcOf[o]]] : Compile(o).cfg[s] = HeaderView[s]
      BY <3>2, <3>3, ImageOptions
    <3>6. HeaderView \in Configs
      BY HeaderViewType DEF TypeInv
    <3> QED BY <3>1, <3>2, <3>3, <3>4, <3>5, <3>6
  <2>2. CASE CcFail(o)
    BY <2>0, <2>2 DEF CcFail
  <2>3. CASE JobSkip(o) \/ JobStart(o) \/ FixdepDone(o) \/ RecipeCut(o)
    BY <2>3 DEF JobSkip, JobStart, FixdepDone, RecipeCut
  <2> QED BY <1>1, <2>1, <2>2, <2>3 DEF JobStep, JobRuns
<1>2. CASE Interrupt
  BY <1>2 DEF Interrupt
<1>3. CASE obj' = obj
  BY <1>3
<1> QED
  BY <1>1, <1>2, <1>3
  DEF Next, Work, EditFile, EditKconfig, HandEdit, EditFlags, Conf, ByConf, Start,
      MakeStart, MakeEnd, vars, makeVars

LEMMA FlagsKeptNext ==
    ASSUME "reflag" \notin Faults
    PROVE  TypeInv /\ FlagsKept /\ [Next]_vars => FlagsKept'
<1> SUFFICES ASSUME TypeInv, FlagsKept, [Next]_vars PROVE FlagsKept'
  OBVIOUS
<1> USE DEF FlagsKept
<1>1. ASSUME NEW o \in Objs, JobStep(o) PROVE FlagsKept'
  <2>0. obj \in [Objs -> Images \cup {NoFile}]
    BY DEF TypeInv, TypeOK, MakeTypeOK
  <2>1. CASE CcDone(o)
    <3>1. \A p \in Objs : obj'[p] = IF p = o THEN Compile(o) ELSE obj[p]
      BY <2>0, <2>1 DEF CcDone
    <3> QED BY <2>1, <3>1 DEF CcDone, Compile, Image
  <2>2. CASE CcFail(o)
    BY <2>0, <2>2 DEF CcFail, treeVars
  <2>3. CASE JobSkip(o) \/ JobStart(o) \/ FixdepDone(o) \/ RecipeCut(o)
    BY <2>3 DEF JobSkip, JobStart, FixdepDone, RecipeCut, treeVars
  <2> QED BY <1>1, <2>1, <2>2, <2>3 DEF JobStep, JobRuns
<1>2. CASE Interrupt
  BY <1>2 DEF Interrupt, treeVars
<1>3. CASE Conf
  BY <1>3
  DEF Conf, ByConf, ConfStep, ConfRuns, ConfStart, ConfSave, ReadOldAuto,
      RenameHeader, RenameAuto, ConfResync, TouchDep, ConfDies, AutoconfFails,
      treeVars
<1>4. CASE UNCHANGED <<obj, flags>>
  BY <1>4
<1> QED
  BY <1>1, <1>2, <1>3, <1>4
  DEF Next, Work, EditFile, EditKconfig, HandEdit, EditFlags, Start, MakeStart,
      MakeEnd, vars, treeVars, makeVars

LEMMA SettledNext ==
    TypeInv /\ NoJobLeft /\ Settled /\ [Next]_vars => Settled'
<1> SUFFICES ASSUME TypeInv, NoJobLeft, Settled, [Next]_vars PROVE Settled'
  OBVIOUS
<1>0. /\ obj \in [Objs -> Images \cup {NoFile}]
      /\ newer \in [Objs -> SUBSET Prereqs]
      /\ job \in [Objs -> JobStates]
      /\ cmd \in [Objs -> Cmds \cup {NoFile}]
  BY DEF TypeInv, TypeOK, MakeTypeOK, TreeTypeOK
<1> USE DEF Settled, NeedsBuild, CmdCheck, NewerPrereqs, Recorded
<1>1. CASE calm' = FALSE
  BY <1>1
<1>2. CASE Start
  BY <1>2 DEF Start, MakeStart
<1>3. ASSUME NEW o \in Objs, JobStep(o) PROVE Settled'
  <2>1. Building
    BY <1>3 DEF JobStep, JobRuns, JobSkip, JobStart, CcDone, CcFail, FixdepDone,
                RecipeCut, Building, NoJobLeft
  <2>2. CASE JobSkip(o)
    BY <1>0, <2>2 DEF JobSkip, treeVars
  <2>3. CASE JobStart(o)
    BY <1>0, <2>3 DEF JobStart, treeVars
  <2>4. CASE CcDone(o)
    BY <1>0, <2>1, <2>4 DEF CcDone, Building
  <2>5. CASE CcFail(o)
    BY <1>0, <2>5 DEF CcFail, treeVars
  <2>6. CASE FixdepDone(o)
    <3>1. obj[o] # NoFile
      BY <2>6, NoFileAssumption DEF FixdepDone, TypeInv, MadeObject
    <3>2. /\ UNCHANGED <<obj, newer, mk, calm>>
          /\ \A p \in Objs : p # o => cmd'[p] = cmd[p] /\ job'[p] = job[p]
          /\ job'[o] = "ok" /\ job[o] = "dep"
      BY <1>0, <2>6 DEF FixdepDone, treeVars
    <3>3. cmd'[o] # NoFile
      BY <1>0, <2>6, FixdepType, NoFileAssumption
    <3>4. mk # "done"
      BY <2>1 DEF Building
    <3>5. calm => NewerPrereqs(o)' = {}
      BY <3>2
    <3> QED BY <3>1, <3>2, <3>3, <3>4, <3>5
  <2>7. CASE RecipeCut(o)
    BY <1>0, <2>7 DEF RecipeCut, treeVars
  <2> QED BY <1>3, <2>2, <2>3, <2>4, <2>5, <2>6, <2>7 DEF JobStep, JobRuns
<1>4. CASE MakeEnd
  BY <1>0, <1>4 DEF MakeEnd, treeVars
<1>5. CASE Interrupt
  BY <1>0, <1>5 DEF Interrupt, treeVars
<1>6. CASE UNCHANGED <<obj, cmd, job, newer, mk, calm>>
  BY <1>6
<1> QED
  BY <1>1, <1>2, <1>3, <1>4, <1>5, <1>6
  DEF Next, Work, EditFile, EditKconfig, HandEdit, EditFlags, Conf, ByConf, vars,
      treeVars, makeVars
FreshInv == BuildInv /\ FilesRead /\ FlagsKept /\ Settled

LEMMA FreshInvInit == Init => FreshInv
BY BuildInvInit DEF Init, MakeInit, FreshInv, FilesRead, FlagsKept, Settled

LEMMA FreshInvNext ==
    ASSUME Disciplined, "reflag" \notin Faults
    PROVE  FreshInv /\ [Next]_vars => FreshInv'
BY BuildInvNext, FilesReadNext, FlagsKeptNext, SettledNext DEF FreshInv, BuildInv

(* A kept object is the compiler's answer to the present inputs.               *)
LEMMA KeptFresh ==
    ASSUME FreshInv, NEW o \in Objs, Kept(o)
    PROVE  obj[o] = Compile(o)
<1> DEFINE src == SrcOf[o]
           rd == ReadSet(o, tree, HeaderView)
<1>1. obj[o] # NoFile /\ obj[o] \in Images
  BY DEF Kept, NeedsBuild, FreshInv, BuildInv, TypeInv, TypeOK, MakeTypeOK
<1>2. SourcesMatch(o) /\ ConfigMatches(o)
  BY KeptCorrect DEF FreshInv
<1>3. src \in DOMAIN obj[o].files /\ obj[o].files[src] = tree[src]
  BY <1>1, <1>2 DEF FreshInv, FilesRead, SourcesMatch
<1>4. PICK h \in Configs :
        /\ \A s \in Mentions[tree[src]] : h[s] = obj[o].cfg[s]
        /\ DOMAIN obj[o].files = {src} \cup Includes[tree[src]][h]
  BY <1>1, <1>3 DEF FreshInv, FilesRead
<1>5. DOMAIN obj[o].cfg = UNION {Mentions[obj[o].files[f]] : f \in DOMAIN obj[o].files}
  BY <1>1 DEF FreshInv, BuildInv, OptionsMentioned
<1>6. \A s \in Mentions[tree[src]] : h[s] = HeaderView[s]
  BY <1>2, <1>3, <1>4, <1>5 DEF ConfigMatches
<1>7. tree[src] \in Contents /\ HeaderView \in Configs
  BY HeaderViewType, NamesAssumption
  DEF FreshInv, BuildInv, TypeInv, TypeOK, TreeTypeOK
<1>8. DOMAIN obj[o].files = rd
  BY <1>4, <1>6, <1>7, GuardAssumption DEF ReadSet
<1>9. obj[o].files = [f \in rd |-> tree[f]]
  <2>1. obj[o].files = [f \in DOMAIN obj[o].files |-> obj[o].files[f]]
    BY <1>1 DEF Images, PartialTree
  <2> QED BY <1>2, <1>8, <2>1 DEF SourcesMatch
<1>10. obj[o].cfg = [s \in Mentioned(rd, tree) |-> HeaderView[s]]
  <2>1. obj[o].cfg = [s \in DOMAIN obj[o].cfg |-> obj[o].cfg[s]]
    BY <1>1 DEF Images, PartialConf
  <2>2. DOMAIN obj[o].cfg = Mentioned(rd, tree)
    BY <1>2, <1>5, <1>8 DEF SourcesMatch, Mentioned
  <2> QED BY <1>2, <2>1, <2>2 DEF ConfigMatches
<1>11. obj[o].flags = flags
  BY <1>1 DEF FreshInv, FlagsKept
<1>12. obj[o] = [files |-> obj[o].files, cfg |-> obj[o].cfg, flags |-> obj[o].flags]
  BY <1>1 DEF Images
<1>13. Compile(o) = [files |-> [f \in rd |-> tree[f]],
                     cfg |-> [s \in Mentioned(rd, tree) |-> HeaderView[s]],
                     flags |-> flags]
  BY DEF Compile, Image
<1> QED BY <1>9, <1>10, <1>11, <1>12, <1>13

(* A build that ended well and that nothing has disturbed since equals a build *)
(* from scratch, and a second make compiles nothing.                           *)
THEOREM BuildFresh ==
    ASSUME Disciplined, "reflag" \notin Faults
    PROVE  Spec => []DoneIsFresh
<1>1. FreshInv => DoneIsFresh
  <2> SUFFICES ASSUME FreshInv, UpToDate, NEW o \in Objs
               PROVE  ~NeedsBuild(o) /\ obj[o] = Compile(o)
    BY DEF DoneIsFresh
  <2>1. ~NeedsBuild(o)
    BY DEF FreshInv, Settled, UpToDate
  <2>2. job[o] # "dep"
    BY DEF FreshInv, BuildInv, NoJobLeft, UpToDate, Building
  <2> QED BY <2>1, <2>2, KeptFresh DEF Kept
<1> QED BY <1>1, FreshInvInit, FreshInvNext, PTL DEF Spec
-----------------------------------------------------------------------------
(* The incremental build implements the cache of compilations.                 *)

(* A recipe was started because its object is not to be kept, and is not until *)
(* the compiler has run.                                                       *)
CompiledIfNeeded == \A o \in Objs : job[o] = "cc" => NeedsBuild(o)

LEMMA CompiledIfNeededNext ==
    TypeInv /\ CompiledIfNeeded /\ [Next]_vars => CompiledIfNeeded'
<1> SUFFICES ASSUME TypeInv, CompiledIfNeeded, [Next]_vars
             PROVE  CompiledIfNeeded'
  OBVIOUS
<1>0. /\ obj \in [Objs -> Images \cup {NoFile}]
      /\ newer \in [Objs -> SUBSET Prereqs]
      /\ job \in [Objs -> JobStates]
      /\ cmd \in [Objs -> Cmds \cup {NoFile}]
  BY DEF TypeInv, TypeOK, MakeTypeOK, TreeTypeOK
<1> USE DEF CompiledIfNeeded, NeedsBuild, CmdCheck, NewerPrereqs, Recorded
<1>1. ASSUME UNCHANGED <<obj, cmd, job>>, \A o \in Objs : newer[o] \subseteq newer'[o]
      PROVE  CompiledIfNeeded'
  BY <1>1
<1>2. CASE Conf
  <2>1. \A o \in Objs : newer[o] \subseteq newer'[o]
    BY <1>2
    DEF Conf, ByConf, ConfStep, ConfRuns, ConfStart, ConfSave, ReadOldAuto,
        RenameHeader, RenameAuto, ConfResync, TouchDep, Touch, ConfDies,
        AutoconfFails, treeVars
  <2> QED BY <1>1, <1>2, <2>1 DEF Conf, ByConf
<1>3. ASSUME NEW f \in Files, EditFile(f) PROVE CompiledIfNeeded'
  BY <1>1, <1>3 DEF EditFile, Touch
<1>4. ASSUME NEW o \in Objs, JobStep(o) PROVE CompiledIfNeeded'
  <2>1. CASE JobSkip(o) \/ JobStart(o)
    BY <1>0, <2>1 DEF JobSkip, JobStart, treeVars
  <2>2. CASE CcDone(o)
    BY <1>0, <2>2 DEF CcDone
  <2>3. CASE CcFail(o)
    BY <1>0, <2>3 DEF CcFail, treeVars
  <2>4. CASE FixdepDone(o)
    BY <1>0, <2>4 DEF FixdepDone, treeVars
  <2>5. CASE RecipeCut(o)
    BY <1>0, <2>5 DEF RecipeCut, treeVars
  <2> QED BY <1>4, <2>1, <2>2, <2>3, <2>4, <2>5 DEF JobStep, JobRuns
<1>5. CASE Start \/ MakeEnd \/ Interrupt
  BY <1>0, <1>5 DEF Start, MakeStart, MakeEnd, Interrupt
<1>6. CASE UNCHANGED <<obj, cmd, job, newer>>
  BY <1>6
<1> QED
  BY <1>2, <1>3, <1>4, <1>5, <1>6
  DEF Next, Work, EditKconfig, HandEdit, EditFlags, vars, treeVars, makeVars

CacheInv == FreshInv /\ CompiledIfNeeded

KeptObjs == {o \in Objs : Kept(o)}
cacheVars == <<<<tree, HeaderView, flags>>, obj, KeptObjs>>

LEMMA KeptAccurate == FreshInv => Cache!Accurate
BY KeptFresh DEF Cache!Accurate, Kept, Compile

(* Every step of conf, make and the editor is a step of the cache, or changes   *)
(* nothing the cache can see.                                                  *)
LEMMA CacheStep ==
    ASSUME Disciplined, "reflag" \notin Faults, CacheInv, FreshInv', [Next]_vars
    PROVE  [Cache!Next]_cacheVars
<1>0. /\ obj \in [Objs -> Images \cup {NoFile}]
      /\ newer \in [Objs -> SUBSET Prereqs]
      /\ job \in [Objs -> JobStates]
      /\ cmd \in [Objs -> Cmds \cup {NoFile}]
      /\ tree \in [Files -> Contents]
  BY DEF CacheInv, FreshInv, BuildInv, TypeInv, TypeOK, MakeTypeOK, TreeTypeOK
<1>a. Cache!Accurate'
  BY KeptAccurate, PTL
(* Inputs change or not, objects stay, fewer of them are kept.                 *)
<1>1. ASSUME UNCHANGED <<obj, cmd, job>>, \A o \in Objs : newer[o] \subseteq newer'[o]
      PROVE  [Cache!Next]_cacheVars
  <2>1. KeptObjs' \subseteq KeptObjs
    BY <1>1 DEF KeptObjs, Kept, NeedsBuild, CmdCheck, NewerPrereqs, Recorded
  <2> QED
    BY <1>1, <1>a, <2>1
    DEF Cache!Next, Cache!Change, Cache!Judge, cacheVars, KeptObjs
<1>2. CASE Conf
  <2>1. \A o \in Objs : newer[o] \subseteq newer'[o]
    BY <1>2
    DEF Conf, ByConf, ConfStep, ConfRuns, ConfStart, ConfSave, ReadOldAuto,
        RenameHeader, RenameAuto, ConfResync, TouchDep, Touch, ConfDies,
        AutoconfFails, treeVars
  <2> QED BY <1>1, <1>2, <2>1 DEF Conf, ByConf
<1>3. ASSUME NEW f \in Files, EditFile(f) PROVE [Cache!Next]_cacheVars
  BY <1>1, <1>3 DEF EditFile, Touch
<1>4. CASE UNCHANGED <<obj, cmd, job, newer>>
  BY <1>1, <1>4
(* Inputs and objects stay, the kept ones are told apart anew.                 *)
<1>5. ASSUME UNCHANGED <<tree, header, flags, obj>>
      PROVE  [Cache!Next]_cacheVars
  BY <1>5, <1>a DEF Cache!Next, Cache!Judge, cacheVars, KeptObjs, HeaderView
<1>6. CASE Start \/ MakeEnd
  BY <1>5, <1>6 DEF Start, MakeStart, MakeEnd, treeVars
<1>7. ASSUME NEW o \in Objs, JobStep(o) PROVE [Cache!Next]_cacheVars
  <2> USE DEF KeptObjs, Kept, NeedsBuild, CmdCheck, NewerPrereqs, Recorded
  <2>1. CASE CcDone(o)
    <3>1. /\ UNCHANGED <<tree, header, flags, cmd>>
          /\ obj' = [obj EXCEPT ![o] = Compile(o)]
          /\ newer' = [newer EXCEPT ![o] = {}]
          /\ job' = [job EXCEPT ![o] = "dep"]
      BY <2>1 DEF CcDone
    <3>2. \A p \in Objs : p # o =>
            obj'[p] = obj[p] /\ newer'[p] = newer[p] /\ job'[p] = job[p]
      BY <1>0, <3>1
    <3>3. obj'[o] = Compile(o) /\ job'[o] = "dep"
      BY <1>0, <3>1
    <3>4. o \notin KeptObjs
      BY <2>1 DEF CcDone, CacheInv, CompiledIfNeeded
    <3>5. KeptObjs' \subseteq KeptObjs
      BY <3>1, <3>2, <3>3
    <3>6. Compile(o) = Image(o, tree, HeaderView, flags)
      BY DEF Compile
    <3>7. UNCHANGED <<tree, HeaderView, flags>>
      BY <3>1 DEF HeaderView
    <3> HIDE DEF KeptObjs
    <3> QED
      BY <3>2, <3>3, <3>4, <3>5, <3>6, <3>7
      DEF Cache!Next, Cache!Produce, KeptObjs
  <2>2. CASE CcFail(o)
    <3>1. UNCHANGED <<tree, header, flags, cmd, newer>>
      BY <2>2 DEF CcFail, treeVars
    <3>2. \A p \in Objs : p # o => obj'[p] = obj[p] /\ job'[p] = job[p]
      BY <1>0, <2>2 DEF CcFail
    <3>3. obj'[o] \in {obj[o], NoFile} /\ job'[o] = "none"
      BY <1>0, <2>2 DEF CcFail
    <3>4. o \notin KeptObjs
      BY <2>2 DEF CcFail, CacheInv, CompiledIfNeeded
    <3>5. KeptObjs' \subseteq KeptObjs
      BY <3>1, <3>2, <3>3, <3>4, <2>2 DEF CcFail
    <3>7. UNCHANGED <<tree, HeaderView, flags>>
      BY <3>1 DEF HeaderView
    <3> HIDE DEF KeptObjs
    <3> QED
      BY <3>2, <3>3, <3>4, <3>5, <3>7 DEF Cache!Next, Cache!Produce, KeptObjs
  <2>3. CASE JobSkip(o) \/ JobStart(o) \/ FixdepDone(o) \/ RecipeCut(o)
    BY <1>5, <2>3 DEF JobSkip, JobStart, FixdepDone, RecipeCut, treeVars
  <2> QED BY <1>7, <2>1, <2>2, <2>3 DEF JobStep, JobRuns
<1>8. CASE Interrupt
  <2> USE DEF KeptObjs, Kept, NeedsBuild, CmdCheck, NewerPrereqs, Recorded
  <2>1. /\ UNCHANGED <<tree, HeaderView, flags, cmd, newer>>
        /\ obj' = [o \in Objs |-> IF job[o] = "dep" THEN NoFile ELSE obj[o]]
    BY <1>8 DEF Interrupt, treeVars, HeaderView
  <2>2. \A o \in KeptObjs : obj'[o] = obj[o]
    BY <2>1
  <2>3. KeptObjs' \subseteq KeptObjs
    BY <2>1
  <2> HIDE DEF KeptObjs
  <2> QED
    BY <2>1, <2>2, <2>3 DEF Cache!Next, Cache!Produce, KeptObjs
<1> QED
  BY <1>2, <1>3, <1>4, <1>6, <1>7, <1>8
  DEF Next, Work, EditKconfig, HandEdit, EditFlags, vars, treeVars, makeVars

(* The cache of compilations that BuildCache describes is what conf, make and  *)
(* fixdep implement: what is reused is right, and what is right to reuse is    *)
(* not compiled again.                                                         *)
THEOREM Implementation ==
    ASSUME Disciplined, "reflag" \notin Faults
    PROVE  Spec => ImplementsCache
<1>1. Init => CacheInv
  BY FreshInvInit DEF Init, MakeInit, CacheInv, CompiledIfNeeded
<1>2. CacheInv /\ [Next]_vars => CacheInv'
  BY FreshInvNext, CompiledIfNeededNext DEF CacheInv, FreshInv, BuildInv
<1>3. Init => Cache!Init
  BY DEF Init, MakeInit, Cache!Init, Kept, NeedsBuild
<1>4. CacheInv /\ CacheInv' /\ [Next]_vars => [Cache!Next]_cacheVars
  BY CacheStep DEF CacheInv
<1>5. Spec => [][Cache!Next]_cacheVars
  BY <1>1, <1>2, <1>4, PTL DEF Spec
<1> QED
  BY <1>3, <1>5, PTL DEF Spec, ImplementsCache, Cache!Spec, cacheVars, KeptObjs
=============================================================================
