------------------------------ MODULE LinkTree ------------------------------
(* The recursive descent of main.mk: one make per directory links the objects  *)
(* of obj-y and the built-in.o of its subdirectories into its own built-in.o.  *)
(* The makes of different directories run at the same time (make -j). How an   *)
(* object is compiled is IfChanged's business: here an object that is kept is  *)
(* right, as BuildCache says.                                                  *)

CONSTANTS
    Leaves,     \* objects of obj-y
    Dirs,       \* directories with a Makefile
    Root,       \* the directory the build starts in
    HomeOf,     \* [(Leaves \cup Dirs) \ {Root} -> Dirs], a tree
    Texts,      \* what an object can be compiled from
    NoFile,
    Faults      \* "deselect": what obj-y names may be removed from it

Nodes == Leaves \cup Dirs
Linked == SUBSET (Leaves \X Texts)
Children(d) == {n \in Nodes \ {Root} : HomeOf[n] = d}

(* There are no cycles: what holds of a directory when it holds of its         *)
(* subdirectories holds of every directory.                                    *)
ASSUME DirsAssumption ==
    /\ Root \in Dirs
    /\ Leaves \cap Dirs = {}
    /\ HomeOf \in [Nodes \ {Root} -> Dirs]
    /\ \A S \in SUBSET Dirs :
        (\A d \in Dirs : Children(d) \cap Dirs \subseteq S => d \in S) => S = Dirs
    /\ NoFile \notin Texts
    /\ \A S \in Linked : S # NoFile
    /\ Faults \subseteq {"deselect"}

VARIABLES
    src,        \* the text of each object's source
    sel,        \* the nodes that obj-y names, under the present auto.conf
    out,        \* object: the text compiled; built-in.o: the objects in it
    newer,      \* the nodes newer than each directory's built-in.o
    missed,     \* built-in.o linked in this run after the make above looked at it
    saved,      \* directories with a .built-in.o.cmd
    job,        \* where the makes are with each node
    mk,         \* the run as a whole
    calm        \* no source and no selection changed since the run began

inputs == <<src, sel>>
files == <<out, newer, saved>>
vars == <<src, sel, out, newer, missed, saved, job, mk, calm>>

ObjY(d) == Children(d) \cap sel

JobStates == {"none", "make", "link", "save", "ok", "fail"}

TypeOK ==
    /\ src \in [Leaves -> Texts]
    /\ sel \subseteq Nodes
    /\ out \in [Nodes -> Texts \cup {NoFile} \cup Linked]
    /\ \A l \in Leaves : out[l] \in Texts \cup {NoFile}
    /\ \A d \in Dirs : out[d] \in Linked \cup {NoFile}
    /\ newer \in [Dirs -> SUBSET Nodes]
    /\ missed \subseteq Dirs
    /\ saved \subseteq Dirs
    /\ job \in [Nodes -> JobStates]
    /\ mk \in {"idle", "run", "done"}
    /\ calm \in BOOLEAN

Init ==
    /\ src \in [Leaves -> Texts]
    /\ sel \in {S \in SUBSET Nodes : Root \in S}
    /\ out = [n \in Nodes |-> NoFile]
    /\ newer = [d \in Dirs |-> {}]
    /\ missed = {}
    /\ saved = {}
    /\ job = [n \in Nodes |-> "none"]
    /\ mk = "idle"
    /\ calm = FALSE

-----------------------------------------------------------------------------
(* What ld -r puts together: the objects, and what the built-in.o of the       *)
(* subdirectories link.                                                        *)
Gather(d, o) ==
    {<<l, o[l]>> : l \in ObjY(d) \cap Leaves} \cup
    UNION {o[s] : s \in ObjY(d) \cap Dirs}

(* A mutant: built-in.o does not depend on $(obj-subfile).                     *)
NeedsLinkObjects(d) ==
    out[d] = NoFile \/ d \notin saved \/ newer[d] \cap ObjY(d) \cap Leaves # {}

(* if_changed: a prerequisite of the present obj-y is newer as make sees it,   *)
(* or no command was saved. A missing target makes every prerequisite newer.   *)
NeedsLink(d) == out[d] = NoFile \/ d \notin saved \/ (newer[d] \cap ObjY(d)) \ missed # {}

(* A make without -k starts nothing more once a recipe of its own has failed.  *)
Failing(d) == \E n \in ObjY(d) : job[n] = "fail"
Open(n) == n # Root /\ n \in sel /\ job[HomeOf[n]] = "make" /\ ~Failing(HomeOf[n])

Start ==
    /\ mk # "run"
    /\ mk' = "run"
    /\ calm' = TRUE
    /\ job' = [n \in Nodes |-> IF n = Root THEN "make" ELSE "none"]
    /\ missed' = {}
    /\ UNCHANGED <<inputs, files>>

(* $(subdir-y) is phony: the make of a subdirectory always runs.               *)
Descend(d) ==
    /\ Open(d)
    /\ job[d] = "none"
    /\ job' = [job EXCEPT ![d] = "make"]
    /\ UNCHANGED <<inputs, files, missed, mk, calm>>

SkipObject(l) ==
    /\ Open(l)
    /\ job[l] = "none"
    /\ out[l] = src[l]
    /\ job' = [job EXCEPT ![l] = "ok"]
    /\ UNCHANGED <<inputs, files, missed, mk, calm>>

(* An object may also be compiled again although nothing has changed.          *)
CompileObject(l) ==
    /\ Open(l)
    /\ job[l] = "none"
    /\ out' = [out EXCEPT ![l] = src[l]]
    /\ newer' = [newer EXCEPT ![HomeOf[l]] = @ \cup {l}]
    /\ job' = [job EXCEPT ![l] = "ok"]
    /\ UNCHANGED <<inputs, missed, saved, mk, calm>>

(* The compiler fails, and removes the object or leaves the old one.           *)
CompileFails(l) ==
    /\ Open(l)
    /\ job[l] = "none"
    /\ \E left \in {out[l], NoFile} : out' = [out EXCEPT ![l] = left]
    /\ job' = [job EXCEPT ![l] = "fail"]
    /\ UNCHANGED <<inputs, newer, missed, saved, mk, calm>>

(* Mutants: the link waits for the makes below only, or for the objects only.  *)
ReadyMakes(d) == job[d] = "make" /\ \A n \in ObjY(d) \cap Dirs : job[n] = "ok"

ReadyObjects(d) == job[d] = "make" /\ \A n \in ObjY(d) :
    IF n \in Leaves THEN job[n] = "ok" ELSE out[n] # NoFile

(* $(obj-subfile) depends on $(subdir-y): the link waits for every object and  *)
(* for every make below.                                                       *)
Ready(d) == job[d] = "make" /\ \A n \in ObjY(d) : job[n] = "ok"

LinkSkip(d) ==
    /\ Ready(d)
    /\ ~NeedsLink(d)
    /\ job' = [job EXCEPT ![d] = "ok"]
    /\ UNCHANGED <<inputs, files, missed, mk, calm>>

LinkStart(d) ==
    /\ Ready(d)
    /\ NeedsLink(d)
    /\ job' = [job EXCEPT ![d] = "link"]
    /\ UNCHANGED <<inputs, files, missed, mk, calm>>

NowNewer(d) == [e \in Dirs |-> IF e = d THEN {}
                ELSE IF d # Root /\ e = HomeOf[d] THEN newer[e] \cup {d}
                ELSE newer[e]]

(* $(obj-subfile):$(subdir-y) has no recipe, not even an empty one: make reads *)
(* the time stamp of a built-in.o from below once, and with -j this may be     *)
(* while the make that links it still runs. One that was missing or newer      *)
(* before counts as newer in any case.                                         *)
MayMiss(d) == d # Root /\ out[d] # NoFile /\ d \notin newer[HomeOf[d]]

LinkDone(d) ==
    /\ job[d] = "link"
    /\ out' = [out EXCEPT ![d] = Gather(d, out)]
    /\ newer' = NowNewer(d)
    /\ \E late \in SUBSET {s \in {d} : MayMiss(s)} :
        missed' = (missed \ Children(d)) \cup late
    /\ job' = [job EXCEPT ![d] = "save"]
    /\ UNCHANGED <<inputs, saved, mk, calm>>

(* ld fails, before it opens its output or after, and then removes it.         *)
LinkFails(d) ==
    /\ job[d] = "link"
    /\ \E left \in {out[d], NoFile} : out' = [out EXCEPT ![d] = left]
    /\ job' = [job EXCEPT ![d] = "fail"]
    /\ UNCHANGED <<inputs, newer, missed, saved, mk, calm>>

(* printf writes the command, straight to the .cmd file.                       *)
SaveCmd(d) ==
    /\ job[d] = "save"
    /\ saved' = saved \cup {d}
    /\ job' = [job EXCEPT ![d] = "ok"]
    /\ UNCHANGED <<inputs, out, newer, missed, mk, calm>>

(* The redirection of printf empties the file first.                           *)
SaveCut(d) ==
    /\ job[d] = "save"
    /\ saved' \in {saved, saved \ {d}}
    /\ job' = [job EXCEPT ![d] = "fail"]
    /\ UNCHANGED <<inputs, out, newer, missed, mk, calm>>

Running(n) == job[n] \in {"make", "link", "save"}

(* A mutant: a failing make also waits for what it will never start.           *)
GiveUpAfterAll(d) ==
    /\ job[d] = "make"
    /\ Failing(d)
    /\ \A n \in ObjY(d) : job[n] \in {"ok", "fail"}
    /\ job' = [job EXCEPT ![d] = "fail"]
    /\ UNCHANGED <<inputs, files, missed, mk, calm>>

(* A failing make waits for what it has started, then fails itself.            *)
GiveUp(d) ==
    /\ job[d] = "make"
    /\ Failing(d)
    /\ \A n \in ObjY(d) : ~Running(n)
    /\ job' = [job EXCEPT ![d] = "fail"]
    /\ UNCHANGED <<inputs, files, missed, mk, calm>>

(* What a run that ended well has missed is kept for the properties.           *)
End ==
    /\ mk = "run"
    /\ job[Root] \in {"ok", "fail"}
    /\ mk' = IF job[Root] = "ok" THEN "done" ELSE "idle"
    /\ missed' = IF job[Root] = "ok" THEN missed ELSE {}
    /\ job' = [n \in Nodes |-> "none"]
    /\ UNCHANGED <<inputs, files, calm>>

(* SIGINT: each make deletes the target its running recipe has changed.        *)
Interrupt ==
    /\ mk = "run"
    /\ \E lost \in SUBSET {d \in Dirs : job[d] = "link"} :
        out' = [n \in Nodes |-> IF n \in lost \/ job[n] = "save" THEN NoFile
                                ELSE out[n]]
    /\ mk' = "idle"
    /\ job' = [n \in Nodes |-> "none"]
    /\ missed' = {}
    /\ UNCHANGED <<inputs, newer, saved, calm>>

ObjectRuns(l) == SkipObject(l) \/ CompileObject(l)
DirRuns(d) ==
    Descend(d) \/ LinkSkip(d) \/ LinkStart(d) \/ LinkDone(d) \/ SaveCmd(d) \/ GiveUp(d)

MakeRuns ==
    \/ End
    \/ \E l \in Leaves : ObjectRuns(l)
    \/ \E d \in Dirs : DirRuns(d)

MakeFails ==
    \/ Interrupt
    \/ \E l \in Leaves : CompileFails(l)
    \/ \E d \in Dirs : LinkFails(d) \/ SaveCut(d)

-----------------------------------------------------------------------------
EditSource(l) ==
    /\ \E t \in Texts \ {src[l]} : src' = [src EXCEPT ![l] = t]
    /\ calm' = FALSE
    /\ UNCHANGED <<sel, files, missed, job, mk>>

(* A new configuration, between two runs: obj-$(CONFIG_X) of one node changes.  *)
Reconfigure(n) ==
    /\ mk # "run"
    /\ n # Root
    /\ n \notin sel \/ "deselect" \in Faults
    /\ sel' = (sel \ {n}) \cup ({n} \ sel)
    /\ calm' = FALSE
    /\ UNCHANGED <<src, files, missed, job, mk>>

Next ==
    \/ Start \/ MakeRuns \/ MakeFails
    \/ \E l \in Leaves : EditSource(l)
    \/ \E n \in Nodes : Reconfigure(n)

Spec == Init /\ [][Next]_vars

-----------------------------------------------------------------------------
(* What the descent from a directory reaches.                                  *)
Closed(S) == \A d \in S \cap Dirs : ObjY(d) \subseteq S
From(d) == {n \in Nodes : \A S \in SUBSET Nodes : d \in S /\ Closed(S) => n \in S}

(* What a build from scratch links into the image.                             *)
FromScratch == {<<l, src[l]>> : l \in From(Root) \cap Leaves}

(* The last run ended well, with the present sources and configuration.        *)
UpToDate == mk = "done" /\ calm

(* define.mk, "Execute command if command has changed or prerequisite(s) are   *)
(* updated": a finished build links each selected object, compiled from its    *)
(* present source. The program breaks this when makes run in parallel.         *)
LinkedFresh == UpToDate => out[Root] = FromScratch

(* main.mk, $(obj-subfile):$(subdir-y): whatever order the makes of the        *)
(* directories ran in, and whatever was cut off before, a finished build links *)
(* each selected object once, compiled from its present source, unless a make  *)
(* missed in this run that a built-in.o from below was linked again.           *)
LinkedUnlessMissed ==
    UpToDate /\ missed = {} => out[Root] = FromScratch

(* main.mk: a make links only when nothing below it is still being made.       *)
NothingMovesBelow ==
    \A d \in Dirs : job[d] \in {"link", "save"} =>
        \A n \in ObjY(d) : ~Running(n) /\ out[n] # NoFile

-----------------------------------------------------------------------------
(* Every make that was started runs on, and the developer runs make again.     *)
Fairness ==
    /\ WF_vars(Start)
    /\ WF_vars(End)
    /\ \A l \in Leaves : WF_vars(ObjectRuns(l))
    /\ \A d \in Dirs : WF_vars(DirRuns(d))

FairSpec == Spec /\ Fairness

(* No make waits for ever on the makes below it or on the one above it, even   *)
(* when some of them fail.                                                     *)
RunEnds == mk = "run" ~> mk # "run"

Disturbance == inputs' # inputs \/ MakeFails

(* When edits stop and recipes no longer fail, make brings the whole tree up   *)
(* to date, whatever was left half done and whatever a run missed: a later run *)
(* sees it.                                                                    *)
Recovers ==
    <>[][~Disturbance]_vars =>
        []<>(UpToDate /\ out[Root] = FromScratch)
=============================================================================
