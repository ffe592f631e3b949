--------------------------- MODULE LinkTree_proofs ---------------------------
(* Proofs about the descent, for every tree of directories.                    *)
EXTENDS LinkTree, TLAPS

(* A directory is not its own subdirectory.                                    *)
LEMMA NoSelf == \A d \in Dirs : d \notin Children(d)
<1> SUFFICES ASSUME NEW d \in Dirs, d \in Children(d) PROVE FALSE
  OBVIOUS
<1> DEFINE S == Dirs \ {d}
<1>1. \A e \in Dirs : Children(e) \cap Dirs \subseteq S => e \in S
  OBVIOUS
<1>2. S = Dirs
  BY <1>1, DirsAssumption
<1> QED BY <1>2

LEMMA GatherType ==
    ASSUME TypeOK, NEW d \in Dirs, \A n \in ObjY(d) : out[n] # NoFile
    PROVE  Gather(d, out) \in Linked
<1>1. \A l \in ObjY(d) \cap Leaves : out[l] \in Texts
  BY DEF TypeOK
<1>2. \A s \in ObjY(d) \cap Dirs : out[s] \subseteq Leaves \X Texts
  BY DEF TypeOK, Linked
<1> QED BY <1>1, <1>2 DEF Gather, Linked

-----------------------------------------------------------------------------
(* Only what was selected takes part in a run.                                 *)
JobsSelected ==
    /\ Root \in sel
    /\ \A n \in Nodes : job[n] # "none" => mk = "run" /\ n \in sel

(* A make comes to its link when all that it links is made.                    *)
ChildrenMade ==
    \A d \in Dirs : job[d] \in {"link", "save", "ok"} =>
        \A n \in ObjY(d) : job[n] = "ok"

(* What a run has finished exists, and an object is right if no input changed. *)
MadeExists == \A n \in Nodes : job[n] \in {"save", "ok"} => out[n] # NoFile
ObjectsMade == calm => \A l \in Leaves : job[l] = "ok" => out[l] = src[l]

(* The makes are those of directories.                                         *)
MakesOfDirs == \A l \in Leaves : ~Running(l)

RunInv ==
    TypeOK /\ JobsSelected /\ ChildrenMade /\ MadeExists /\ ObjectsMade /\ MakesOfDirs

(* When the make of a directory has come to its end, only what it missed is    *)
(* newer than its built-in.o.                                                  *)
NewerMissed ==
    \A d \in Dirs : job[d] \in {"save", "ok"} => newer[d] \cap ObjY(d) \subseteq missed

(* What is not selected was never built.                                       *)
Unbuilt == \A n \in Nodes \ sel : out[n] = NoFile

(* A built-in.o older than nothing that it links is what ld would make now.    *)
KeptLink ==
    \A d \in Dirs :
        /\ out[d] # NoFile
        /\ newer[d] \cap ObjY(d) = {}
        /\ \A n \in ObjY(d) : out[n] # NoFile
        => out[d] = Gather(d, out)

(* After a run all objects are right, and so is every built-in.o that is not   *)
(* older than one the run missed.                                              *)
TreeMade ==
    UpToDate => \A n \in From(Root) :
        /\ out[n] # NoFile
        /\ n \in Leaves => out[n] = src[n]
        /\ n \in Dirs => newer[n] \cap ObjY(n) \subseteq missed

LinkInv == RunInv /\ NewerMissed /\ Unbuilt /\ KeptLink /\ TreeMade

-----------------------------------------------------------------------------
LEMMA RunInvInit == Init => RunInv
<1> SUFFICES ASSUME Init PROVE RunInv
  OBVIOUS
<1> USE DirsAssumption
<1>1. TypeOK
  BY DEF Init, TypeOK, JobStates, Nodes, Linked
<1>2. JobsSelected /\ ChildrenMade /\ MadeExists /\ ObjectsMade /\ MakesOfDirs
  BY DEF Init, JobsSelected, ChildrenMade, MadeExists, ObjectsMade, MakesOfDirs,
         Running, Nodes
<1> QED BY <1>1, <1>2 DEF RunInv

(* The steps of one run, each with the node it is about.                       *)
LEMMA TypeNext == RunInv /\ [Next]_vars => TypeOK'
<1> SUFFICES ASSUME RunInv, [Next]_vars PROVE TypeOK'
  OBVIOUS
<1> USE DirsAssumption DEF RunInv, JobStates
<1>1. CASE Start
  BY <1>1 DEF Start, TypeOK, inputs, files, Nodes
<1>2. ASSUME NEW l \in Leaves, ObjectRuns(l) \/ CompileFails(l) PROVE TypeOK'
  <2>1. l \in Nodes /\ l \notin Dirs
    BY DEF Nodes
  <2>2. CASE SkipObject(l)
    BY <2>1, <2>2 DEF SkipObject, TypeOK, inputs, files
  <2>3. CASE CompileObject(l)
    BY <2>1, <2>3 DEF CompileObject, TypeOK, inputs
  <2>4. CASE CompileFails(l)
    BY <2>1, <2>4 DEF CompileFails, TypeOK, inputs
  <2> QED BY <1>2, <2>2, <2>3, <2>4 DEF ObjectRuns
<1>3. ASSUME NEW d \in Dirs, DirRuns(d) \/ LinkFails(d) \/ SaveCut(d) PROVE TypeOK'
  <2>1. d \in Nodes /\ d \notin Leaves
    BY DEF Nodes
  <2>2. CASE Descend(d)
    BY <2>1, <2>2 DEF Descend, TypeOK, inputs, files
  <2>3. CASE LinkSkip(d) \/ LinkStart(d) \/ GiveUp(d)
    BY <2>1, <2>3 DEF LinkSkip, LinkStart, GiveUp, TypeOK, inputs, files
  <2>4. CASE LinkDone(d)
    <3>1. \A n \in ObjY(d) : job[n] = "ok"
      BY <2>4 DEF LinkDone, ChildrenMade
    <3>2. \A n \in ObjY(d) : out[n] # NoFile
      BY <3>1 DEF MadeExists, ObjY, Children
    <3> QED BY <2>1, <2>4, <3>2, GatherType DEF LinkDone, TypeOK, inputs, NowNewer
  <2>5. CASE LinkFails(d)
    BY <2>1, <2>5 DEF LinkFails, TypeOK, inputs
  <2>6. CASE SaveCmd(d) \/ SaveCut(d)
    BY <2>1, <2>6 DEF SaveCmd, SaveCut, TypeOK, inputs
  <2> QED BY <1>3, <2>2, <2>3, <2>4, <2>5, <2>6 DEF DirRuns
<1>4. CASE End
  BY <1>4 DEF End, TypeOK, inputs, files
<1>5. CASE Interrupt
  <2>1. UNCHANGED <<src, sel, newer, saved, calm>> /\ missed' = {}
    BY <1>5 DEF Interrupt, inputs
  <2>2. mk' \in {"idle", "run", "done"} /\ job' \in [Nodes -> JobStates]
    BY <1>5 DEF Interrupt
  <2>3. DOMAIN out' = Nodes /\ out' = [n \in Nodes |-> out'[n]]
    BY <1>5 DEF Interrupt
  <2>4. \A n \in Nodes : out'[n] \in {out[n], NoFile}
    BY <1>5 DEF Interrupt
  <2>5. out' \in [Nodes -> Texts \cup {NoFile} \cup Linked]
    BY <2>3, <2>4 DEF TypeOK
  <2>6. /\ \A l \in Leaves : out'[l] \in Texts \cup {NoFile}
        /\ \A d \in Dirs : out'[d] \in Linked \cup {NoFile}
    BY <2>4 DEF TypeOK, Nodes
  <2> QED BY <2>1, <2>2, <2>5, <2>6 DEF TypeOK
<1>6. ASSUME NEW l \in Leaves, EditSource(l) PROVE TypeOK'
  <2>1. src' \in [Leaves -> Texts] /\ calm' = FALSE
    BY <1>6 DEF EditSource, TypeOK
  <2> QED BY <1>6, <2>1 DEF EditSource, TypeOK, files
<1>7. ASSUME NEW n \in Nodes, Reconfigure(n) PROVE TypeOK'
  BY <1>7 DEF Reconfigure, TypeOK, files
<1>8. CASE UNCHANGED vars
  BY <1>8 DEF vars, TypeOK, inputs, files
<1> QED
  BY <1>1, <1>2, <1>3, <1>4, <1>5, <1>6, <1>7, <1>8
  DEF Next, MakeRuns, MakeFails

-----------------------------------------------------------------------------
(* How the jobs of a run change: a job that is done stays done, and a job ends *)
(* well only after everything below it did.                                    *)
LEMMA JobsNext == RunInv /\ [Next]_vars => (JobsSelected /\ ChildrenMade /\ MakesOfDirs)'
<1> SUFFICES ASSUME RunInv, [Next]_vars
             PROVE (JobsSelected /\ ChildrenMade /\ MakesOfDirs)'
  OBVIOUS
<1>0. job \in [Nodes -> JobStates] /\ Root \in Nodes /\ Root \in Dirs /\ Leaves \cap Dirs = {}
  BY DirsAssumption DEF RunInv, TypeOK, Nodes
<1> USE DEF RunInv, JobsSelected, ChildrenMade, MakesOfDirs, Running, ObjY
<1>1. CASE Start
  BY <1>0, <1>1 DEF Start, inputs, files, Nodes
<1>2. CASE End \/ Interrupt
  BY <1>2 DEF End, Interrupt, inputs, files, Children, Nodes
<1>3. ASSUME NEW l \in Leaves, ObjectRuns(l) \/ CompileFails(l)
      PROVE (JobsSelected /\ ChildrenMade /\ MakesOfDirs)'
  <2>1. /\ UNCHANGED <<sel, mk>>
        /\ l \in sel /\ job[HomeOf[l]] = "make" /\ job[l] = "none" /\ l # Root
        /\ \E r \in {"ok", "fail"} : job' = [job EXCEPT ![l] = r]
    BY <1>3 DEF ObjectRuns, SkipObject, CompileObject, CompileFails, Open, inputs, files
  <2>2. HomeOf[l] # l /\ HomeOf[l] \in Nodes
    BY <1>0, <2>1, DirsAssumption DEF Nodes
  <2>3. mk = "run"
    BY <2>1, <2>2
  <2> QED BY <1>0, <2>1, <2>3 DEF Children, Nodes
<1>4. ASSUME NEW d \in Dirs, DirRuns(d) \/ LinkFails(d) \/ SaveCut(d)
      PROVE (JobsSelected /\ ChildrenMade /\ MakesOfDirs)'
  <2>1. UNCHANGED <<sel, mk>> /\ d \in Nodes
    BY <1>4 DEF DirRuns, Descend, LinkSkip, LinkStart, LinkDone, SaveCmd, GiveUp,
                LinkFails, SaveCut, inputs, files, Nodes
  <2>2. CASE Descend(d)
    <3>1. /\ d \in sel /\ job[HomeOf[d]] = "make" /\ job[d] = "none" /\ d # Root
          /\ job' = [job EXCEPT ![d] = "make"]
      BY <2>2 DEF Descend, Open
    <3>2. HomeOf[d] # d /\ HomeOf[d] \in Nodes
      BY <1>0, <2>1, <3>1, DirsAssumption DEF Nodes
    <3>3. mk = "run"
      BY <3>1, <3>2
    <3> QED BY <1>0, <2>1, <3>1, <3>3 DEF Children, Nodes
  <2>3. CASE LinkSkip(d) \/ LinkStart(d)
    <3>1. /\ Ready(d) /\ d \notin ObjY(d)
          /\ \E r \in {"ok", "link"} : job' = [job EXCEPT ![d] = r]
      BY <2>3, NoSelf DEF LinkSkip, LinkStart
    <3> QED BY <1>0, <2>1, <3>1 DEF Ready, Nodes
  <2>4. CASE GiveUp(d) \/ LinkFails(d) \/ SaveCut(d)
    <3>1. /\ job[d] \in {"make", "link", "save"}
          /\ job' = [job EXCEPT ![d] = "fail"]
      BY <2>4 DEF GiveUp, LinkFails, SaveCut
    <3> QED BY <1>0, <2>1, <3>1 DEF Nodes
  <2>5. CASE LinkDone(d) \/ SaveCmd(d)
    <3>1. /\ job[d] \in {"link", "save"}
          /\ \E r \in {"save", "ok"} : job' = [job EXCEPT ![d] = r]
      BY <2>5 DEF LinkDone, SaveCmd
    <3> QED BY <1>0, <2>1, <3>1 DEF Nodes
  <2> QED BY <1>4, <2>2, <2>3, <2>4, <2>5 DEF DirRuns
<1>5. ASSUME NEW l \in Leaves, EditSource(l)
      PROVE (JobsSelected /\ ChildrenMade /\ MakesOfDirs)'
  BY <1>5 DEF EditSource, files
<1>6. ASSUME NEW n \in Nodes, Reconfigure(n)
      PROVE (JobsSelected /\ ChildrenMade /\ MakesOfDirs)'
  BY <1>0, <1>6 DEF Reconfigure, files, Nodes
<1>7. CASE UNCHANGED vars
  BY <1>7 DEF vars, inputs, files
<1> QED
  BY <1>1, <1>2, <1>3, <1>4, <1>5, <1>6, <1>7
  DEF Next, MakeRuns, MakeFails

LEMMA MadeNext == RunInv /\ [Next]_vars => (MadeExists /\ ObjectsMade)'
<1> SUFFICES ASSUME RunInv, [Next]_vars PROVE (MadeExists /\ ObjectsMade)'
  OBVIOUS
<1>0. /\ job \in [Nodes -> JobStates] /\ Root \in Dirs /\ Leaves \cap Dirs = {}
      /\ out \in [Nodes -> Texts \cup {NoFile} \cup Linked]
      /\ src \in [Leaves -> Texts] /\ NoFile \notin Texts /\ calm \in BOOLEAN
  BY DirsAssumption DEF RunInv, TypeOK
<1> USE DEF RunInv, MadeExists, ObjectsMade, MakesOfDirs, Running
<1>1. CASE Start
  BY <1>0, <1>1 DEF Start, files, Nodes
<1>2. CASE End \/ Interrupt
  BY <1>2 DEF End, Interrupt, inputs, files, Nodes
<1>3. ASSUME NEW l \in Leaves, ObjectRuns(l) \/ CompileFails(l)
      PROVE (MadeExists /\ ObjectsMade)'
  <2>1. CASE SkipObject(l)
    BY <1>0, <2>1 DEF SkipObject, inputs, files, Nodes
  <2>2. CASE CompileObject(l)
    BY <1>0, <2>2 DEF CompileObject, inputs, Nodes
  <2>3. CASE CompileFails(l)
    BY <1>0, <2>3 DEF CompileFails, inputs, Nodes
  <2> QED BY <1>3, <2>1, <2>2, <2>3 DEF ObjectRuns
<1>4. ASSUME NEW d \in Dirs, DirRuns(d) \/ LinkFails(d) \/ SaveCut(d)
      PROVE (MadeExists /\ ObjectsMade)'
  <2>1. CASE Descend(d) \/ LinkStart(d) \/ GiveUp(d)
    BY <1>0, <2>1 DEF Descend, LinkStart, GiveUp, inputs, files, Nodes
  <2>2. CASE LinkSkip(d)
    BY <1>0, <2>2 DEF LinkSkip, NeedsLink, inputs, files, Nodes
  <2>3. CASE LinkDone(d)
    <3>1. \A n \in ObjY(d) : out[n] # NoFile
      BY <2>3 DEF LinkDone, ChildrenMade, ObjY, Children
    <3>2. Gather(d, out) # NoFile
      BY <3>1, GatherType, DirsAssumption
    <3> QED BY <1>0, <2>3, <3>2 DEF LinkDone, inputs, Nodes
  <2>4. CASE LinkFails(d)
    BY <1>0, <2>4 DEF LinkFails, inputs, Nodes
  <2>5. CASE SaveCmd(d) \/ SaveCut(d)
    BY <1>0, <2>5 DEF SaveCmd, SaveCut, inputs, Nodes
  <2> QED BY <1>4, <2>1, <2>2, <2>3, <2>4, <2>5 DEF DirRuns
<1>5. ASSUME NEW l \in Leaves, EditSource(l) PROVE (MadeExists /\ ObjectsMade)'
  BY <1>5 DEF EditSource, files
<1>6. ASSUME NEW n \in Nodes, Reconfigure(n) PROVE (MadeExists /\ ObjectsMade)'
  BY <1>6 DEF Reconfigure, files
<1>7. CASE UNCHANGED vars
  BY <1>7 DEF vars, inputs, files
<1> QED
  BY <1>1, <1>2, <1>3, <1>4, <1>5, <1>6, <1>7
  DEF Next, MakeRuns, MakeFails

LEMMA RunInvNext == RunInv /\ [Next]_vars => RunInv'
BY TypeNext, JobsNext, MadeNext DEF RunInv

(* Whatever the tree, the state of a build has its type.                       *)
THEOREM TypeCorrect == Spec => []TypeOK
<1>1. RunInv => TypeOK
  BY DEF RunInv
<1> QED BY <1>1, RunInvInit, RunInvNext, PTL DEF Spec

(* main.mk, $(obj-subfile):$(subdir-y): no make links what is still being made.*)
THEOREM LinksWait == Spec => []NothingMovesBelow
<1>1. RunInv => NothingMovesBelow
  BY DEF RunInv, ChildrenMade, MadeExists, NothingMovesBelow, Running, ObjY, Children
<1> QED BY <1>1, RunInvInit, RunInvNext, PTL DEF Spec

-----------------------------------------------------------------------------
(* What a directory links depends on its own nodes only.                       *)
LEMMA GatherSame ==
    ASSUME NEW d \in Dirs, sel' = sel, \A n \in ObjY(d) : out'[n] = out[n]
    PROVE  Gather(d, out)' = Gather(d, out)
<1>1. ObjY(d)' = ObjY(d)
  BY DEF ObjY, Children
<1> QED BY <1>1 DEF Gather

LEMMA UnbuiltNext ==
    ASSUME "deselect" \notin Faults
    PROVE  RunInv /\ Unbuilt /\ [Next]_vars => Unbuilt'
<1> SUFFICES ASSUME RunInv, Unbuilt, [Next]_vars PROVE Unbuilt'
  OBVIOUS
<1>0. out \in [Nodes -> Texts \cup {NoFile} \cup Linked] /\ Root \in Dirs
  BY DirsAssumption DEF RunInv, TypeOK
<1> USE DEF RunInv, JobsSelected, Unbuilt
<1>1. CASE Start \/ End
  BY <1>1 DEF Start, End, inputs, files
<1>2. CASE Interrupt
  BY <1>2 DEF Interrupt, inputs
<1>3. ASSUME NEW l \in Leaves, ObjectRuns(l) \/ CompileFails(l) PROVE Unbuilt'
  <2>1. /\ l \in sel /\ sel' = sel
        /\ \A n \in Nodes \ {l} : out'[n] = out[n]
    BY <1>0, <1>3
    DEF ObjectRuns, SkipObject, CompileObject, CompileFails, Open, inputs, files
  <2> QED BY <2>1
<1>4. ASSUME NEW d \in Dirs, DirRuns(d) \/ LinkFails(d) \/ SaveCut(d) PROVE Unbuilt'
  <2>1. CASE LinkDone(d) \/ LinkFails(d)
    <3>1. d \in sel /\ sel' = sel /\ \A n \in Nodes \ {d} : out'[n] = out[n]
      BY <1>0, <2>1 DEF LinkDone, LinkFails, inputs, Nodes
    <3> QED BY <3>1
  <2>2. CASE UNCHANGED <<sel, out>>
    BY <2>2
  <2> QED
    BY <1>4, <2>1, <2>2
    DEF DirRuns, Descend, LinkSkip, LinkStart, SaveCmd, GiveUp, SaveCut, inputs, files
<1>5. ASSUME NEW l \in Leaves, EditSource(l) PROVE Unbuilt'
  BY <1>5 DEF EditSource, files
<1>6. ASSUME NEW n \in Nodes, Reconfigure(n) PROVE Unbuilt'
  BY <1>6 DEF Reconfigure, files
<1>7. CASE UNCHANGED vars
  BY <1>7 DEF vars, inputs, files
<1> QED
  BY <1>1, <1>2, <1>3, <1>4, <1>5, <1>6, <1>7
  DEF Next, MakeRuns, MakeFails

(* A step that replaces no file but by removing it.                            *)
Removes == /\ UNCHANGED <<sel, newer>>
           /\ \A n \in Nodes : out'[n] \in {out[n], NoFile}

LEMMA KeptRemoves == KeptLink /\ Removes => KeptLink'
<1> SUFFICES ASSUME KeptLink, Removes, NEW d \in Dirs,
                    out'[d] # NoFile, newer'[d] \cap ObjY(d)' = {},
                    \A n \in ObjY(d)' : out'[n] # NoFile
             PROVE  out'[d] = Gather(d, out)'
  BY DEF KeptLink
<1>1. ObjY(d)' = ObjY(d) /\ newer' = newer /\ sel' = sel
  BY DEF Removes, ObjY, Children
<1>2. out'[d] = out[d] /\ \A n \in ObjY(d) : out'[n] = out[n]
  BY <1>1 DEF Removes, ObjY, Children, Nodes
<1> QED BY <1>1, <1>2, GatherSame DEF KeptLink

(* A node that is made again is newer than the built-in.o above it.            *)
LEMMA KeptMakes ==
    ASSUME KeptLink, NEW n \in Nodes, sel' = sel,
           \A m \in Nodes \ {n} : out'[m] = out[m],
           \A d \in Dirs \ {n} : newer'[d] = newer[d] \cup ({n} \cap Children(d)),
           n \in sel,
           n \in Dirs => out'[n] = Gather(n, out)
    PROVE  KeptLink'
<1> SUFFICES ASSUME NEW d \in Dirs,
                    out'[d] # NoFile, newer'[d] \cap ObjY(d)' = {},
                    \A m \in ObjY(d)' : out'[m] # NoFile
             PROVE  out'[d] = Gather(d, out)'
  BY DEF KeptLink
<1>1. ObjY(d)' = ObjY(d)
  BY DEF ObjY, Children
<1>2. CASE d = n
  <2>1. \A m \in ObjY(d) : out'[m] = out[m]
    BY <1>2, NoSelf DEF ObjY, Children
  <2> QED BY <1>2, <2>1, GatherSame
<1>3. CASE d # n
  <2>1. n \notin ObjY(d)
    BY <1>1, <1>3 DEF ObjY
  <2>2. \A m \in ObjY(d) : out'[m] = out[m]
    BY <2>1 DEF ObjY, Children
  <2>3. out'[d] = out[d] /\ newer[d] \cap ObjY(d) = {}
    BY <1>1, <1>3, <2>1 DEF Nodes
  <2> QED BY <1>1, <2>2, <2>3, GatherSame DEF KeptLink
<1> QED BY <1>2, <1>3

LEMMA KeptLinkNext ==
    ASSUME "deselect" \notin Faults
    PROVE  RunInv /\ Unbuilt /\ KeptLink /\ [Next]_vars => KeptLink'
<1> SUFFICES ASSUME RunInv, Unbuilt, KeptLink, [Next]_vars PROVE KeptLink'
  OBVIOUS
<1>0. /\ out \in [Nodes -> Texts \cup {NoFile} \cup Linked]
      /\ newer \in [Dirs -> SUBSET Nodes]
      /\ Root \in Dirs /\ Leaves \cap Dirs = {}
      /\ HomeOf \in [Nodes \ {Root} -> Dirs]
  BY DirsAssumption DEF RunInv, TypeOK
<1>1. CASE Removes
  BY <1>1, KeptRemoves
<1>2. ASSUME NEW l \in Leaves, CompileObject(l) PROVE KeptLink'
  <2>1. l \in Nodes /\ l # Root /\ l \in sel /\ sel' = sel
    BY <1>2 DEF CompileObject, Open, inputs, Nodes
  <2>2. \A m \in Nodes \ {l} : out'[m] = out[m]
    BY <1>0, <1>2 DEF CompileObject
  <2>3. \A d \in Dirs \ {l} : newer'[d] = newer[d] \cup ({l} \cap Children(d))
    BY <1>0, <1>2, <2>1 DEF CompileObject, Children
  <2>4. l \notin Dirs
    BY <1>0
  <2> QED BY <2>1, <2>2, <2>3, <2>4, KeptMakes
<1>3. ASSUME NEW d \in Dirs, LinkDone(d) PROVE KeptLink'
  <2>1. d \in Nodes /\ d \in sel /\ sel' = sel
    BY <1>3 DEF LinkDone, inputs, Nodes, RunInv, JobsSelected
  <2>2. /\ \A m \in Nodes \ {d} : out'[m] = out[m]
        /\ out'[d] = Gather(d, out)
    BY <1>0, <1>3, <2>1 DEF LinkDone
  <2>3. \A e \in Dirs \ {d} : newer'[e] = newer[e] \cup ({d} \cap Children(e))
    BY <1>0, <1>3, <2>1 DEF LinkDone, NowNewer, Children
  <2> QED BY <2>1, <2>2, <2>3, KeptMakes
<1>4. ASSUME NEW n \in Nodes, Reconfigure(n) PROVE KeptLink'
  <2>1. /\ sel' = sel \cup {n} /\ UNCHANGED <<out, newer>> /\ out[n] = NoFile
    BY <1>4 DEF Reconfigure, files, Unbuilt
  <2>2. ASSUME NEW d \in Dirs, \A m \in ObjY(d)' : out[m] # NoFile
        PROVE  ObjY(d)' = ObjY(d)
    BY <2>1, <2>2 DEF ObjY, Children
  <2>3. ASSUME NEW d \in Dirs, ObjY(d)' = ObjY(d)
        PROVE  Gather(d, out)' = Gather(d, out)
    BY <2>1, <2>3 DEF Gather
  <2> QED BY <2>1, <2>2, <2>3 DEF KeptLink
<1>5. CASE \E l \in Leaves : SkipObject(l) \/ CompileFails(l)
  BY <1>0, <1>1, <1>5 DEF SkipObject, CompileFails, Removes, inputs, files
<1>6. CASE \E d \in Dirs : \/ Descend(d) \/ LinkSkip(d) \/ LinkStart(d) \/ SaveCmd(d)
                          \/ GiveUp(d) \/ LinkFails(d) \/ SaveCut(d)
  BY <1>0, <1>1, <1>6 DEF Descend, LinkSkip, LinkStart, SaveCmd, GiveUp, LinkFails,
     SaveCut, Removes, inputs, files
<1>7. CASE Start \/ End \/ Interrupt \/ (\E l \in Leaves : EditSource(l)) \/ UNCHANGED vars
  BY <1>0, <1>1, <1>7 DEF Start, End, Interrupt, EditSource, vars, Removes, inputs, files
<1> QED
  BY <1>2, <1>3, <1>4, <1>5, <1>6, <1>7
  DEF Next, MakeRuns, MakeFails, ObjectRuns, DirRuns

(* What is newer than a built-in.o was made before its make came to the end.   *)
LEMMA NewerMissedNext == RunInv /\ NewerMissed /\ [Next]_vars => NewerMissed'
<1> SUFFICES ASSUME RunInv, NewerMissed, [Next]_vars,
                    NEW d \in Dirs, job'[d] \in {"save", "ok"}
             PROVE  newer'[d] \cap ObjY(d)' \subseteq missed'
  BY DEF NewerMissed
<1>0. /\ job \in [Nodes -> JobStates] /\ newer \in [Dirs -> SUBSET Nodes]
      /\ Root \in Dirs /\ Leaves \cap Dirs = {} /\ d \in Nodes /\ missed \subseteq Dirs
  BY DirsAssumption DEF RunInv, TypeOK, Nodes
<1> USE DEF NewerMissed, ObjY
<1>1. ASSUME UNCHANGED <<sel, newer, missed>>, job[d] \in {"save", "ok"}
      PROVE  newer'[d] \cap ObjY(d)' \subseteq missed'
  BY <1>1 DEF Children
<1>2. ASSUME NEW l \in Leaves, ObjectRuns(l) \/ CompileFails(l)
      PROVE  newer'[d] \cap ObjY(d)' \subseteq missed'
  <2>1. /\ UNCHANGED <<sel, missed>> /\ job'[d] = job[d]
        /\ job[HomeOf[l]] = "make"
        /\ \A e \in Dirs \ {HomeOf[l]} : newer'[e] = newer[e]
    BY <1>0, <1>2
    DEF ObjectRuns, SkipObject, CompileObject, CompileFails, Open, inputs, files, Nodes
  <2> QED BY <2>1 DEF Children
<1>3. ASSUME NEW e \in Dirs, LinkDone(e) PROVE newer'[d] \cap ObjY(d)' \subseteq missed'
  <2>1. /\ sel' = sel /\ e \in Nodes /\ e \in sel /\ job[e] = "link"
        /\ missed \ Children(e) \subseteq missed'
        /\ newer' = NowNewer(e)
    BY <1>3 DEF LinkDone, inputs, Nodes, RunInv, JobsSelected
  <2>2. CASE d = e
    BY <2>1, <2>2 DEF NowNewer
  <2>3. CASE d # e
    <3>1. job[d] \in {"save", "ok"}
      BY <1>0, <1>3, <2>3 DEF LinkDone
    <3>2. e \notin ObjY(d)
      BY <2>1, <3>1 DEF RunInv, ChildrenMade
    <3>3. newer'[d] = newer[d]
      BY <2>1, <2>3, <3>2 DEF NowNewer, Children
    <3>4. Children(d) \cap Children(e) = {}
      BY <2>3 DEF Children
    <3> QED BY <2>1, <3>1, <3>3, <3>4 DEF Children
  <2> QED BY <2>2, <2>3
<1>4. ASSUME NEW e \in Dirs, LinkSkip(e) PROVE newer'[d] \cap ObjY(d)' \subseteq missed'
  <2>1. UNCHANGED <<sel, newer, missed>>
    BY <1>4 DEF LinkSkip, inputs, files
  <2>2. CASE d = e
    BY <1>4, <2>1, <2>2 DEF LinkSkip, NeedsLink, Children
  <2>3. CASE d # e
    BY <1>0, <1>1, <1>4, <2>1, <2>3 DEF LinkSkip
  <2> QED BY <2>2, <2>3
<1>5. ASSUME NEW e \in Dirs,
             \/ Descend(e) \/ LinkStart(e) \/ SaveCmd(e)
             \/ GiveUp(e) \/ LinkFails(e) \/ SaveCut(e)
      PROVE  newer'[d] \cap ObjY(d)' \subseteq missed'
  <2>1. UNCHANGED <<sel, newer, missed>>
    BY <1>5 DEF Descend, LinkStart, SaveCmd, GiveUp, LinkFails, SaveCut, inputs, files
  <2>2. job[d] \in {"save", "ok"}
    BY <1>0, <1>5 DEF Descend, LinkStart, SaveCmd, GiveUp, LinkFails, SaveCut
  <2> QED BY <1>1, <2>1, <2>2
<1>6. CASE Start \/ End \/ Interrupt
  BY <1>0, <1>6 DEF Start, End, Interrupt, Nodes
<1>7. CASE UNCHANGED vars \/ \E l \in Leaves : EditSource(l)
  BY <1>1, <1>7 DEF EditSource, vars, inputs, files
<1>8. ASSUME NEW n \in Nodes, Reconfigure(n)
      PROVE  newer'[d] \cap ObjY(d)' \subseteq missed'
  BY <1>0, <1>8 DEF Reconfigure, RunInv, JobsSelected
<1> QED
  BY <1>2, <1>3, <1>4, <1>5, <1>6, <1>7, <1>8
  DEF Next, MakeRuns, MakeFails, DirRuns

LEMMA TreeMadeNext == RunInv /\ NewerMissed /\ TreeMade /\ [Next]_vars => TreeMade'
<1> SUFFICES ASSUME RunInv, NewerMissed, TreeMade, [Next]_vars, UpToDate',
                    NEW n \in From(Root)'
             PROVE  /\ out'[n] # NoFile
                    /\ n \in Leaves => out'[n] = src'[n]
                    /\ n \in Dirs => newer'[n] \cap ObjY(n)' \subseteq missed'
  BY DEF TreeMade
<1>1. CASE End
  <2>1. UNCHANGED <<src, sel, out, newer, missed>> /\ calm /\ job[Root] = "ok"
    BY <1>1 DEF End, inputs, files, UpToDate
  <2>2. n \in From(Root) /\ n \in Nodes
    BY <2>1 DEF From, Closed, ObjY, Children, Nodes
  <2> DEFINE S == {m \in Nodes : job[m] = "ok"}
  <2>3. Root \in S /\ Closed(S)
    BY <2>1, DirsAssumption DEF Closed, RunInv, ChildrenMade, ObjY, Children, Nodes
  <2>4. n \in S
    BY <2>2, <2>3 DEF From
  <2>5. n \in Dirs => newer[n] \cap ObjY(n) \subseteq missed
    BY <2>4 DEF NewerMissed
  <2>6. ObjY(n)' = ObjY(n)
    BY <2>1 DEF ObjY, Children
  <2> QED BY <2>1, <2>4, <2>5, <2>6 DEF RunInv, MadeExists, ObjectsMade
<1>2. CASE ~End
  <2>1. mk' = "done" /\ calm' /\ calm' \in BOOLEAN
    BY TypeNext DEF UpToDate, TypeOK
  <2>2. ~(\E l \in Leaves : EditSource(l)) /\ ~(\E m \in Nodes : Reconfigure(m))
        /\ ~Start /\ ~Interrupt
    BY <2>1 DEF EditSource, Reconfigure, Start, Interrupt
  <2>3. CASE mk = "run"
    BY <1>2, <2>1, <2>2, <2>3
    DEF Next, MakeRuns, MakeFails, ObjectRuns, DirRuns, SkipObject, CompileObject,
        CompileFails, Descend, LinkSkip, LinkStart, LinkDone, LinkFails, SaveCmd,
        SaveCut, GiveUp, vars
  <2>4. CASE mk # "run"
    <3>1. \A m \in Nodes : job[m] = "none"
      BY <2>4 DEF RunInv, JobsSelected
    <3>2. ~(\E l \in Leaves : ObjectRuns(l) \/ CompileFails(l))
      BY <3>1, DirsAssumption
      DEF ObjectRuns, SkipObject, CompileObject, CompileFails, Open, Nodes
    <3>3. ~(\E d \in Dirs : DirRuns(d) \/ LinkFails(d) \/ SaveCut(d))
      BY <3>1, DirsAssumption
      DEF DirRuns, Descend, Open, LinkSkip, LinkStart, Ready, LinkDone, SaveCmd, GiveUp,
          LinkFails, SaveCut, Nodes
    <3>4. UNCHANGED <<src, sel, out, newer, missed, mk, calm>>
      BY <1>2, <2>2, <3>2, <3>3 DEF Next, MakeRuns, MakeFails, vars, inputs, files
    <3>5. UpToDate /\ n \in From(Root)
      BY <3>4 DEF UpToDate, From, Closed, ObjY, Children, Nodes
    <3>6. ObjY(n)' = ObjY(n)
      BY <3>4 DEF ObjY, Children
    <3> QED BY <3>4, <3>5, <3>6 DEF TreeMade
  <2> QED BY <2>3, <2>4
<1> QED BY <1>1, <1>2

LEMMA LinkInvInvariant ==
    ASSUME "deselect" \notin Faults
    PROVE  Spec => []LinkInv
<1>1. Init => LinkInv
  BY RunInvInit
  DEF Init, LinkInv, NewerMissed, Unbuilt, KeptLink, TreeMade, UpToDate, Nodes
<1>2. LinkInv /\ [Next]_vars => LinkInv'
  BY RunInvNext, UnbuiltNext, KeptLinkNext, NewerMissedNext, TreeMadeNext DEF LinkInv
<1> QED BY <1>1, <1>2, PTL DEF Spec

-----------------------------------------------------------------------------
(* Below a directory are its own objects and what is below its subdirectories. *)
LEMMA FromBelow ==
    ASSUME NEW d \in Dirs
    PROVE  /\ d \in From(d) /\ Closed(From(d)) /\ From(d) \subseteq Nodes
           /\ From(d) = {d} \cup ObjY(d)
                        \cup UNION {From(s) : s \in ObjY(d) \cap Dirs}
<1>1. d \in From(d) /\ Closed(From(d)) /\ From(d) \subseteq Nodes
  BY DEF From, Closed, ObjY, Children, Nodes
<1>2. ASSUME NEW s \in ObjY(d) \cap Dirs
      PROVE  From(s) \subseteq From(d) /\ s \in From(s) /\ Closed(From(s))
  <2>1. s \in From(d)
    BY <1>1 DEF Closed
  <2> QED BY <2>1 DEF From, Closed, ObjY, Children, Nodes
<1> DEFINE S == {d} \cup ObjY(d) \cup UNION {From(s) : s \in ObjY(d) \cap Dirs}
<1>3. S \subseteq From(d)
  BY <1>1, <1>2 DEF Closed
<1>4. Closed(S)
  <2> SUFFICES ASSUME NEW e \in S \cap Dirs PROVE ObjY(e) \subseteq S
    BY DEF Closed
  <2>1. CASE e \in ObjY(d)
    BY <1>2, <2>1 DEF Closed
  <2>2. ASSUME NEW s \in ObjY(d) \cap Dirs, e \in From(s) PROVE ObjY(e) \subseteq S
    BY <1>2, <2>2 DEF Closed
  <2> QED BY <2>1, <2>2
<1>5. S \subseteq Nodes
  BY <1>1, <1>3
<1>6. From(d) \subseteq S
  <2> HIDE DEF S
  <2>1. d \in S
    BY DEF S
  <2> QED BY <1>4, <1>5, <2>1 DEF From
<1> QED BY <1>1, <1>3, <1>6

(* From the lowest directories up, each built-in.o has all that is below it.    *)
LEMMA WholeTree == LinkInv /\ UpToDate /\ missed = {} =>
    \A d \in Dirs : d \in From(Root) =>
        out[d] = {<<l, src[l]>> : l \in From(d) \cap Leaves}
<1> SUFFICES ASSUME LinkInv, UpToDate, missed = {}
             PROVE  \A d \in Dirs : d \in From(Root) =>
                        out[d] = {<<l, src[l]>> : l \in From(d) \cap Leaves}
  OBVIOUS
<1> DEFINE S == {d \in Dirs : d \in From(Root) =>
                    out[d] = {<<l, src[l]>> : l \in From(d) \cap Leaves}}
<1>1. ASSUME NEW d \in Dirs, Children(d) \cap Dirs \subseteq S, d \in From(Root)
      PROVE  out[d] = {<<l, src[l]>> : l \in From(d) \cap Leaves}
  <2>1. ObjY(d) \subseteq From(Root)
    BY <1>1, FromBelow, DirsAssumption DEF Closed
  <2>2. out[d] = Gather(d, out)
    <3>1. out[d] # NoFile /\ newer[d] \cap ObjY(d) = {}
      BY <1>1 DEF LinkInv, TreeMade
    <3>2. \A n \in ObjY(d) : out[n] # NoFile
      BY <2>1 DEF LinkInv, TreeMade
    <3> QED BY <3>1, <3>2 DEF LinkInv, KeptLink
  <2>3. \A l \in ObjY(d) \cap Leaves : out[l] = src[l]
    BY <2>1 DEF LinkInv, TreeMade
  <2>4. \A s \in ObjY(d) \cap Dirs :
          out[s] = {<<l, src[l]>> : l \in From(s) \cap Leaves}
    BY <1>1, <2>1 DEF ObjY
  <2>5. From(d) \cap Leaves = (ObjY(d) \cap Leaves)
          \cup UNION {From(s) \cap Leaves : s \in ObjY(d) \cap Dirs}
    BY FromBelow, DirsAssumption
  <2>6. Gather(d, out) = {<<l, src[l]>> : l \in ObjY(d) \cap Leaves} \cup
          UNION {{<<l, src[l]>> : l \in From(s) \cap Leaves} : s \in ObjY(d) \cap Dirs}
    BY <2>3, <2>4 DEF Gather
  <2> QED BY <2>2, <2>5, <2>6
<1>2. S \in SUBSET Dirs /\ \A d \in Dirs : Children(d) \cap Dirs \subseteq S => d \in S
  BY <1>1
<1>3. S = Dirs
  <2> HIDE DEF S
  <2> QED BY <1>2, DirsAssumption
<1> QED BY <1>3

(* main.mk: whatever order the makes ran in and whatever was cut off before, a *)
(* finished build has linked what a build from scratch links, in any tree,     *)
(* unless a make read the time stamp of a built-in.o before it was linked.     *)
THEOREM FreshLink ==
    ASSUME "deselect" \notin Faults
    PROVE  Spec => []LinkedUnlessMissed
<1>1. LinkInv => LinkedUnlessMissed
  BY WholeTree, FromBelow, DirsAssumption DEF LinkedUnlessMissed, FromScratch
<1> QED BY <1>1, LinkInvInvariant, PTL

(* main.mk: what a make has missed is not lost. At all times a built-in.o that *)
(* is not what ld would make now, though all it links is there, is older than  *)
(* something it links, so that the make of the next run sees it.               *)
THEOREM StaleSeen ==
    ASSUME "deselect" \notin Faults
    PROVE  Spec => []KeptLink
<1>1. LinkInv => KeptLink
  BY DEF LinkInv
<1> QED BY <1>1, LinkInvInvariant, PTL
=============================================================================
