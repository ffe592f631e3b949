-------------------------- MODULE ConfWrite_proofs --------------------------
(* Proofs about the saving of a configuration, for any number of processes.    *)
EXTENDS ConfWrite, TLAPS

(* Only a process's own temporary file, once whole, is ever renamed.           *)
WholeFiles ==
    /\ dot # Partial /\ old # Partial
    /\ \A p \in Procs : pc[p] \in {"compare", "backup", "install"} => tmp[p] = new[p]

SaveInv == TypeOK /\ WholeFiles

LEMMA TypeInit == Init => TypeOK
BY DEF Init, TypeOK, Contents

LEMMA TypeNext == TypeOK /\ [Next]_vars => TypeOK'
<1> SUFFICES ASSUME TypeOK, [Next]_vars PROVE TypeOK'
  OBVIOUS
<1> USE DEF TypeOK, Contents, Goto, TmpOf
<1>1. ASSUME NEW p \in Procs, Open(p) PROVE TypeOK'
  BY <1>1 DEF Open
<1>2. ASSUME NEW p \in Procs, WriteAll(p) PROVE TypeOK'
  BY <1>2 DEF WriteAll
<1>3. ASSUME NEW p \in Procs, NoChange(p) \/ Change(p) \/ Die(p) PROVE TypeOK'
  BY <1>3 DEF NoChange, Change, Die
<1>4. ASSUME NEW p \in Procs, Backup(p) \/ Install(p) PROVE TypeOK'
  BY <1>4 DEF Backup, Install
<1>5. CASE UNCHANGED vars
  BY <1>5 DEF vars
<1> QED BY <1>1, <1>2, <1>3, <1>4, <1>5 DEF Next

LEMMA WholeNext ==
    ASSUME "full" \notin Faults
    PROVE  SaveInv /\ [Next]_vars => WholeFiles'
<1> SUFFICES ASSUME SaveInv, [Next]_vars PROVE WholeFiles'
  OBVIOUS
<1> USE TextsAssumption DEF SaveInv, TypeOK, WholeFiles, Goto, TmpOf
<1>1. ASSUME NEW p \in Procs, Open(p) PROVE WholeFiles'
  BY <1>1 DEF Open
<1>2. ASSUME NEW p \in Procs, WriteAll(p) PROVE WholeFiles'
  BY <1>2 DEF WriteAll
<1>3. ASSUME NEW p \in Procs, NoChange(p) \/ Change(p) \/ Die(p) PROVE WholeFiles'
  BY <1>3 DEF NoChange, Change, Die
<1>4. ASSUME NEW p \in Procs, Backup(p) \/ Install(p) PROVE WholeFiles'
  BY <1>4 DEF Backup, Install
<1>5. CASE UNCHANGED vars
  BY <1>5 DEF vars
<1> QED BY <1>1, <1>2, <1>3, <1>4, <1>5 DEF Next

LEMMA SaveInvInvariant ==
    ASSUME "full" \notin Faults
    PROVE  Spec => []SaveInv
<1>1. Init => SaveInv
  BY TypeInit, TextsAssumption DEF Init, SaveInv, WholeFiles
<1> QED BY <1>1, TypeNext, WholeNext, PTL DEF Spec, SaveInv

(* The variables of conf_write keep their types, even on a full disk.          *)
THEOREM TypeCorrect == Spec => []TypeOK
BY TypeInit, TypeNext, PTL DEF Spec

(* A backup does not change what can be had back.                              *)
LEMMA SaveStep ==
    ASSUME SaveInv, [Next]_vars, Saved' # Saved
    PROVE  \E p \in Procs : pc[p] = "install" /\ pc'[p] = "idle" /\ Saved' = new[p]
<1> USE TextsAssumption DEF SaveInv, TypeOK, WholeFiles, Goto, TmpOf, Saved
<1>1. ASSUME NEW p \in Procs, Install(p)
      PROVE  pc[p] = "install" /\ pc'[p] = "idle" /\ Saved' = new[p]
  BY <1>1 DEF Install
<1>2. ASSUME NEW p \in Procs, Backup(p) PROVE FALSE
  BY <1>2 DEF Backup
<1>3. ASSUME NEW p \in Procs,
             Open(p) \/ WriteAll(p) \/ NoChange(p) \/ Change(p) \/ Die(p)
      PROVE  FALSE
  BY <1>3 DEF Open, WriteAll, NoChange, Change, Die
<1> QED BY <1>1, <1>2, <1>3 DEF Next, vars

(* conf_write: however many processes save and die, the last saved             *)
(* configuration can be had back at every moment.                              *)
THEOREM SaveAtomic ==
    ASSUME "full" \notin Faults
    PROVE  Spec => SavesAtomic
<1>1. SaveInv /\ [Next]_vars =>
        [Saved' # Saved =>
            \E p \in Procs : pc[p] = "install" /\ pc'[p] = "idle" /\ Saved' = new[p]]_vars
  BY SaveStep
<1> QED BY <1>1, SaveInvInvariant, PTL DEF Spec, SavesAtomic
=============================================================================
