-------------------------- MODULE SofficeLockProofs --------------------------
(***************************************************************************)
(* Proofs about the cross-process launch lock: that it excludes, for any   *)
(* number of processes, as long as no process dies inside a guard section  *)
(* or while another one is about to act on the guard record it left; and   *)
(* that two processes clear the guard of one that did.  That the lock is   *)
(* in order follows from removers being serialized; what differs is why    *)
(* they are: GuardInv in the first case, ClearInv in the second.           *)
(***************************************************************************)
EXTENDS SofficeLock, TLAPS

(* A record of p names p, and is not the absence of a record. *)
LEMMA OwnRecords ==
  \A p \in Procs : \A r \in {p} \X Serials : r \in Records /\ r[1] = p /\ r # NoRecord
BY LockAssumption DEF Records

(* A new record is the process's own, and nothing refers to it yet. *)
LEMMA NewRecords ==
  \A p \in Procs : Unused(p) # {} =>
    NewRecord(p) \in {p} \X Serials /\ NewRecord(p) \notin InUse
BY DEF NewRecord, Unused

(* Types of the two files, and what the operators on files do. *)
LEMMA FileTypes ==
  /\ NoFile \notin Files
  /\ \A f \in Files \cup {NoFile} :
       /\ Exists(f) <=> f \in Files
       /\ ReadRecord(f) \in {f.rec, NoRecord}
       /\ f.rec \in Records \cup {NoRecord}
BY LockAssumption DEF NoFile, Files, Exists, ReadRecord

(* The files the actions write are files, and differ only where they say. *)
LEMMA NewFiles ==
  /\ \A r \in Records : Created(r) \in Files
  /\ \A f \in Files : Written(f) \in Files /\ Aged(f) \in Files
BY DEF Files, Created, Written, Aged

(* The types of the variables, apart from what LocalsOK says. *)
Types ==
  /\ faults \in Faults
  /\ lock \in Files \cup {NoFile}
  /\ guard \in Files \cup {NoFile}
  /\ alive \subseteq Procs \cup {Departed}
  /\ pc \in [Procs -> Stages]
  /\ mine \in [Procs -> Records \cup {NoRecord}]
  /\ seen \in [Procs -> Records \cup {NoRecord}]
  /\ gmine \in [Procs -> Records \cup {NoRecord}]
  /\ gseen \in [Procs -> Records \cup {NoRecord}]
  /\ aside \in [Procs -> Files \cup {NoFile}]
  /\ why \in [Procs -> {"steal", "release"}]

(* Every variable has its type, and the locals come and go with the        *)
(* acquisition and the guard section they belong to.                       *)
LEMMA StepKeepsTypes ==
  ASSUME TypeOK, [Next]_vars
  PROVE  TypeOK'
<1> USE OwnRecords, FileTypes, NewFiles DEF locals, Goto, Forget
<1>0. Types /\ \A q \in Procs : LocalsOK(q)
  BY DEF Types, TypeOK
<1>1. CASE UNCHANGED vars
  BY <1>1 DEF vars, TypeOK, LocalsOK, InSection
<1>2. ASSUME NEW p \in Procs, Start(p) PROVE TypeOK'
  <2>1. Types'
    BY <1>0, <1>2, NewRecords DEF Start, Types, Stages
  <2>2. ASSUME NEW q \in Procs PROVE LocalsOK(q)'
    BY <1>0, <1>2, <2>1, NewRecords DEF Start, Types, LocalsOK, InSection
  <2> QED BY <2>1, <2>2 DEF Types, TypeOK
<1>3. ASSUME NEW p \in Procs, Acquiring(p) PROVE TypeOK'
  <2>1. CASE CreateLock(p)
    <3>1. Types'
      <4>1. mine[p] \in Records
        BY <1>0, <2>1 DEF CreateLock, LocalsOK
      <4> QED BY <1>3, <2>1, <1>0, <4>1 DEF CreateLock, Types, Stages
    <3>2. ASSUME NEW q \in Procs PROVE LocalsOK(q)'
      BY <1>3, <2>1, <3>1, <1>0 DEF CreateLock, Types, LocalsOK, InSection
    <3> QED BY <3>1, <3>2 DEF Types, TypeOK
  <2>2. CASE WriteLock(p)
    <3>1. Types'
      <4>1. lock.rec = mine[p] => lock \in Files
        BY <1>0, <2>2 DEF WriteLock, LocalsOK, Types, Exists
      <4> QED BY <1>3, <2>2, <1>0, <4>1 DEF WriteLock, Types, Stages
    <3>2. ASSUME NEW q \in Procs PROVE LocalsOK(q)'
      BY <1>3, <2>2, <3>1, <1>0 DEF WriteLock, Types, LocalsOK, InSection
    <3> QED BY <3>1, <3>2 DEF Types, TypeOK
  <2>3. CASE WriteLockFails(p)
    <3>1. Types'
      BY <1>3, <2>3, <1>0 DEF WriteLockFails, Types, Stages
    <3>2. ASSUME NEW q \in Procs PROVE LocalsOK(q)'
      BY <1>3, <2>3, <3>1, <1>0 DEF WriteLockFails, Types, LocalsOK, InSection
    <3> QED BY <3>1, <3>2 DEF Types, TypeOK
  <2>4. CASE EndLaunch(p)
    <3>1. Types'
      BY <1>3, <2>4, <1>0 DEF EndLaunch, Types, Stages
    <3>2. ASSUME NEW q \in Procs PROVE LocalsOK(q)'
      BY <1>3, <2>4, <3>1, <1>0 DEF EndLaunch, Types, LocalsOK, InSection
    <3> QED BY <3>1, <3>2 DEF Types, TypeOK
  <2>5. CASE ReadLock(p)
    <3>1. Types'
      BY <1>3, <2>5, <1>0 DEF ReadLock, Types, Stages
    <3>2. ASSUME NEW q \in Procs PROVE LocalsOK(q)'
      BY <1>3, <2>5, <3>1, <1>0 DEF ReadLock, Types, LocalsOK, InSection
    <3> QED BY <3>1, <3>2 DEF Types, TypeOK
  <2>6. CASE JudgeLock(p)
    <3>1. Types'
      BY <1>3, <2>6, <1>0 DEF JudgeLock, Types, Stages
    <3>2. ASSUME NEW q \in Procs PROVE LocalsOK(q)'
      BY <1>3, <2>6, <3>1, <1>0 DEF JudgeLock, Types, LocalsOK, InSection
    <3> QED BY <3>1, <3>2 DEF Types, TypeOK
  <2>7. CASE Retry(p)
    <3>1. Types'
      BY <1>3, <2>7, <1>0 DEF Retry, Types, Stages
    <3>2. ASSUME NEW q \in Procs PROVE LocalsOK(q)'
      BY <1>3, <2>7, <3>1, <1>0 DEF Retry, Types, LocalsOK, InSection
    <3> QED BY <3>1, <3>2 DEF Types, TypeOK
  <2>8. CASE TimeOut(p)
    <3>1. Types'
      BY <1>3, <2>8, <1>0 DEF TimeOut, Types, Stages
    <3>2. ASSUME NEW q \in Procs PROVE LocalsOK(q)'
      BY <1>3, <2>8, <3>1, <1>0 DEF TimeOut, Types, LocalsOK, InSection
    <3> QED BY <3>1, <3>2 DEF Types, TypeOK
  <2> QED BY <1>3, <2>1, <2>2, <2>3, <2>4, <2>5, <2>6, <2>7, <2>8 DEF Acquiring
<1>4. ASSUME NEW p \in Procs, Guarding(p) PROVE TypeOK'
  <2>1. CASE CreateGuard(p)
    <3>1. Types'
      BY <1>4, <2>1, <1>0, NewRecords DEF CreateGuard, Types, Stages
    <3>2. ASSUME NEW q \in Procs PROVE LocalsOK(q)'
      BY <1>4, <2>1, <3>1, <1>0, NewRecords DEF CreateGuard, Types, LocalsOK, InSection
    <3> QED BY <3>1, <3>2 DEF Types, TypeOK
  <2>2. CASE WriteGuard(p)
    <3>1. gmine[p] \in Records
      BY <1>0, <2>2 DEF WriteGuard, LocalsOK, InSection
    <3>2. \A f \in Files \cup {NoFile} : f.rec = gmine[p] => f \in Files
      BY <3>1, LockAssumption DEF Exists
    <3>3. \A f \in Files : Exists(Written(f))
      BY DEF Exists
    <3>4. Types'
      <4>1. aside' \in [Procs -> Files \cup {NoFile}]
        BY <1>0, <2>2, <3>2 DEF WriteGuard, Types
      <4> QED BY <1>4, <2>2, <1>0, <3>2, <4>1 DEF WriteGuard, Types, Stages
    <3>5. ASSUME NEW q \in Procs PROVE LocalsOK(q)'
      <4>1. Exists(aside[q])' <=> Exists(aside[q])
        BY <1>0, <2>2, <3>2, <3>3 DEF WriteGuard, Types
      <4> QED BY <1>4, <2>2, <3>4, <1>0, <4>1 DEF WriteGuard, Types, LocalsOK, InSection
    <3> QED BY <3>4, <3>5 DEF Types, TypeOK
  <2>3. CASE WriteGuardFails(p)
    <3>1. Types'
      BY <1>4, <2>3, <1>0 DEF WriteGuardFails, Types, Stages
    <3>2. ASSUME NEW q \in Procs PROVE LocalsOK(q)'
      BY <1>4, <2>3, <3>1, <1>0 DEF WriteGuardFails, Types, LocalsOK, InSection
    <3> QED BY <3>1, <3>2 DEF Types, TypeOK
  <2>4. CASE ReadGuard(p)
    <3>1. Types'
      BY <1>4, <2>4, <1>0 DEF ReadGuard, Types, Stages
    <3>2. ASSUME NEW q \in Procs PROVE LocalsOK(q)'
      BY <1>4, <2>4, <3>1, <1>0 DEF ReadGuard, Types, LocalsOK, InSection
    <3> QED BY <3>1, <3>2 DEF Types, TypeOK
  <2>5. CASE JudgeGuard(p)
    <3>1. Types'
      BY <1>4, <2>5, <1>0 DEF JudgeGuard, Types, Stages
    <3>2. ASSUME NEW q \in Procs PROVE LocalsOK(q)'
      BY <1>4, <2>5, <3>1, <1>0 DEF JudgeGuard, Types, LocalsOK, InSection
    <3> QED BY <3>1, <3>2 DEF Types, TypeOK
  <2>6. CASE RetryGuard(p)
    <3>1. Types'
      BY <1>4, <2>6, <1>0 DEF RetryGuard, Types, Stages
    <3>2. ASSUME NEW q \in Procs PROVE LocalsOK(q)'
      BY <1>4, <2>6, <3>1, <1>0 DEF RetryGuard, Types, LocalsOK, InSection
    <3> QED BY <3>1, <3>2 DEF Types, TypeOK
  <2>7. CASE TimeOutOnGuard(p)
    <3>1. Types'
      BY <1>4, <2>7, <1>0 DEF TimeOutOnGuard, Types, Stages
    <3>2. ASSUME NEW q \in Procs PROVE LocalsOK(q)'
      BY <1>4, <2>7, <3>1, <1>0 DEF TimeOutOnGuard, Types, LocalsOK, InSection
    <3> QED BY <3>1, <3>2 DEF Types, TypeOK
  <2>8. CASE RenameGuard(p)
    <3>1. Types'
      BY <1>4, <2>8, <1>0 DEF RenameGuard, Types, Stages
    <3>2. ASSUME NEW q \in Procs PROVE LocalsOK(q)'
      BY <1>4, <2>8, <3>1, <1>0 DEF RenameGuard, Types, LocalsOK, InSection
    <3> QED BY <3>1, <3>2 DEF Types, TypeOK
  <2>9. CASE InspectAside(p)
    <3>1. Types'
      BY <1>4, <2>9, <1>0 DEF InspectAside, Types, Stages
    <3>2. ASSUME NEW q \in Procs PROVE LocalsOK(q)'
      BY <1>4, <2>9, <3>1, <1>0 DEF InspectAside, Types, LocalsOK, InSection
    <3> QED BY <3>1, <3>2 DEF Types, TypeOK
  <2>10. CASE PutBack(p)
    <3>1. Types'
      BY <1>4, <2>10, <1>0 DEF PutBack, Types, Stages
    <3>2. ASSUME NEW q \in Procs PROVE LocalsOK(q)'
      BY <1>4, <2>10, <3>1, <1>0 DEF PutBack, Types, LocalsOK, InSection
    <3> QED BY <3>1, <3>2 DEF Types, TypeOK
  <2>11. CASE ConfirmLock(p)
    <3>1. Types'
      BY <1>4, <2>11, <1>0 DEF ConfirmLock, Types, Stages
    <3>2. ASSUME NEW q \in Procs PROVE LocalsOK(q)'
      BY <1>4, <2>11, <3>1, <1>0 DEF ConfirmLock, Entitled, Types, LocalsOK, InSection
    <3> QED BY <3>1, <3>2 DEF Types, TypeOK
  <2>12. CASE ConfirmAge(p)
    <3>1. Types'
      BY <1>4, <2>12, <1>0 DEF ConfirmAge, Types, Stages
    <3>2. ASSUME NEW q \in Procs PROVE LocalsOK(q)'
      BY <1>4, <2>12, <3>1, <1>0 DEF ConfirmAge, Types, LocalsOK, InSection
    <3> QED BY <3>1, <3>2 DEF Types, TypeOK
  <2>13. CASE RemoveLock(p)
    <3>1. Types'
      BY <1>4, <2>13, <1>0 DEF RemoveLock, Types, Stages
    <3>2. ASSUME NEW q \in Procs PROVE LocalsOK(q)'
      BY <1>4, <2>13, <3>1, <1>0 DEF RemoveLock, Types, LocalsOK, InSection
    <3> QED BY <3>1, <3>2 DEF Types, TypeOK
  <2>14. CASE ReadOwnGuard(p)
    <3>1. Types'
      BY <1>4, <2>14, <1>0 DEF ReadOwnGuard, Types, Stages
    <3>2. ASSUME NEW q \in Procs PROVE LocalsOK(q)'
      BY <1>4, <2>14, <3>1, <1>0 DEF ReadOwnGuard, Types, LocalsOK, InSection
    <3> QED BY <3>1, <3>2 DEF Types, TypeOK
  <2>15. CASE RemoveGuard(p)
    <3>1. Types'
      BY <1>4, <2>15, <1>0 DEF RemoveGuard, Types, Stages
    <3>2. ASSUME NEW q \in Procs PROVE LocalsOK(q)'
      BY <1>4, <2>15, <3>1, <1>0 DEF RemoveGuard, Types, LocalsOK, InSection
    <3> QED BY <3>1, <3>2 DEF Types, TypeOK
  <2>16. CASE LeaveGuard(p)
    <3>1. Types'
      <4>1. CASE why[p] = "release"
        BY <1>4, <2>16, <1>0, <4>1 DEF LeaveGuard, Types, Stages
      <4>2. CASE why[p] # "release"
        BY <1>4, <2>16, <1>0, <4>2 DEF LeaveGuard, Types, Stages
      <4> QED BY <4>1, <4>2
    <3>2. ASSUME NEW q \in Procs PROVE LocalsOK(q)'
      BY <1>4, <2>16, <3>1, <1>0 DEF LeaveGuard, Types, LocalsOK, InSection
    <3> QED BY <3>1, <3>2 DEF Types, TypeOK
  <2> QED BY <1>4, <2>1, <2>2, <2>3, <2>4, <2>5, <2>6, <2>7, <2>8, <2>9, <2>10, <2>11, <2>12, <2>13, <2>14, <2>15, <2>16
          DEF Guarding
<1>5. ASSUME NEW p \in Procs, Crash(p) PROVE TypeOK'
  <2>1. Types'
    BY <1>0, <1>5 DEF Crash, Types, Stages
  <2>2. ASSUME NEW q \in Procs PROVE LocalsOK(q)'
    BY <1>0, <1>5, <2>1 DEF Crash, Types, LocalsOK, InSection
  <2> QED BY <2>1, <2>2 DEF Types, TypeOK
<1>6. ASSUME NEW p \in Procs \cup {Departed}, ReusePid(p) PROVE TypeOK'
  BY <1>6 DEF ReusePid, TypeOK, LocalsOK, InSection
<1>7. CASE LockAges \/ GuardAges
  BY <1>7 DEF LockAges, GuardAges, TypeOK, LocalsOK, InSection
<1> QED BY <1>1, <1>2, <1>3, <1>4, <1>5, <1>6, <1>7 DEF Next, Step

(* Every variable of the lock keeps its type, whichever processes die.     *)
THEOREM LockTypeCorrect == Spec => []TypeOK
<1>1. Init => TypeOK
  <2>1. ASSUME NEW text \in BOOLEAN PROVE Leftover(text) \in Files
    BY LockAssumption DEF Leftover, Files, Records
  <2>2. Init => Types
    <3>1. {NoFile, Leftover(TRUE), Leftover(FALSE)} \subseteq Files \cup {NoFile}
      BY <2>1
    <3>2. {NoFile} \cup {Leftover(text) : text \in BOOLEAN} \subseteq Files \cup {NoFile}
      BY <2>1
    <3> HIDE <2>1
    <3>3. Init => faults.left \subseteq BOOLEAN
      BY LockAssumption DEF Init, FaultRecords
    <3>4. Init => guard \in {NoFile} \cup {Leftover(text) : text \in BOOLEAN}
      BY <3>3 DEF Init
    <3> QED BY <3>1, <3>2, <3>4 DEF Init, Types, Stages
  <2>3. Init => \A p \in Procs : LocalsOK(p)
    BY DEF Init, LocalsOK, InSection, Exists, NoFile
  <2> QED BY <2>2, <2>3 DEF Types, TypeOK
<1>2. TypeOK /\ [Next]_vars => TypeOK'
  BY StepKeepsTypes
<1> QED BY <1>1, <1>2, PTL DEF Spec

(* What may go wrong in a run is settled when it starts.                   *)
LEMMA FaultsAreSettled == [Next]_vars => faults' = faults
<1> SUFFICES ASSUME [Next]_vars PROVE faults' = faults
  OBVIOUS
<1>1. ASSUME NEW p \in Procs, Start(p) \/ Crash(p) PROVE faults' = faults
  BY <1>1 DEF Start, Crash
<1>2. ASSUME NEW p \in Procs, Acquiring(p) PROVE faults' = faults
  BY <1>2 DEF Acquiring, CreateLock, WriteLock, WriteLockFails, EndLaunch, ReadLock, JudgeLock,
     Retry, TimeOut
<1>3. ASSUME NEW p \in Procs, Guarding(p) PROVE faults' = faults
  BY <1>3 DEF Guarding, CreateGuard, WriteGuard, WriteGuardFails, ReadGuard, JudgeGuard,
     RetryGuard, TimeOutOnGuard, RenameGuard, InspectAside, PutBack, ConfirmLock, ConfirmAge,
     RemoveLock, ReadOwnGuard, RemoveGuard, LeaveGuard
<1>4. ASSUME NEW p \in Procs \cup {Departed}, ReusePid(p) PROVE faults' = faults
  BY <1>4 DEF ReusePid
<1>5. CASE LockAges \/ GuardAges
  BY <1>5 DEF LockAges, GuardAges
<1>6. CASE UNCHANGED vars
  BY <1>6 DEF vars
<1> QED BY <1>1, <1>2, <1>3, <1>4, <1>5, <1>6 DEF Next, Step

------------------------------------------------------------------------------

(* A run in which no process dies inside a guard section, or while another one has yet to *)
(* act on the guard record it read from it.                                *)
GuardsAreReturned == faults.deaths \in {"none", "unobserved"} /\ faults.left = {}

(* The guard names the process that is in its section, nobody else, and    *)
(* nobody ever finds a guard stale.                                        *)
GuardInv ==
  /\ ~guard.old
  /\ Exists(guard) => \E p \in Procs : InSection(p) /\ guard.rec = gmine[p]
  /\ \A p \in Procs :
       /\ pc[p] # "idle" => p \in alive
       /\ InSection(p) => guard.rec = gmine[p]
       /\ InSection(p) /\ pc[p] # "gwrite" => guard.text
       /\ gseen[p] # NoRecord => \E q \in Procs : q # p /\ gseen[p][1] = q /\ q \in alive
       /\ pc[p] \notin {"clear", "inspect", "putback"}

(* One process at a time is in its section. *)
LEMMA SectionsExclude ==
  ASSUME TypeOK, GuardInv
  PROVE  /\ RemoversSerialized
         /\ \A p, q \in Procs : InSection(p) /\ InSection(q) => p = q
<1>1. ASSUME NEW p \in Procs, NEW q \in Procs, InSection(p), InSection(q)
      PROVE  p = q
  <2>1. gmine[p] \in {p} \X Serials /\ gmine[q] \in {q} \X Serials /\ gmine[p] = gmine[q]
    BY <1>1 DEF TypeOK, LocalsOK, GuardInv
  <2> QED BY <2>1, OwnRecords
<1> QED BY <1>1 DEF RemoversSerialized

(* Opening, writing, releasing and clearing the guard: one step keeps the  *)
(* guard in order.                                                         *)
LEMMA StepKeepsGuard ==
  ASSUME GuardsAreReturned, TypeOK, GuardInv, [Next]_vars
  PROVE  GuardInv'
<1> USE OwnRecords, FileTypes DEF locals, Goto, Forget
<1>0. Types /\ \A q \in Procs : LocalsOK(q)
  BY DEF Types, TypeOK
<1>e. \A p, q \in Procs : InSection(p) /\ InSection(q) => p = q
  BY SectionsExclude
<1>1. CASE UNCHANGED vars
  BY <1>1 DEF vars, GuardInv, InSection
<1>2. ASSUME NEW p \in Procs, Start(p) PROVE GuardInv'
  BY <1>0, <1>2 DEF Start, Types, GuardInv, InSection
<1>3. ASSUME NEW p \in Procs, Acquiring(p) PROVE GuardInv'
  BY <1>0, <1>3 DEF Acquiring, CreateLock, WriteLock, WriteLockFails, EndLaunch, ReadLock,
       JudgeLock, Retry, TimeOut, Types, GuardInv, InSection
<1>4. ASSUME NEW p \in Procs, Guarding(p) PROVE GuardInv'
  <2>1. CASE CreateGuard(p)
    <3>1. CASE Exists(guard)
      BY <1>0, <2>1, <3>1 DEF CreateGuard, Types, GuardInv, InSection
    <3>2. CASE ~Exists(guard)
      <4>1. /\ guard' = Created(gmine'[p])
            /\ gmine' = [gmine EXCEPT ![p] = NewRecord(p)]
            /\ pc' = [pc EXCEPT ![p] = "gwrite"] /\ pc[p] = "gcreate"
            /\ UNCHANGED <<alive, gseen>>
        BY <1>0, <2>1, <3>2 DEF CreateGuard, Types
      <4>2. guard'.rec = gmine'[p] /\ ~guard'.old
        BY <4>1 DEF Created
      <4>3. \A q \in Procs : ~InSection(q)
        BY <1>0, <3>2, OwnRecords DEF GuardInv, LocalsOK, Exists
      <4> QED BY <1>0, <4>1, <4>2, <4>3 DEF Types, GuardInv, InSection
    <3> QED BY <3>1, <3>2
  <2>2. CASE WriteGuard(p)
    BY <1>0, <2>2 DEF WriteGuard, Types, GuardInv, InSection, Written, Exists
  <2>3. CASE WriteGuardFails(p)
    BY <1>0, <1>e, <2>3 DEF WriteGuardFails, Types, GuardInv, InSection, NoFile, Exists
  <2>4. CASE ReadGuard(p)
    <3>1. ReadRecord(guard) # NoRecord =>
            \E q \in Procs : q # p /\ ReadRecord(guard)[1] = q /\ q \in alive
      <4>1. SUFFICES ASSUME ReadRecord(guard) # NoRecord
                     PROVE  \E q \in Procs : q # p /\ ReadRecord(guard)[1] = q /\ q \in alive
        OBVIOUS
      <4>2. ReadRecord(guard) = guard.rec /\ Exists(guard)
        BY <4>1 DEF ReadRecord, Exists
      <4>3. PICK q \in Procs : InSection(q) /\ guard.rec = gmine[q]
        BY <4>2 DEF GuardInv
      <4>4. gmine[q] \in {q} \X Serials /\ pc[q] # "idle" /\ q # p
        BY <1>0, <4>3, <2>4 DEF LocalsOK, InSection, ReadGuard
      <4> QED BY <4>2, <4>3, <4>4, OwnRecords DEF GuardInv
    <3> QED BY <1>0, <2>4, <3>1 DEF ReadGuard, Types, GuardInv, InSection
  <2>5. CASE JudgeGuard(p)
    BY <1>0, <2>5 DEF JudgeGuard, GuardStale, HolderAlive, Types, GuardInv, InSection
  <2>6. CASE RetryGuard(p) \/ TimeOutOnGuard(p) \/ ConfirmLock(p) \/ ConfirmAge(p) \/ RemoveLock(p)
    BY <1>0, <2>6 DEF RetryGuard, TimeOutOnGuard, ConfirmLock, ConfirmAge, RemoveLock,
         Types, GuardInv, InSection
  <2>7. CASE RenameGuard(p) \/ InspectAside(p) \/ PutBack(p)
    BY <2>7 DEF RenameGuard, InspectAside, PutBack, GuardInv
  <2>8. CASE ReadOwnGuard(p)
    BY <1>0, <2>8 DEF ReadOwnGuard, ReadRecord, Types, GuardInv, InSection
  <2>9. CASE RemoveGuard(p)
    BY <1>0, <1>e, <2>9 DEF RemoveGuard, Types, GuardInv, InSection, NoFile, Exists
  <2>10. CASE LeaveGuard(p)
    BY <1>0, <2>10 DEF LeaveGuard, Types, GuardInv, InSection
  <2> QED BY <1>4, <2>1, <2>2, <2>3, <2>4, <2>5, <2>6, <2>7, <2>8, <2>9, <2>10 DEF Guarding
<1>5. ASSUME NEW p \in Procs, Crash(p) PROVE GuardInv'
  BY <1>0, <1>5 DEF Crash, GuardsAreReturned, Observed, Types, GuardInv, InSection
<1>6. ASSUME NEW p \in Procs \cup {Departed}, ReusePid(p) PROVE GuardInv'
  BY <1>6 DEF ReusePid, GuardInv, InSection
<1>7. CASE LockAges
  BY <1>7 DEF LockAges, GuardInv, InSection
<1>8. CASE GuardAges
  BY <1>8 DEF GuardAges, GuardInv
<1> QED BY <1>1, <1>2, <1>3, <1>4, <1>5, <1>6, <1>7, <1>8 DEF Next, Step

------------------------------------------------------------------------------

(* p has judged the record in seen[p] stale and has yet to confirm it. *)
Condemning(p) ==
  /\ why[p] = "steal" /\ seen[p] # NoRecord
  /\ pc[p] \in {"gcreate", "gwrite", "gread", "gjudge", "gpoll", "clear", "inspect",
                "putback", "confirm"}

(* p is about to remove a lockfile that is not its own. *)
Stealing(p) == pc[p] = "remove" /\ why[p] = "steal"

(* p wants the lock and has not created the lockfile. *)
Waiting(p) == pc[p] # "idle" /\ why[p] = "steal" /\ pc[p] \notin {"write", "hold"}

(* Who relies on the lockfile finds its own record in it, young; nobody's  *)
(* record is condemned while he relies on it; and a steal that has been    *)
(* confirmed removes a lockfile that exists and nobody relies on.          *)
LockInv ==
  \A p \in Procs :
    /\ Relies(p) => lock.rec = mine[p] /\ ~lock.old
    /\ Relies(p) /\ pc[p] # "write" => lock.text
    /\ Waiting(p) => lock.rec # mine[p]
    /\ Stealing(p) => Exists(lock)
    /\ \A q \in Procs :
         /\ Condemning(p) /\ Relies(q) => seen[p] # mine[q]
         /\ Waiting(q) => seen[p] # mine[q]
         /\ Stealing(p) => ~Relies(q)

(* At most one process relies on the lockfile. *)
LEMMA OneRelies ==
  ASSUME TypeOK, LockInv
  PROVE  \A p, q \in Procs : Relies(p) /\ Relies(q) => p = q
<1>1. ASSUME NEW p \in Procs, NEW q \in Procs, Relies(p), Relies(q)
      PROVE  p = q
  <2>1. mine[p] = mine[q]
    BY <1>1 DEF LockInv
  <2>2. mine[p] \in {p} \X Serials /\ mine[q] \in {q} \X Serials
    BY <1>1 DEF TypeOK, LocalsOK, Relies
  <2> QED BY <2>1, <2>2, OwnRecords
<1> QED BY <1>1

(* Whoever has an acquisition under way exists. *)
RunningAlive == \A p \in Procs : pc[p] # "idle" => p \in alive

(* Creating, judging, releasing and stealing the lockfile: one step keeps  *)
(* the lock in order, as long as removers are serialized.                  *)
LEMMA StepKeepsLock ==
  ASSUME TypeOK, RunningAlive, RemoversSerialized, LockInv, [Next]_vars
  PROVE  LockInv'
<1> USE OwnRecords, FileTypes DEF locals, Goto, Forget
<1>0. Types /\ \A q \in Procs : LocalsOK(q)
  BY DEF Types, TypeOK
<1>e. \A p, q \in Procs : InSection(p) /\ InSection(q) => p = q
  BY DEF RemoversSerialized
<1>r. \A p, q \in Procs : Relies(p) /\ Relies(q) => p = q
  BY OneRelies
<1>m. \A q \in Procs : pc[q] # "idle" => mine[q] \in {q} \X Serials /\ mine[q] # NoRecord
  BY <1>0 DEF LocalsOK
(* A step after which every process has at most the roles it had, and that *)
(* leaves the lockfile and the records alone.                              *)
<1>k. ASSUME UNCHANGED <<lock, mine>>,
             \A q \in Procs :
               /\ seen'[q] \in {seen[q], NoRecord}
               /\ Relies(q)' => Relies(q) /\ (pc'[q] = "write" <=> pc[q] = "write")
               /\ Waiting(q)' => Waiting(q)
               /\ Condemning(q)' => Condemning(q)
               /\ Stealing(q)' => Stealing(q)
      PROVE  LockInv'
  BY <1>k, <1>m DEF LockInv, Condemning, Waiting
<1>1. CASE UNCHANGED vars
  BY <1>1 DEF vars, LockInv, Relies, Waiting, Condemning, Stealing
<1>5. ASSUME NEW p \in Procs, Crash(p) PROVE LockInv'
  BY <1>0, <1>m, <1>5 DEF Crash, Types, LockInv, Relies, Waiting, Condemning, Stealing
<1>6. ASSUME NEW p \in Procs \cup {Departed}, ReusePid(p) PROVE LockInv'
  BY <1>6 DEF ReusePid, LockInv, Relies, Waiting, Condemning, Stealing
<1>7. CASE LockAges
  BY <1>0, <1>7 DEF LockAges, Aged, LockInv, Relies, Waiting, Condemning, Stealing, Exists
<1>8. CASE GuardAges
  BY <1>8 DEF GuardAges, LockInv, Relies, Waiting, Condemning, Stealing
<1>2. ASSUME NEW p \in Procs, Start(p) PROVE LockInv'
  <2>1. mine'[p] \notin InUse /\ \A q \in Procs : q # p => mine'[q] = mine[q]
    BY <1>0, <1>2, NewRecords DEF Start, Types
  <2> QED BY <1>0, <1>2, <1>m, <2>1
          DEF Start, InUse, Types, LockInv, Relies, Waiting, Condemning, Stealing
<1>3. ASSUME NEW p \in Procs, Acquiring(p) PROVE LockInv'
  <2>1. CASE CreateLock(p)
    <3>1. CASE Exists(lock)
      BY <1>0, <2>1, <3>1
         DEF CreateLock, Types, LockInv, Relies, Waiting, Condemning, Stealing
    <3>2. CASE ~Exists(lock)
      <4>1. \A q \in Procs : ~Relies(q) /\ ~Stealing(q)
        BY <1>m, <3>2 DEF LockInv, Relies, Exists
      <4>2. lock'.rec = mine[p] /\ ~lock'.old
        BY <2>1, <3>2 DEF CreateLock, Created
      <4>3. \A q \in Procs : q # p => mine[q] # mine[p] \/ mine[q] = NoRecord
        BY <1>0, <1>m, <2>1 DEF CreateLock, LocalsOK
      <4>4. /\ pc' = [pc EXCEPT ![p] = "write"] /\ pc[p] = "create"
            /\ UNCHANGED <<mine, seen, why>>
        BY <2>1, <3>2 DEF CreateLock
      <4>p. /\ pc'[p] = "write" /\ why[p] = "steal"
            /\ \A q \in Procs : q # p => pc'[q] = pc[q]
        BY <1>0, <4>4 DEF Types, LocalsOK
      <4>5. ASSUME NEW q \in Procs
            PROVE  /\ Relies(q)' <=> q = p
                   /\ Waiting(q)' <=> Waiting(q) /\ q # p
                   /\ ~Stealing(q)'
                   /\ Condemning(q)' => Condemning(q)
        <5>1. CASE q = p
          BY <4>p, <5>1 DEF Relies, Waiting, Condemning, Stealing
        <5>2. CASE q # p
          BY <4>p, <4>1, <4>4, <5>2 DEF Relies, Waiting, Condemning, Stealing
        <5> QED BY <5>1, <5>2
      <4>6. \A q \in Procs : seen[q] # mine[p]
        BY <1>0, <4>4 DEF LockInv, Waiting, LocalsOK
      <4>7. \A q \in Procs : Waiting(q)' => lock'.rec # mine'[q]
        <5> SUFFICES ASSUME NEW q \in Procs, Waiting(q)' PROVE mine[p] # mine[q]
          BY <4>2, <4>4
        <5>1. q # p /\ Waiting(q)
          BY <4>5
        <5> QED BY <1>m, <4>3, <5>1 DEF Waiting
      <4>8. \A q \in Procs : Relies(q)' => pc'[q] = "write"
        BY <4>p, <4>5
      <4> QED BY <4>2, <4>4, <4>5, <4>6, <4>7, <4>8 DEF LockInv
    <3> QED BY <3>1, <3>2
  <2>2. CASE WriteLock(p)
    BY <1>0, <1>r, <2>2
       DEF WriteLock, Written, Types, LockInv, Relies, Waiting, Condemning, Stealing, Exists
  <2>3. CASE WriteLockFails(p)
    BY <1>0, <1>r, <1>m, <2>3
       DEF WriteLockFails, NoFile, Types, LockInv, Relies, Waiting, Condemning, Stealing
  <2>4. CASE EndLaunch(p)
    BY <1>0, <2>4 DEF EndLaunch, Types, LockInv, Relies, Waiting, Condemning, Stealing
  <2>5. CASE ReadLock(p)
    BY <1>0, <1>m, <2>5
       DEF ReadLock, Types, LockInv, Relies, Waiting, Condemning, Stealing
  <2>6. CASE JudgeLock(p)
    <3>1. Exists(lock) /\ Stale(seen[p], lock) /\ seen[p] # NoRecord =>
            \A q \in Procs : Relies(q) => seen[p] # mine[q]
      BY <1>m DEF Stale, HolderAlive, LockInv, RunningAlive, Relies
    <3>2. CASE Exists(lock) /\ Stale(seen[p], lock)
      <4>1. /\ pc' = [pc EXCEPT ![p] = "gcreate"] /\ pc[p] = "judge"
            /\ why' = [why EXCEPT ![p] = "steal"]
            /\ UNCHANGED <<lock, mine, seen>>
        BY <2>6, <3>2 DEF JudgeLock
      <4>2. why[p] = "steal"
        BY <1>0, <4>1 DEF LocalsOK, Types
      <4>p. /\ pc'[p] = "gcreate" /\ why'[p] = "steal"
            /\ \A q \in Procs : q # p => pc'[q] = pc[q] /\ why'[q] = why[q]
        BY <1>0, <4>1 DEF Types
      <4>3. ASSUME NEW q \in Procs
            PROVE  /\ Relies(q)' <=> Relies(q)
                   /\ (pc'[q] = "write") <=> (pc[q] = "write")
                   /\ Waiting(q)' <=> Waiting(q)
                   /\ Stealing(q)' <=> Stealing(q)
                   /\ Condemning(q)' => Condemning(q) \/ (q = p /\ seen[p] # NoRecord)
        <5>1. CASE q = p
          BY <4>1, <4>2, <4>p, <5>1 DEF Relies, Waiting, Condemning, Stealing
        <5>2. CASE q # p
          BY <4>p, <4>1, <5>2 DEF Relies, Waiting, Condemning, Stealing
        <5> QED BY <5>1, <5>2
      <4> QED BY <3>1, <3>2, <4>1, <4>3 DEF LockInv
    <3>3. CASE ~(Exists(lock) /\ Stale(seen[p], lock))
      BY <1>0, <1>m, <2>6, <3>3
         DEF JudgeLock, Types, LockInv, Relies, Waiting, Condemning, Stealing
    <3> QED BY <3>2, <3>3
  <2>7. CASE Retry(p) \/ TimeOut(p)
    BY <1>0, <1>m, <2>7
       DEF Retry, TimeOut, Types, LockInv, Relies, Waiting, Condemning, Stealing
  <2> QED BY <1>3, <2>1, <2>2, <2>3, <2>4, <2>5, <2>6, <2>7 DEF Acquiring
<1>4. ASSUME NEW p \in Procs, Guarding(p) PROVE LockInv'
  <2>1. CASE CreateGuard(p) \/ WriteGuard(p)
    BY <1>0, <2>1
       DEF CreateGuard, WriteGuard, Types, LockInv, Relies, Waiting, Condemning, Stealing
  <2>2. CASE WriteGuardFails(p) \/ TimeOutOnGuard(p)
    BY <1>0, <1>m, <2>2 DEF WriteGuardFails, TimeOutOnGuard, Types, LockInv,
         Relies, Waiting, Condemning, Stealing
  <2>3. CASE ReadGuard(p) \/ JudgeGuard(p) \/ RetryGuard(p)
    BY <1>0, <2>3 DEF ReadGuard, JudgeGuard, RetryGuard, Types, LockInv,
         Relies, Waiting, Condemning, Stealing
  <2>4. CASE RenameGuard(p) \/ InspectAside(p) \/ PutBack(p)
    BY <1>0, <2>4 DEF RenameGuard, InspectAside, PutBack, Types, LockInv,
         Relies, Waiting, Condemning, Stealing
  <2>5. CASE ConfirmLock(p)
    <3>1. CASE why[p] = "release"
      <4>1. ReadRecord(lock) = Entitled(p) /\ Entitled(p) # NoRecord
        BY <1>m, <2>5, <3>1 DEF ConfirmLock, LockInv, Relies, ReadRecord, Entitled
      <4> QED BY <1>0, <2>5, <3>1, <4>1
              DEF ConfirmLock, Types, LockInv, Relies, Waiting, Condemning, Stealing
    <3>2. CASE why[p] = "steal"
      <4>1. CASE ReadRecord(lock) # seen[p] \/ seen[p] = NoRecord
        BY <1>0, <2>5, <3>2, <4>1
           DEF ConfirmLock, Entitled, Types, LockInv, Relies, Waiting, Condemning, Stealing
      <4>2. CASE ReadRecord(lock) = seen[p] /\ seen[p] # NoRecord
        <5>1. lock.rec = seen[p] /\ Exists(lock)
          BY <4>2 DEF ReadRecord, Exists
        <5>2. \A q \in Procs : ~Relies(q)
          BY <2>5, <3>2, <4>2, <5>1 DEF ConfirmLock, LockInv, Condemning
        <5> QED BY <1>0, <2>5, <3>2, <4>2, <5>1, <5>2
              DEF ConfirmLock, Entitled, Types, LockInv, Relies, Waiting, Condemning, Stealing
      <4> QED BY <4>1, <4>2
    <3> QED BY <1>0, <3>1, <3>2 DEF Types
  <2>6. CASE ConfirmAge(p)
    <3>1. why[p] = "steal"
      BY <1>0, <2>6 DEF ConfirmAge, LocalsOK, Types
    <3> QED BY <1>0, <2>6, <3>1
          DEF ConfirmAge, Types, LockInv, Relies, Waiting, Condemning, Stealing
  <2>7. CASE RemoveLock(p)
    <3>1. \A q \in Procs : q # p => ~Relies(q) /\ ~Stealing(q)
      BY <1>0, <1>e, <1>r, <2>7
         DEF RemoveLock, InSection, Types, LockInv, Relies, Stealing
    <3> QED BY <1>0, <1>m, <2>7, <3>1
          DEF RemoveLock, NoFile, Types, LockInv, Relies, Waiting, Condemning, Stealing
  <2>8. CASE ReadOwnGuard(p) \/ RemoveGuard(p)
    BY <1>0, <2>8 DEF ReadOwnGuard, RemoveGuard, Types, LockInv,
         Relies, Waiting, Condemning, Stealing
  <2>9. CASE LeaveGuard(p)
    BY <1>0, <1>m, <2>9
       DEF LeaveGuard, Types, LockInv, Relies, Waiting, Condemning, Stealing
  <2> QED BY <1>4, <2>1, <2>2, <2>3, <2>4, <2>5, <2>6, <2>7, <2>8, <2>9 DEF Guarding
<1> QED BY <1>1, <1>2, <1>3, <1>4, <1>5, <1>6, <1>7, <1>8 DEF Next, Step

LEMMA LockStartsInOrder == Init => LockInv
BY DEF Init, LockInv, Relies, Waiting, Condemning, Stealing

(* The inductive invariant of the lock. *)
LEMMA LockIsInOrder == Spec /\ GuardsAreReturned => [](GuardInv /\ LockInv)
<1>1. Init /\ GuardsAreReturned => GuardInv /\ LockInv
  <2> SUFFICES ASSUME GuardsAreReturned PROVE Init => GuardInv /\ LockInv
    OBVIOUS
  <2>1. Init => guard = NoFile /\ lock.old = FALSE
    BY DEF Init, GuardsAreReturned, NoFile, Leftover
  <2>2. Init => GuardInv
    <3>1. ~NoFile.old /\ ~Exists(NoFile)
      BY DEF NoFile, Exists
    <3>2. Init => \A p \in Procs : pc[p] = "idle" /\ gseen[p] = NoRecord
      BY DEF Init
    <3> QED BY <2>1, <3>1, <3>2 DEF GuardInv, InSection
  <2> QED BY <2>2, LockStartsInOrder
<1>2. TypeOK /\ GuardsAreReturned /\ GuardInv /\ LockInv /\ [Next]_vars
        => (GuardsAreReturned /\ GuardInv /\ LockInv)'
  <2>1. TypeOK /\ GuardInv => RunningAlive /\ RemoversSerialized
    BY SectionsExclude DEF GuardInv, RunningAlive
  <2>2. GuardsAreReturned /\ [Next]_vars => GuardsAreReturned'
    BY FaultsAreSettled DEF GuardsAreReturned
  <2> QED BY <2>1, <2>2, StepKeepsGuard, StepKeepsLock
<1> QED BY <1>1, <1>2, LockTypeCorrect, PTL DEF Spec

(* LibreOffice launches are serialized across processes: whatever          *)
(* deadlines pass, writes fail, pids are reused and launches die, as long  *)
(* as guards are returned.                                                 *)
THEOREM MutualExclusionHolds == Spec /\ GuardsAreReturned => []MutualExclusion
<1>1. TypeOK /\ LockInv => MutualExclusion
  BY OneRelies DEF MutualExclusion, Relies
<1> QED BY <1>1, LockIsInOrder, LockTypeCorrect, PTL

(* Whoever created the lockfile finds it there until he removes it: no     *)
(* release and no steal takes away a lock somebody relies on.              *)
THEOREM LockIsMineHolds == Spec /\ GuardsAreReturned => []LockIsMine
<1>1. LockInv => LockIsMine
  BY DEF LockIsMine, LockInv
<1> QED BY <1>1, LockIsInOrder, PTL

(* Removers are serialized: the guard section has one process at a time.   *)
THEOREM RemoversSerializedHolds == Spec /\ GuardsAreReturned => []RemoversSerialized
<1>1. TypeOK /\ GuardInv => RemoversSerialized
  BY SectionsExclude DEF GuardInv
<1> QED BY <1>1, LockIsInOrder, LockTypeCorrect, PTL

------------------------------------------------------------------------------

(* A guard was left behind by a dead process, written; nobody else dies,   *)
(* no deadline passes, no write fails, and no third process is there.      *)
TwoWaiters ==
  /\ faults.deaths = "none" /\ faults.left \subseteq {TRUE} /\ ~faults.giveUp
  /\ \A p, q, r \in Procs : p = q \/ q = r \/ r = p

(* The record in the guard that was left behind. *)
LeftRecord == Leftover(TRUE).rec

Clearing(p) == pc[p] \in {"inspect", "putback"}

(* Every guard file, in place or renamed aside, is the one left behind or  *)
(* a running process's; only while its creator is about to write it is it  *)
(* unwritten, and it does not grow old under its creator.                  *)
GuardFileInv(f) ==
  Exists(f) =>
    /\ f.rec = LeftRecord \/ f.rec[1] \in Procs
    /\ ~f.text => \E q \in Procs : pc[q] = "gwrite" /\ f.rec = gmine[q]
    /\ f.old => \A q \in Procs : InSection(q) => f.rec # gmine[q]

(* What p has read and judged is about the guard left behind; or it read   *)
(* nothing, found a file that had been put back, and nobody can enter a    *)
(* section until it sees its mistake.                                      *)
JudgedInv(p) ==
  /\ pc[p] = "gjudge" => gseen[p] \in {NoRecord, LeftRecord} \/ gseen[p][1] \in Procs
  /\ pc[p] \in {"clear", "inspect"} => gseen[p] \in {NoRecord, LeftRecord}
  /\ pc[p] = "gjudge" /\ gseen[p] = NoRecord => guard.rec # LeftRecord
  /\ pc[p] = "clear" /\ gseen[p] = NoRecord =>
       /\ guard.rec # LeftRecord
       /\ \A q \in Procs : ~InSection(q)
       /\ Exists(guard) \/ \E q \in Procs : Clearing(q) /\ aside[q].rec # LeftRecord
  /\ pc[p] = "inspect" /\ gseen[p] = NoRecord =>
       aside[p].text /\ aside[p].rec # LeftRecord
  /\ pc[p] = "putback" => aside[p].rec # LeftRecord

(* The guard of a process in its section is in place, or the other one has *)
(* it aside and there is none in place.                                    *)
ClearInv ==
  /\ Procs \subseteq alive
  /\ GuardFileInv(guard)
  /\ \A p \in Procs :
       /\ GuardFileInv(aside[p])
       /\ JudgedInv(p)
       /\ InSection(p) =>
            \/ guard.rec = gmine[p]
            \/ ~Exists(guard) /\ \E q \in Procs : Clearing(q) /\ aside[q].rec = gmine[p]

(* With at most two processes, one section at a time. *)
LEMMA ClearExcludes ==
  ASSUME TwoWaiters, TypeOK, ClearInv
  PROVE  RemoversSerialized
<1> SUFFICES ASSUME NEW p \in Procs, NEW q \in Procs, InSection(p), InSection(q), p # q
             PROVE  FALSE
  BY DEF RemoversSerialized
<1>1. gmine[p] \in {p} \X Serials /\ gmine[q] \in {q} \X Serials
  BY DEF TypeOK, LocalsOK
<1>2. \A r \in Procs : ~Clearing(r)
  BY DEF TwoWaiters, Clearing, InSection
<1> QED BY <1>1, <1>2, OwnRecords DEF ClearInv

(* The guard left behind is nobody's. *)
LEMMA LeftRecordIsNobodys ==
  /\ LeftRecord \in Records /\ LeftRecord[1] = Departed /\ LeftRecord # NoRecord
  /\ \A p \in Procs : \A r \in {p} \X Serials : r # LeftRecord
<1>1. LeftRecord \in Records /\ LeftRecord[1] = Departed
  BY LockAssumption DEF LeftRecord, Leftover, Records
<1> QED BY <1>1, LockAssumption

(* One step of at most two processes keeps the guard files in order.       *)
LEMMA StepKeepsClear ==
  ASSUME TwoWaiters, TypeOK, ClearInv, [Next]_vars
  PROVE  ClearInv'
<1> USE OwnRecords, FileTypes, LeftRecordIsNobodys DEF locals, Goto
<1>0. Types /\ \A q \in Procs : LocalsOK(q)
  BY DEF Types, TypeOK
<1>e. \A p, q \in Procs : InSection(p) /\ InSection(q) => p = q
  BY ClearExcludes DEF RemoversSerialized
<1>f. GuardFileInv(guard) /\ \A q \in Procs : GuardFileInv(aside[q]) /\ JudgedInv(q)
  BY DEF ClearInv
<1>g. \A q \in Procs :
        /\ InSection(q) => gmine[q] \in {q} \X Serials
        /\ Clearing(q) <=> Exists(aside[q])
  BY <1>0 DEF LocalsOK, Clearing
<1>m. ~faults.giveUp /\ \A p, q, r \in Procs : p = q \/ q = r \/ r = p
  BY DEF TwoWaiters
(* A step that leaves the guard files alone, enters no section and judges  *)
(* nothing.                                                                *)
<1>k. ASSUME UNCHANGED <<guard, aside, gmine, gseen>>, alive \subseteq alive',
             \A q \in Procs :
               /\ pc'[q] = "gwrite" <=> pc[q] = "gwrite"
               /\ InSection(q)' => InSection(q)
               /\ Clearing(q)' <=> Clearing(q)
               /\ pc'[q] \in {"gjudge", "clear", "inspect", "putback"} => pc'[q] = pc[q]
      PROVE  ClearInv'
  <2>1. GuardFileInv(guard)' /\ \A q \in Procs : GuardFileInv(aside[q])'
    BY <1>f, <1>k DEF GuardFileInv, Exists
  <2>2. \A q \in Procs : JudgedInv(q)'
    BY <1>f, <1>k DEF JudgedInv, Exists
  <2> QED BY <1>k, <2>1, <2>2 DEF ClearInv, Exists
<1>1. CASE UNCHANGED vars
  BY <1>1, <1>k DEF vars, InSection, Clearing
<1>2. ASSUME NEW p \in Procs, Start(p) PROVE ClearInv'
  BY <1>0, <1>2, <1>k DEF Start, Types, InSection, Clearing
<1>3. ASSUME NEW p \in Procs, Acquiring(p) PROVE ClearInv'
  BY <1>0, <1>3, <1>k, <1>m DEF Acquiring, CreateLock, WriteLock, WriteLockFails, EndLaunch,
     ReadLock, JudgeLock, Retry, TimeOut, Types, InSection, Clearing
<1>5. ASSUME NEW p \in Procs, Crash(p) PROVE ClearInv'
  BY <1>5 DEF Crash, TwoWaiters
<1>6. ASSUME NEW p \in Procs \cup {Departed}, ReusePid(p) PROVE ClearInv'
  BY <1>6, <1>k DEF ReusePid, InSection, Clearing
<1>7. CASE LockAges
  BY <1>7, <1>k DEF LockAges, InSection, Clearing
<1>8. CASE GuardAges
  <2>1. /\ Exists(guard) /\ guard'.rec = guard.rec /\ guard'.text = guard.text
        /\ \A q \in Procs : InSection(q) => guard.rec # gmine[q]
        /\ UNCHANGED <<alive, pc, gmine, gseen, aside>>
    BY <1>8 DEF GuardAges, Aged
  <2>2. GuardFileInv(guard)' /\ \A q \in Procs : GuardFileInv(aside[q])'
    BY <1>f, <2>1 DEF GuardFileInv, Exists, InSection
  <2>3. \A q \in Procs : JudgedInv(q)'
    BY <1>f, <2>1 DEF JudgedInv, Exists, InSection, Clearing
  <2> QED BY <2>1, <2>2, <2>3 DEF ClearInv, Exists, InSection, Clearing
<1>4. ASSUME NEW p \in Procs, Guarding(p) PROVE ClearInv'
  <2>1. CASE CreateGuard(p)
    <3>1. CASE Exists(guard)
      BY <1>0, <1>k, <2>1, <3>1 DEF CreateGuard, Types, InSection, Clearing
    <3>2. CASE ~Exists(guard)
      <4>1. /\ guard' = Created(NewRecord(p))
            /\ gmine' = [gmine EXCEPT ![p] = NewRecord(p)]
            /\ pc' = [pc EXCEPT ![p] = "gwrite"] /\ pc[p] = "gcreate"
            /\ UNCHANGED <<alive, gseen, aside>> /\ Unused(p) # {}
        BY <2>1, <3>2 DEF CreateGuard
      <4>2. NewRecord(p) \in {p} \X Serials /\ NewRecord(p) \notin InUse
        BY <4>1, NewRecords
      <4>p. /\ pc'[p] = "gwrite" /\ gmine'[p] = NewRecord(p)
            /\ guard'.rec = NewRecord(p) /\ ~guard'.text /\ ~guard'.old
            /\ \A q \in Procs : q # p => pc'[q] = pc[q] /\ gmine'[q] = gmine[q]
        BY <1>0, <4>1 DEF Types, Created
      <4>3. \A q \in Procs : ~InSection(q)
        <5> SUFFICES ASSUME NEW q \in Procs, InSection(q) PROVE FALSE
          OBVIOUS
        <5>1. guard.rec # gmine[q]
          BY <1>g, <3>2 DEF Exists
        <5>2. PICK r \in Procs : Clearing(r)
          BY <5>1 DEF ClearInv
        <5> QED BY <1>m, <4>1, <5>2 DEF InSection, Clearing
      <4>4. GuardFileInv(guard)'
        BY <4>2, <4>p DEF GuardFileInv, Exists
      <4>5. ASSUME NEW q \in Procs PROVE GuardFileInv(aside[q])'
        <5>1. aside[q].rec # NewRecord(p)
          BY <4>2 DEF InUse
        <5>2. pc[p] # "gwrite"
          BY <4>1
        <5> QED BY <1>f, <4>1, <4>p, <4>3, <5>1, <5>2 DEF GuardFileInv, Exists, InSection
      <4>6. ASSUME NEW q \in Procs PROVE JudgedInv(q)'
        <5>1. ~(pc[q] = "clear" /\ gseen[q] = NoRecord)
          <6> SUFFICES ASSUME pc[q] = "clear", gseen[q] = NoRecord PROVE FALSE
            OBVIOUS
          <6>1. PICK r \in Procs : Clearing(r)
            BY <1>f, <3>2 DEF JudgedInv
          <6> QED BY <1>m, <4>1, <6>1 DEF Clearing
        <5>2. guard'.rec # LeftRecord
          BY <4>2, <4>p
        <5> QED BY <1>f, <4>1, <4>p, <5>1, <5>2 DEF JudgedInv
      <4>7. \A q \in Procs : InSection(q)' => q = p
        BY <4>p, <4>3 DEF InSection
      <4> QED BY <4>1, <4>p, <4>4, <4>5, <4>6, <4>7 DEF ClearInv
    <3> QED BY <3>1, <3>2
  <2>2. CASE WriteGuard(p)
    <3>w. \A f : /\ Written(f).rec = f.rec /\ Written(f).old = f.old
                 /\ Written(f).text
      BY DEF Written
    <3>1. /\ guard'.rec = guard.rec /\ guard'.old = guard.old
          /\ ~guard'.text => ~guard.text /\ guard.rec # gmine[p]
          /\ \A q \in Procs : /\ aside'[q].rec = aside[q].rec /\ aside'[q].old = aside[q].old
                              /\ ~aside'[q].text => ~aside[q].text /\ aside[q].rec # gmine[p]
      <4>1. guard' = IF guard.rec = gmine[p] THEN Written(guard) ELSE guard
        BY <2>2 DEF WriteGuard
      <4>2. \A q \in Procs :
              aside'[q] = IF aside[q].rec = gmine[p] THEN Written(aside[q]) ELSE aside[q]
        BY <2>2 DEF WriteGuard
      <4> QED BY <3>w, <4>1, <4>2
    <3>a. \A q \in Procs : aside[q].text => aside'[q].text
      BY <2>2, <3>w DEF WriteGuard
    <3>2. /\ pc'[p] = "confirm" /\ pc[p] = "gwrite"
          /\ \A q \in Procs : q # p => pc'[q] = pc[q]
          /\ UNCHANGED <<alive, gmine, gseen>>
      BY <1>0, <2>2 DEF WriteGuard, Types
    <3>3. \A q \in Procs : (InSection(q)' <=> InSection(q)) /\ (Clearing(q)' <=> Clearing(q))
      BY <3>2 DEF InSection, Clearing
    <3>4. GuardFileInv(guard)' /\ \A q \in Procs : GuardFileInv(aside[q])'
      BY <1>f, <3>1, <3>2, <3>3 DEF GuardFileInv, Exists
    <3>5. \A q \in Procs : JudgedInv(q)'
      BY <1>f, <3>1, <3>2, <3>3, <3>a DEF JudgedInv, Exists
    <3> QED BY <3>1, <3>2, <3>3, <3>4, <3>5 DEF ClearInv, Exists
  <2>3. CASE WriteGuardFails(p) \/ TimeOutOnGuard(p)
    BY <1>m, <2>3 DEF WriteGuardFails, TimeOutOnGuard
  <2>4. CASE ReadGuard(p)
    <3>1. /\ pc'[p] = "gjudge" /\ gseen'[p] = ReadRecord(guard) /\ pc[p] = "gread"
          /\ \A q \in Procs : q # p => pc'[q] = pc[q] /\ gseen'[q] = gseen[q]
          /\ UNCHANGED <<alive, guard, gmine, aside>>
      BY <1>0, <2>4 DEF ReadGuard, Types
    <3>2. \A q \in Procs : /\ InSection(q)' <=> InSection(q)
                           /\ Clearing(q)' <=> Clearing(q)
                           /\ pc'[q] = "gwrite" <=> pc[q] = "gwrite"
      BY <3>1 DEF InSection, Clearing
    <3>3. GuardFileInv(guard)' /\ \A q \in Procs : GuardFileInv(aside[q])'
      BY <1>f, <3>1, <3>2 DEF GuardFileInv, Exists
    <3>4. JudgedInv(p)'
      <4>1. guard.rec = LeftRecord => guard.text
        BY <1>f, <1>g DEF GuardFileInv, Exists, InSection
      <4>2. ReadRecord(guard) \in {NoRecord, LeftRecord} \/ ReadRecord(guard)[1] \in Procs
        BY <1>f DEF GuardFileInv, ReadRecord, Exists
      <4> QED BY <3>1, <4>1, <4>2 DEF JudgedInv, ReadRecord
    <3>5. \A q \in Procs : q # p => JudgedInv(q)'
      BY <1>f, <3>1, <3>2 DEF JudgedInv, Exists
    <3> QED BY <3>1, <3>2, <3>3, <3>4, <3>5 DEF ClearInv, Exists
  <2>5. CASE JudgeGuard(p)
    <3>1. CASE ~(Exists(guard) /\ GuardStale(p))
      <4>1. /\ pc'[p] \in {"gpoll", "gcreate"} /\ pc[p] = "gjudge"
            /\ \A q \in Procs : q # p => pc'[q] = pc[q] /\ gseen'[q] = gseen[q]
            /\ UNCHANGED <<alive, guard, gmine, aside>>
        BY <1>0, <2>5, <3>1 DEF JudgeGuard, Types
      <4>2. \A q \in Procs : /\ InSection(q)' <=> InSection(q)
                             /\ Clearing(q)' <=> Clearing(q)
                             /\ pc'[q] = "gwrite" <=> pc[q] = "gwrite"
        BY <4>1 DEF InSection, Clearing
      <4>3. GuardFileInv(guard)' /\ \A q \in Procs : GuardFileInv(aside[q])'
        BY <1>f, <4>1, <4>2 DEF GuardFileInv, Exists
      <4>4. \A q \in Procs : JudgedInv(q)'
        BY <1>f, <4>1, <4>2 DEF JudgedInv, Exists
      <4> QED BY <4>1, <4>2, <4>3, <4>4 DEF ClearInv, Exists
    <3>2. CASE Exists(guard) /\ GuardStale(p)
      <4>1. /\ pc'[p] = "clear" /\ pc[p] = "gjudge"
            /\ \A q \in Procs : q # p => pc'[q] = pc[q]
            /\ UNCHANGED <<alive, guard, gmine, gseen, aside>>
        BY <1>0, <2>5, <3>2 DEF JudgeGuard, Types
      <4>2. \A q \in Procs : /\ InSection(q)' <=> InSection(q)
                             /\ Clearing(q)' <=> Clearing(q)
                             /\ pc'[q] = "gwrite" <=> pc[q] = "gwrite"
        BY <4>1 DEF InSection, Clearing
      <4>3. GuardFileInv(guard)' /\ \A q \in Procs : GuardFileInv(aside[q])'
        BY <1>f, <4>1, <4>2 DEF GuardFileInv, Exists
      <4>4. JudgedInv(p)'
        <5>1. gseen[p] \in {NoRecord, LeftRecord}
          BY <1>f, <3>2, <4>1 DEF JudgedInv, GuardStale, HolderAlive, ClearInv
        <5>2. gseen[p] = NoRecord =>
                guard.rec # LeftRecord /\ \A q \in Procs : ~InSection(q)
          BY <1>f, <3>2, <4>1 DEF JudgedInv, GuardStale, GuardFileInv, ClearInv
        <5> QED BY <3>2, <4>1, <4>2, <5>1, <5>2 DEF JudgedInv, Exists
      <4>5. \A q \in Procs : q # p => JudgedInv(q)'
        BY <1>f, <4>1, <4>2 DEF JudgedInv, Exists
      <4> QED BY <4>1, <4>2, <4>3, <4>4, <4>5 DEF ClearInv, Exists
    <3> QED BY <3>1, <3>2
  <2>6. CASE RetryGuard(p) \/ ConfirmLock(p) \/ ConfirmAge(p) \/ RemoveLock(p) \/ ReadOwnGuard(p)
    BY <1>0, <1>k, <2>6 DEF RetryGuard, ConfirmLock, ConfirmAge, RemoveLock, ReadOwnGuard,
       Types, InSection, Clearing
  <2>7. CASE RenameGuard(p)
    <3>1. /\ pc[p] = "clear" /\ ~Exists(guard') /\ ~guard'.old
          /\ aside'[p] = guard /\ \A q \in Procs : q # p => aside'[q] = aside[q]
          /\ \A q \in Procs : q # p => pc'[q] = pc[q] /\ gseen'[q] = gseen[q]
          /\ UNCHANGED <<alive, gmine>>
          /\ guard'.rec = NoRecord
      BY <1>0, <2>7 DEF RenameGuard, NoFile, Exists, Types
    <3>2. IF Exists(guard) THEN pc'[p] = "inspect" /\ gseen'[p] = gseen[p]
                           ELSE pc'[p] = "gpoll"
      BY <1>0, <2>7 DEF RenameGuard, Types
    <3>3. \A q \in Procs : /\ InSection(q)' <=> InSection(q)
                           /\ Clearing(q) => Clearing(q)'
                           /\ pc'[q] = "gwrite" <=> pc[q] = "gwrite"
      BY <3>1, <3>2 DEF InSection, Clearing
    <3>4. GuardFileInv(guard)' /\ \A q \in Procs : GuardFileInv(aside[q])'
      BY <1>f, <3>1, <3>3 DEF GuardFileInv, Exists
    <3>5. JudgedInv(p)'
      <4>1. CASE ~Exists(guard)
        BY <3>2, <4>1 DEF JudgedInv
      <4>2. CASE Exists(guard)
        <5>1. gseen[p] \in {NoRecord, LeftRecord}
          BY <1>f, <3>1 DEF JudgedInv
        <5>2. gseen[p] = NoRecord => guard.rec # LeftRecord /\ \A q \in Procs : ~InSection(q)
          BY <1>f, <3>1 DEF JudgedInv
        <5>3. gseen[p] = NoRecord => guard.text
          BY <1>f, <4>2, <5>2 DEF GuardFileInv, InSection
        <5> QED BY <3>1, <3>2, <4>2, <5>1, <5>2, <5>3 DEF JudgedInv
      <4> QED BY <4>1, <4>2
    <3>6. ASSUME NEW q \in Procs, q # p PROVE JudgedInv(q)'
      <4>1. pc[q] = "clear" /\ gseen[q] = NoRecord =>
              \E r \in Procs : Clearing(r)' /\ aside'[r].rec # LeftRecord
        <5> SUFFICES ASSUME pc[q] = "clear", gseen[q] = NoRecord
                     PROVE  \E r \in Procs : Clearing(r)' /\ aside'[r].rec # LeftRecord
          OBVIOUS
        <5>1. CASE Exists(guard)
          BY <1>f, <3>1, <3>2, <5>1 DEF JudgedInv, Clearing
        <5>2. CASE ~Exists(guard)
          <6>1. PICK r \in Procs : Clearing(r) /\ aside[r].rec # LeftRecord
            BY <1>f, <5>2 DEF JudgedInv
          <6>2. r # p
            BY <3>1, <6>1 DEF Clearing
          <6> QED BY <3>1, <3>3, <6>1, <6>2
        <5> QED BY <5>1, <5>2
      <4> QED BY <1>f, <3>1, <3>3, <3>6, <4>1 DEF JudgedInv
    <3>7. ASSUME NEW q \in Procs, InSection(q)'
          PROVE  ~Exists(guard)' /\ \E r \in Procs : Clearing(r)' /\ aside'[r].rec = gmine'[q]
      <4>1. CASE guard.rec = gmine[q]
        <5>1. Exists(guard)
          BY <1>g, <3>3, <3>7, <4>1 DEF Exists
        <5> QED BY <3>1, <3>2, <4>1, <5>1 DEF Clearing, Exists
      <4>2. CASE guard.rec # gmine[q]
        <5>1. PICK r \in Procs : Clearing(r) /\ aside[r].rec = gmine[q]
          BY <3>3, <3>7, <4>2 DEF ClearInv
        <5>2. r # p
          BY <3>1, <5>1 DEF Clearing
        <5> QED BY <3>1, <3>3, <5>1, <5>2 DEF Exists
      <4> QED BY <4>1, <4>2
    <3> QED BY <3>1, <3>4, <3>5, <3>6, <3>7 DEF ClearInv
  <2>8. CASE InspectAside(p)
    <3>1. /\ pc[p] = "inspect" /\ gseen'[p] = NoRecord
          /\ \A q \in Procs : q # p => /\ pc'[q] = pc[q] /\ gseen'[q] = gseen[q]
                                       /\ aside'[q] = aside[q]
          /\ UNCHANGED <<alive, guard, gmine>>
      BY <1>0, <2>8 DEF InspectAside, Types
    <3>2. \/ pc'[p] = "gpoll" /\ aside'[p] = NoFile /\ ReadRecord(aside[p]) = gseen[p]
          \/ pc'[p] = "putback" /\ aside'[p] = aside[p] /\ ReadRecord(aside[p]) # gseen[p]
      BY <1>0, <2>8 DEF InspectAside, Types
    <3>3. Exists(aside[p]) /\ gseen[p] \in {NoRecord, LeftRecord}
      BY <1>f, <1>g, <3>1 DEF JudgedInv, Clearing
    (* What is dropped is the guard left behind, and that one is dropped.    *)
    <3>4. ReadRecord(aside[p]) = gseen[p] <=> aside[p].rec = LeftRecord
      <4>1. aside[p].rec = LeftRecord => aside[p].text
        BY <1>f, <1>g, <3>3 DEF GuardFileInv, InSection
      <4>2. gseen[p] = NoRecord => aside[p].text /\ aside[p].rec # LeftRecord
        BY <1>f, <3>1 DEF JudgedInv
      <4> QED BY <3>3, <4>1, <4>2 DEF ReadRecord, Exists
    <3>5. \A q \in Procs : /\ InSection(q)' <=> InSection(q)
                           /\ Clearing(q) /\ aside[q].rec # LeftRecord => Clearing(q)' /\ aside'[q] = aside[q]
                           /\ pc'[q] = "gwrite" <=> pc[q] = "gwrite"
      BY <3>1, <3>2, <3>4 DEF InSection, Clearing
    <3>6. GuardFileInv(guard)' /\ \A q \in Procs : GuardFileInv(aside[q])'
      <4>1. \A q \in Procs : aside'[q] \in {aside[q], NoFile}
        BY <3>1, <3>2
      <4> QED BY <1>f, <3>1, <3>5, <4>1 DEF GuardFileInv, Exists, NoFile
    <3>7. JudgedInv(p)'
      BY <3>1, <3>2, <3>4 DEF JudgedInv
    <3>8. ASSUME NEW q \in Procs, q # p PROVE JudgedInv(q)'
      BY <1>f, <3>1, <3>5, <3>8 DEF JudgedInv, Exists
    <3>9. \A q \in Procs : InSection(q) => gmine[q] # LeftRecord
      BY <1>g
    <3> QED BY <3>1, <3>5, <3>6, <3>7, <3>8, <3>9 DEF ClearInv, Exists
  <2>9. CASE PutBack(p)
    <3>1. /\ pc[p] = "putback" /\ pc'[p] = "gpoll" /\ ~Exists(aside'[p])
          /\ \A q \in Procs : q # p => pc'[q] = pc[q] /\ aside'[q] = aside[q]
          /\ guard' = (IF Exists(guard) THEN guard ELSE aside[p])
          /\ UNCHANGED <<alive, gmine, gseen>>
      BY <1>0, <2>9 DEF PutBack, NoFile, Exists, Types
    <3>2. Exists(aside[p]) /\ aside[p].rec # LeftRecord
      BY <1>f, <1>g, <3>1 DEF JudgedInv, Clearing
    <3>3. \A q \in Procs : /\ InSection(q)' <=> InSection(q)
                           /\ pc'[q] = "gwrite" <=> pc[q] = "gwrite"
      BY <3>1 DEF InSection
    <3>4. GuardFileInv(guard)' /\ \A q \in Procs : GuardFileInv(aside[q])'
      <4>1. GuardFileInv(guard)'
        BY <1>f, <3>1, <3>3 DEF GuardFileInv, Exists
      <4>2. ASSUME NEW q \in Procs PROVE GuardFileInv(aside[q])'
        BY <1>f, <3>1, <3>3 DEF GuardFileInv, Exists
      <4> QED BY <4>1, <4>2
    <3>5. Exists(guard') /\ (guard'.rec = LeftRecord => guard.rec = LeftRecord)
      BY <3>1, <3>2
    <3>6. ASSUME NEW q \in Procs PROVE JudgedInv(q)'
      <4>1. CASE q = p
        BY <3>1, <4>1 DEF JudgedInv
      <4>2. CASE q # p
        BY <1>f, <3>1, <3>3, <3>5, <4>2 DEF JudgedInv, Exists
      <4> QED BY <4>1, <4>2
    <3>7. ASSUME NEW q \in Procs, InSection(q) PROVE guard'.rec = gmine[q]
      <4>1. CASE guard.rec = gmine[q]
        BY <1>g, <3>1, <3>7, <4>1 DEF Exists
      <4>2. CASE guard.rec # gmine[q]
        <5>1. PICK r \in Procs : ~Exists(guard) /\ Clearing(r) /\ aside[r].rec = gmine[q]
          BY <3>7, <4>2 DEF ClearInv
        <5>2. q # p /\ q # r
          BY <3>1, <3>7, <5>1 DEF InSection, Clearing
        <5> QED BY <1>m, <3>1, <5>1, <5>2
      <4> QED BY <4>1, <4>2
    <3> QED BY <3>1, <3>3, <3>4, <3>6, <3>7 DEF ClearInv
  <2>10. CASE RemoveGuard(p)
    <3>1. /\ pc[p] = "unguard" /\ pc'[p] = "left" /\ guard' = NoFile
          /\ \A q \in Procs : q # p => pc'[q] = pc[q]
          /\ UNCHANGED <<alive, gmine, gseen, aside>>
      BY <1>0, <2>10 DEF RemoveGuard, Types
    <3>2. InSection(p) /\ \A q \in Procs : ~InSection(q)' /\ (Clearing(q)' <=> Clearing(q))
      BY <1>e, <3>1 DEF InSection, Clearing
    <3>3. GuardFileInv(guard)' /\ \A q \in Procs : GuardFileInv(aside[q])'
      <4>1. \A q \in Procs : pc[q] = "gwrite" => q # p
        BY <3>1
      <4> QED BY <1>f, <3>1, <3>2, <4>1 DEF GuardFileInv, Exists, NoFile
    <3>4. \A q \in Procs : JudgedInv(q)'
      <4>1. guard'.rec # LeftRecord
        BY <3>1 DEF NoFile
      <4> QED BY <1>f, <3>1, <3>2, <4>1 DEF JudgedInv
    <3> QED BY <3>1, <3>2, <3>3, <3>4 DEF ClearInv
  <2>11. CASE LeaveGuard(p)
    <3>1. /\ pc[p] = "left" /\ pc'[p] \in {"idle", "poll"}
          /\ \A q \in Procs : q # p => /\ pc'[q] = pc[q] /\ gmine'[q] = gmine[q]
                                       /\ gseen'[q] = gseen[q]
          /\ UNCHANGED <<alive, guard>>
      BY <1>0, <2>11 DEF LeaveGuard, Forget, Types
    <3>a. \A q \in Procs : aside'[q].rec = aside[q].rec /\ aside'[q].text = aside[q].text /\ aside'[q].old = aside[q].old
      <4>1. aside[p] = NoFile
        BY <1>0, <3>1 DEF LocalsOK, Types
      <4> QED BY <1>0, <2>11, <4>1 DEF LeaveGuard, Forget, Types
    <3>2. \A q \in Procs : /\ InSection(q)' => InSection(q) /\ q # p
                           /\ Clearing(q) <=> Clearing(q)'
                           /\ pc'[q] = "gwrite" <=> pc[q] = "gwrite"
      BY <3>1 DEF InSection, Clearing
    <3>3. GuardFileInv(guard)' /\ \A q \in Procs : GuardFileInv(aside[q])'
      <4>1. \A q \in Procs : pc[q] = "gwrite" => q # p
        BY <3>1
      <4> QED BY <1>f, <3>1, <3>a, <3>2, <4>1 DEF GuardFileInv, Exists
    <3>4. \A q \in Procs : JudgedInv(q)'
      BY <1>f, <3>1, <3>a, <3>2 DEF JudgedInv, Exists
    <3> QED BY <3>1, <3>a, <3>2, <3>3, <3>4 DEF ClearInv, Exists
  <2> QED BY <1>4, <2>1, <2>2, <2>3, <2>4, <2>5, <2>6, <2>7, <2>8, <2>9, <2>10, <2>11 DEF Guarding
<1> QED BY <1>1, <1>2, <1>3, <1>4, <1>5, <1>6, <1>7, <1>8 DEF Next, Step

(* The inductive invariant while a guard of a dead process is cleared: the *)
(* lock itself is kept in order as before.                                 *)
LEMMA ClearingIsInOrder == Spec /\ TwoWaiters => [](TypeOK /\ TwoWaiters /\ ClearInv /\ LockInv)
<1>1. Init /\ TwoWaiters => ClearInv
  <2> SUFFICES ASSUME Init, TwoWaiters PROVE ClearInv
    OBVIOUS
  <2>1. \A f : f = NoFile \/ f = Leftover(TRUE) =>
          /\ ~f.old /\ (Exists(f) => f.text /\ f.rec = LeftRecord)
    BY DEF NoFile, Leftover, LeftRecord, Exists
  <2>2. guard \in {NoFile, Leftover(TRUE)} /\ \A q \in Procs : aside[q] = NoFile
    BY DEF Init, TwoWaiters
  <2>3. GuardFileInv(guard) /\ \A q \in Procs : GuardFileInv(aside[q])
    BY <2>1, <2>2 DEF GuardFileInv
  <2>4. alive = Procs /\ \A q \in Procs : pc[q] = "idle"
    BY DEF Init
  <2> QED BY <2>3, <2>4 DEF ClearInv, JudgedInv, InSection
<1>2. TypeOK /\ TwoWaiters /\ ClearInv /\ LockInv /\ [Next]_vars
        => (TwoWaiters /\ ClearInv /\ LockInv)'
  <2>1. ClearInv => RunningAlive
    BY DEF ClearInv, RunningAlive
  <2>2. TwoWaiters /\ [Next]_vars => TwoWaiters'
    BY FaultsAreSettled DEF TwoWaiters
  <2> QED BY <2>1, <2>2, ClearExcludes, StepKeepsClear, StepKeepsLock
<1> QED BY <1>1, <1>2, LockStartsInOrder, LockTypeCorrect, PTL DEF Spec

(* Two waiters that find the guard of a process that died in its section   *)
(* clear it without overlapping: whoever renames the other's fresh guard   *)
(* aside by mistake puts it back, and there is no third process to create  *)
(* one meanwhile.  So removers are serialized, launches exclude each       *)
(* other, and nobody loses a lock he relies on.                            *)
THEOREM TwoWaitersClearTheGuard ==
  Spec /\ TwoWaiters => []RemoversSerialized /\ []MutualExclusion /\ []LockIsMine
<1>1. TypeOK /\ TwoWaiters /\ ClearInv => RemoversSerialized
  BY ClearExcludes
<1>2. TypeOK /\ LockInv => MutualExclusion
  BY OneRelies DEF MutualExclusion, Relies
<1>3. LockInv => LockIsMine
  BY DEF LockIsMine, LockInv
<1> QED BY <1>1, <1>2, <1>3, ClearingIsInOrder, PTL
=============================================================================
