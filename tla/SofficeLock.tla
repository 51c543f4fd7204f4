----------------------------- MODULE SofficeLock -----------------------------
(***************************************************************************)
(* The cross-process LibreOffice launch lock of packages/docx-core:        *)
(* src/integration/soffice-lock.ts.                                        *)
(*                                                                         *)
(* Processes share two files, the lockfile and the removal guard.  They    *)
(* interleave at every file-system call, so one action below is one such   *)
(* call together with the local computation after it.  A process may be    *)
(* killed between any two of them; what the others can tell of a process   *)
(* is whether the pid in a record still exists.                            *)
(*                                                                         *)
(* Time is abstracted to one bit per file, "older than the threshold that  *)
(* applies to it".  A file does not grow old while its creator is alive    *)
(* and relies on it: launches are bounded far below staleMs (the comment   *)
(* on DEFAULT_STALE_LOCK_MS), an open/write pair takes less than the grace *)
(* period, and a guard section is a few calls against GUARD_STALE_MS.      *)
(***************************************************************************)
EXTENDS Naturals, FiniteSets

CONSTANTS
  Procs,      \* processes that launch LibreOffice
  Departed,   \* the pid of a process that died before the run starts
  Serials,    \* tells the random tokens of one pid apart; bounds those in use
  NoRecord,   \* nothing, or nothing that parses
  Faults      \* what may go wrong in a run, see FaultRecords

Records == (Procs \cup {Departed}) \X Serials

(* deaths: which deaths are considered, see Crash.  left: which guards the *)
(* departed process may have left, written ones, unwritten ones.  giveUp:  *)
(* may deadlines pass and writes fail?                                     *)
FaultRecords ==
  [deaths : {"none", "unobserved", "outside"}, left : SUBSET BOOLEAN, giveUp : BOOLEAN]

ASSUME LockAssumption ==
  /\ Departed \notin Procs /\ Serials # {}
  /\ NoRecord \notin Records
  /\ Faults \subseteq FaultRecords

VARIABLES
  faults,  \* what may go wrong in this run; never changes
  lock,    \* the lockfile
  guard,   \* the removal guard
  alive,   \* processes that exist
  pc,      \* process -> the file-system call it makes next
  mine,    \* process -> the record of its current acquisition
  seen,    \* process -> the lock record it read and judged (const holder)
  gmine,   \* process -> the record of the guard it created
  gseen,   \* process -> the guard record it read
  aside,   \* process -> the guard it renamed aside
  why      \* process -> what it wants the guard for

locals == <<mine, seen, gmine, gseen, aside, why>>
vars == <<faults, lock, guard, alive, pc, locals>>

(* A file holds the record its creator wrote.  Until the write, nothing in *)
(* it parses; rec then only says who created it.                           *)
NoFile == [rec |-> NoRecord, text |-> FALSE, old |-> FALSE]
Created(r) == [rec |-> r, text |-> FALSE, old |-> FALSE]
Written(f) == [rec |-> f.rec, text |-> TRUE, old |-> f.old]
Aged(f) == [rec |-> f.rec, text |-> f.text, old |-> TRUE]
Files == [rec : Records, text : BOOLEAN, old : BOOLEAN]
Exists(f) == f.rec # NoRecord

(* readRecord: null when the file is missing or does not parse. *)
ReadRecord(f) == IF f.text THEN f.rec ELSE NoRecord

(* holderAlive, for a record: kill(pid, 0) does not report ESRCH. *)
HolderAlive(r) == r[1] \in alive

(* newRecord: a token nothing refers to any more stands for a fresh UUID.  *)
InUse ==
  {lock.rec, guard.rec}
    \cup UNION {{mine[p], seen[p], gmine[p], gseen[p], aside[p].rec} : p \in Procs}
Unused(p) == ({p} \X Serials) \ InUse
NewRecord(p) == CHOOSE r \in Unused(p) : TRUE

Goto(p, there) == pc' = [pc EXCEPT ![p] = there]

(* The process is done with this acquisition, one way or the other. *)
Forget(p) ==
  /\ Goto(p, "idle")
  /\ mine' = [mine EXCEPT ![p] = NoRecord]
  /\ seen' = [seen EXCEPT ![p] = NoRecord]
  /\ gmine' = [gmine EXCEPT ![p] = NoRecord]
  /\ gseen' = [gseen EXCEPT ![p] = NoRecord]
  /\ aside' = [aside EXCEPT ![p] = NoFile]
  /\ why' = [why EXCEPT ![p] = "steal"]

(* A lockfile may be left over from a process that no longer exists; so    *)
(* may a guard, if that process died while it held one, before or after it *)
(* had written its record.                                                 *)
Leftover(text) == [rec |-> <<Departed, CHOOSE n \in Serials : TRUE>>,
                   text |-> text, old |-> FALSE]

Init ==
  /\ faults \in Faults
  /\ lock \in {NoFile, Leftover(TRUE), Leftover(FALSE)}
  /\ guard \in {NoFile} \cup {Leftover(text) : text \in faults.left}
  /\ alive = Procs
  /\ pc = [p \in Procs |-> "idle"]
  /\ mine = [p \in Procs |-> NoRecord]
  /\ seen = [p \in Procs |-> NoRecord]
  /\ gmine = [p \in Procs |-> NoRecord]
  /\ gseen = [p \in Procs |-> NoRecord]
  /\ aside = [p \in Procs |-> NoFile]
  /\ why = [p \in Procs |-> "steal"]

-----------------------------------------------------------------------------
(* acquireSofficeLock                                                      *)

Start(p) ==
  /\ pc[p] = "idle" /\ p \in alive
  /\ Unused(p) # {}
  /\ mine' = [mine EXCEPT ![p] = NewRecord(p)]
  /\ Goto(p, "create")
  /\ UNCHANGED <<faults, lock, guard, alive, seen, gmine, gseen, aside, why>>

(* openSync(lockPath, 'wx') *)
CreateLock(p) ==
  /\ pc[p] = "create"
  /\ IF Exists(lock) THEN Goto(p, "read") /\ UNCHANGED lock
                     ELSE Goto(p, "write") /\ lock' = Created(mine[p])
  /\ UNCHANGED <<faults, guard, alive, locals>>

(* writeSync: the write goes to the file that was created, even if its     *)
(* name has been taken away meanwhile.  The lock is now held.              *)
WriteLock(p) ==
  /\ pc[p] = "write"
  /\ lock' = IF lock.rec = mine[p] THEN Written(lock) ELSE lock
  /\ Goto(p, "hold")
  /\ UNCHANGED <<faults, guard, alive, locals>>

(* The write fails: remove the half-created file, report the error. *)
WriteLockFails(p) ==
  /\ pc[p] = "write" /\ faults.giveUp
  /\ lock' = NoFile
  /\ Forget(p)
  /\ UNCHANGED <<faults, guard, alive>>

(* The launch is over; release asks for the guard. *)
EndLaunch(p) ==
  /\ pc[p] = "hold"
  /\ why' = [why EXCEPT ![p] = "release"]
  /\ Goto(p, "gcreate")
  /\ UNCHANGED <<faults, lock, guard, alive, mine, seen, gmine, gseen, aside>>

ReadLock(p) ==
  /\ pc[p] = "read"
  /\ seen' = [seen EXCEPT ![p] = ReadRecord(lock)]
  /\ Goto(p, "judge")
  /\ UNCHANGED <<faults, lock, guard, alive, mine, gmine, gseen, aside, why>>

(* Only a dead pid makes a lock stale. *)
StaleIfDead(r, f) == r # NoRecord /\ ~HolderAlive(r)

(* Is the record that was read stale?  The age is that of the file there   *)
(* is now.                                                                 *)
Stale(r, f) == IF r = NoRecord THEN f.old ELSE ~HolderAlive(r) \/ f.old

(* Any existing lockfile is presumed stale. *)
JudgeLockHastily(p) ==
  /\ pc[p] = "judge"
  /\ IF Exists(lock)
       THEN /\ Goto(p, "gcreate")
            /\ why' = [why EXCEPT ![p] = "steal"]
            /\ UNCHANGED seen
       ELSE /\ Goto(p, "create")
            /\ seen' = [seen EXCEPT ![p] = NoRecord]
            /\ UNCHANGED why
  /\ UNCHANGED <<faults, lock, guard, alive, mine, gmine, gseen, aside>>

(* statSync and kill(pid, 0): a vanished file is retried at once, a stale  *)
(* one is to be removed, a live one is waited for.                         *)
JudgeLock(p) ==
  /\ pc[p] = "judge"
  /\ IF Exists(lock) /\ Stale(seen[p], lock)
       THEN /\ Goto(p, "gcreate")
            /\ why' = [why EXCEPT ![p] = "steal"]
            /\ UNCHANGED seen
       ELSE /\ Goto(p, IF Exists(lock) THEN "poll" ELSE "create")
            /\ seen' = [seen EXCEPT ![p] = NoRecord]
            /\ UNCHANGED why
  /\ UNCHANGED <<faults, lock, guard, alive, mine, gmine, gseen, aside>>

(* Sleep, then try again ... *)
Retry(p) ==
  /\ pc[p] = "poll"
  /\ Goto(p, "create")
  /\ UNCHANGED <<faults, lock, guard, alive, locals>>

(* ... unless the deadline has passed. *)
TimeOut(p) ==
  /\ pc[p] = "poll" /\ faults.giveUp
  /\ Forget(p)
  /\ UNCHANGED <<faults, lock, guard, alive>>

-----------------------------------------------------------------------------
(* underRemovalGuard                                                       *)

(* openSync(guard, 'wx') *)
CreateGuard(p) ==
  /\ pc[p] = "gcreate"
  /\ IF Exists(guard)
       THEN Goto(p, "gread") /\ UNCHANGED <<guard, gmine>>
       ELSE /\ Unused(p) # {}
            /\ guard' = Created(NewRecord(p))
            /\ gmine' = [gmine EXCEPT ![p] = NewRecord(p)]
            /\ Goto(p, "gwrite")
  /\ UNCHANGED <<faults, lock, alive, mine, seen, gseen, aside, why>>

(* The write follows the file, also if it has been renamed aside. *)
WriteGuard(p) ==
  /\ pc[p] = "gwrite"
  /\ guard' = IF guard.rec = gmine[p] THEN Written(guard) ELSE guard
  /\ aside' = [q \in Procs |->
                 IF aside[q].rec = gmine[p] THEN Written(aside[q]) ELSE aside[q]]
  /\ Goto(p, "confirm")
  /\ UNCHANGED <<faults, lock, alive, mine, seen, gmine, gseen, why>>

(* The guard cannot be had: a waiter reports the error, a release leaves   *)
(* its lockfile in place.                                                  *)
WriteGuardFails(p) ==
  /\ pc[p] = "gwrite" /\ faults.giveUp
  /\ guard' = NoFile
  /\ Forget(p)
  /\ UNCHANGED <<faults, lock, alive>>

ReadGuard(p) ==
  /\ pc[p] = "gread"
  /\ gseen' = [gseen EXCEPT ![p] = ReadRecord(guard)]
  /\ Goto(p, "gjudge")
  /\ UNCHANGED <<faults, lock, guard, alive, mine, seen, gmine, aside, why>>

(* A guard that does not parse is given no time to be written. *)
GuardStaleAtOnce(p) == gseen[p] = NoRecord \/ ~HolderAlive(gseen[p])

(* A guard is stale if its holder is dead, or if it still does not parse   *)
(* after GUARD_STALE_MS; age alone never condemns a guard that parses.     *)
GuardStale(p) == IF gseen[p] = NoRecord THEN guard.old ELSE ~HolderAlive(gseen[p])

JudgeGuard(p) ==
  /\ pc[p] = "gjudge"
  /\ IF Exists(guard) /\ GuardStale(p)
       THEN Goto(p, "clear") /\ UNCHANGED gseen
       ELSE /\ Goto(p, IF Exists(guard) THEN "gpoll" ELSE "gcreate")
            /\ gseen' = [gseen EXCEPT ![p] = NoRecord]
  /\ UNCHANGED <<faults, lock, guard, alive, mine, seen, gmine, aside, why>>

RetryGuard(p) ==
  /\ pc[p] = "gpoll"
  /\ Goto(p, "gcreate")
  /\ UNCHANGED <<faults, lock, guard, alive, locals>>

(* Past the deadline the waiter throws, and a release gives up. *)
TimeOutOnGuard(p) ==
  /\ pc[p] = "gpoll" /\ faults.giveUp
  /\ Forget(p)
  /\ UNCHANGED <<faults, lock, guard, alive>>

(* clearStaleGuard: renameSync moves whatever guard there is now. *)
RenameGuard(p) ==
  /\ pc[p] = "clear"
  /\ aside' = [aside EXCEPT ![p] = guard]
  /\ guard' = NoFile
  /\ Goto(p, IF Exists(guard) THEN "inspect" ELSE "gpoll")
  /\ gseen' = IF Exists(guard) THEN gseen ELSE [gseen EXCEPT ![p] = NoRecord]
  /\ UNCHANGED <<faults, lock, alive, mine, seen, gmine, why>>

(* The renamed guard is dropped unseen. *)
DropAside(p) ==
  /\ pc[p] = "inspect"
  /\ Goto(p, "gpoll")
  /\ aside' = [aside EXCEPT ![p] = NoFile]
  /\ gseen' = [gseen EXCEPT ![p] = NoRecord]
  /\ UNCHANGED <<faults, lock, guard, alive, mine, seen, gmine, why>>

(* It is dropped if it is the one judged stale, else it is put back:       *)
(* linkSync refuses to overwrite a newer guard.                            *)
InspectAside(p) ==
  /\ pc[p] = "inspect"
  /\ IF ReadRecord(aside[p]) = gseen[p]
       THEN Goto(p, "gpoll") /\ aside' = [aside EXCEPT ![p] = NoFile]
       ELSE Goto(p, "putback") /\ UNCHANGED aside
  /\ gseen' = [gseen EXCEPT ![p] = NoRecord]
  /\ UNCHANGED <<faults, lock, guard, alive, mine, seen, gmine, why>>

PutBack(p) ==
  /\ pc[p] = "putback"
  /\ guard' = IF Exists(guard) THEN guard ELSE aside[p]
  /\ aside' = [aside EXCEPT ![p] = NoFile]
  /\ Goto(p, "gpoll")
  /\ UNCHANGED <<faults, lock, alive, mine, seen, gmine, gseen, why>>

-----------------------------------------------------------------------------
(* Under the guard                                                         *)

(* The guard's owner removes the lock without looking at it again. *)
RemoveUnconfirmed(p) ==
  /\ pc[p] = "confirm"
  /\ Goto(p, "remove")
  /\ UNCHANGED <<faults, lock, guard, alive, locals>>

(* The record to remove: the holder's own, or the one judged stale. *)
Entitled(p) == IF why[p] = "release" THEN mine[p] ELSE seen[p]

(* Read the lockfile again, under the guard.  A lockfile that did not      *)
(* parse must still not parse and still be old.                            *)
ConfirmLock(p) ==
  /\ pc[p] = "confirm"
  /\ Goto(p, IF ReadRecord(lock) # Entitled(p) THEN "leave"
             ELSE IF Entitled(p) = NoRecord THEN "confirmAge" ELSE "remove")
  /\ UNCHANGED <<faults, lock, guard, alive, locals>>

ConfirmAge(p) ==
  /\ pc[p] = "confirmAge"
  /\ Goto(p, IF Exists(lock) /\ lock.old THEN "remove" ELSE "leave")
  /\ UNCHANGED <<faults, lock, guard, alive, locals>>

(* rmSync(lockPath) *)
RemoveLock(p) ==
  /\ pc[p] = "remove"
  /\ lock' = NoFile
  /\ Goto(p, "leave")
  /\ UNCHANGED <<faults, guard, alive, locals>>

(* The finally block: read the guard ... *)
ReadOwnGuard(p) ==
  /\ pc[p] = "leave"
  /\ Goto(p, IF ReadRecord(guard) = gmine[p] THEN "unguard" ELSE "left")
  /\ UNCHANGED <<faults, lock, guard, alive, locals>>

(* ... and remove it. *)
RemoveGuard(p) ==
  /\ pc[p] = "unguard"
  /\ guard' = NoFile
  /\ Goto(p, "left")
  /\ UNCHANGED <<faults, lock, alive, locals>>

(* The waiter tries again under the guard record it used before. *)
LeaveGuardKeeping(p) ==
  /\ pc[p] = "left"
  /\ IF why[p] = "release"
       THEN Forget(p)
       ELSE /\ Goto(p, "poll")
            /\ seen' = [seen EXCEPT ![p] = NoRecord]
            /\ UNCHANGED <<mine, gmine, gseen, aside, why>>
  /\ UNCHANGED <<faults, lock, guard, alive>>

(* A release returns; a waiter tries to create the lockfile again, or      *)
(* finds that its deadline passed.                                         *)
LeaveGuard(p) ==
  /\ pc[p] = "left"
  /\ IF why[p] = "release"
       THEN Forget(p)
       ELSE /\ Goto(p, "poll")
            /\ seen' = [seen EXCEPT ![p] = NoRecord]
            /\ gmine' = [gmine EXCEPT ![p] = NoRecord]
            /\ UNCHANGED <<mine, gseen, aside, why>>
  /\ UNCHANGED <<faults, lock, guard, alive>>

-----------------------------------------------------------------------------
(* The environment                                                         *)

(* Between the creation of the guard and its removal. *)
InSection(p) ==
  pc[p] \in {"gwrite", "confirm", "confirmAge", "remove", "leave", "unguard"}

(* The process created the lockfile and has not yet removed it. *)
Relies(p) ==
  \/ pc[p] \in {"write", "hold"}
  \/ why[p] = "release" /\ pc[p] \in {"gcreate", "gwrite", "gread", "gjudge", "gpoll",
       "clear", "inspect", "putback", "confirm", "confirmAge", "remove"}

(* Somebody has read p's guard record and has yet to act on it. *)
Observed(p) == \E q \in Procs \ {p} : gseen[q] # NoRecord /\ gseen[q][1] = p

(* A process dies: outside its guard section, or moreover only while       *)
(* nobody is judging a guard record of its.  Deaths inside a guard section *)
(* are considered by what they leave behind, in Init.                      *)
Crash(p) ==
  /\ p \in alive
  /\ faults.deaths \in {"outside", "unobserved"} /\ ~InSection(p)
  /\ faults.deaths = "unobserved" => ~Observed(p)
  /\ alive' = alive \ {p}
  /\ Forget(p)
  /\ UNCHANGED <<faults, lock, guard>>

(* A new process is given the pid of a dead one; the departed one's goes   *)
(* to some other program.                                                  *)
ReusePid(p) ==
  /\ p \notin alive
  /\ alive' = alive \cup {p}
  /\ UNCHANGED <<faults, lock, guard, pc, locals>>

(* A file nobody relies on any more grows old. *)
LockAges ==
  /\ Exists(lock) /\ ~lock.old
  /\ \A p \in Procs : Relies(p) => lock.rec # mine[p]
  /\ lock' = Aged(lock)
  /\ UNCHANGED <<faults, guard, alive, pc, locals>>

GuardAges ==
  /\ Exists(guard) /\ ~guard.old
  /\ \A p \in Procs : InSection(p) => guard.rec # gmine[p]
  /\ guard' = Aged(guard)
  /\ UNCHANGED <<faults, lock, alive, pc, locals>>

-----------------------------------------------------------------------------

Acquiring(p) ==
  \/ CreateLock(p) \/ WriteLock(p) \/ WriteLockFails(p) \/ EndLaunch(p)
  \/ ReadLock(p) \/ JudgeLock(p) \/ Retry(p) \/ TimeOut(p)

Guarding(p) ==
  \/ CreateGuard(p) \/ WriteGuard(p) \/ WriteGuardFails(p)
  \/ ReadGuard(p) \/ JudgeGuard(p) \/ RetryGuard(p) \/ TimeOutOnGuard(p)
  \/ RenameGuard(p) \/ InspectAside(p) \/ PutBack(p)
  \/ ConfirmLock(p) \/ ConfirmAge(p) \/ RemoveLock(p)
  \/ ReadOwnGuard(p) \/ RemoveGuard(p) \/ LeaveGuard(p)

Step(p) == Acquiring(p) \/ Guarding(p)

Next ==
  \/ \E p \in Procs : Start(p) \/ Step(p) \/ Crash(p)
  \/ \E p \in Procs \cup {Departed} : ReusePid(p)
  \/ LockAges \/ GuardAges

Spec == Init /\ [][Next]_vars

(* The operating system runs every process that exists, and time passes.   *)
FairSpec == Spec /\ WF_vars(LockAges) /\ \A p \in Procs : WF_vars(Step(p))

-----------------------------------------------------------------------------
(* Properties                                                              *)

Stages ==
  {"idle", "create", "write", "hold", "read", "judge", "poll",
   "gcreate", "gwrite", "gread", "gjudge", "gpoll", "clear", "inspect", "putback",
   "confirm", "confirmAge", "remove", "leave", "unguard", "left"}

(* The locals of one process come and go with the acquisition and with the *)
(* guard section they belong to, and the records it makes carry its pid.   *)
LocalsOK(p) ==
  /\ IF pc[p] = "idle" THEN mine[p] = NoRecord ELSE mine[p] \in {p} \X Serials
  /\ IF InSection(p) \/ pc[p] = "left"
       THEN gmine[p] \in {p} \X Serials ELSE gmine[p] = NoRecord
  /\ pc[p] \in {"idle", "create", "write", "hold", "read", "poll"} =>
       seen[p] = NoRecord /\ why[p] = "steal"
  /\ why[p] = "release" => seen[p] = NoRecord /\ pc[p] \notin {"judge", "confirmAge"}
  /\ pc[p] \notin {"gjudge", "clear", "inspect"} => gseen[p] = NoRecord
  /\ Exists(aside[p]) <=> pc[p] \in {"inspect", "putback"}

(* Types of the two files and of the locals of soffice-lock.ts. *)
TypeOK ==
  /\ faults \in Faults
  /\ lock \in Files \cup {NoFile}
  /\ guard \in Files \cup {NoFile}
  /\ alive \subseteq Procs \cup {Departed}
  /\ pc \in [Procs -> Stages]
  /\ mine \in [Procs -> Records \cup {NoRecord}]
  /\ seen \in [Procs -> Records \cup {NoRecord}]
  /\ gmine \in [Procs -> Records \cup {NoRecord}]
  /\ gseen \in [Procs -> Records \cup {NoRecord}]
  /\ aside \in [Procs -> Files \cup {NoFile}]
  /\ why \in [Procs -> {"steal", "release"}]
  /\ \A p \in Procs : LocalsOK(p)

(* LibreOffice launches are serialized (issue 1037): at most one process   *)
(* runs its launch.                                                        *)
MutualExclusion ==
  \A p, q \in Procs : pc[p] = "hold" /\ pc[q] = "hold" => p = q

(* "Removers are serialized": at most one process is between creating the  *)
(* guard and removing it.                                                  *)
RemoversSerialized == \A p, q \in Procs : InSection(p) /\ InSection(q) => p = q

(* A process that created the lockfile finds it there until it removes it  *)
(* itself: neither a release nor a steal deletes somebody else's lock.     *)
LockIsMine == \A p \in Procs : Relies(p) => lock.rec = mine[p]

(* A guard that names a live process belongs to a process that is inside   *)
(* its section and will remove it; otherwise nothing ever clears it, every *)
(* release leaves its lockfile and every steal times out.  This is what    *)
(* failed writes, deadlines and releases come to; a guard that a process   *)
(* left when it died, and one that is put back, may well be stranded.      *)
NoStrandedGuard ==
  faults.left = {} /\ Exists(guard) /\ guard.text /\ guard.rec[1] \in alive =>
    \E p \in Procs : InSection(p) /\ guard.rec = gmine[p]

(* A dead process cannot pin the lock: a lockfile whose holder is gone is  *)
(* removed if somebody keeps waiting for it, even if its pid is reused.    *)
DeadHolderReclaimed ==
  \A p \in Procs, r \in Records :
    (pc[p] = "create" /\ lock.rec = r /\ r[1] \notin alive) ~>
      (lock.rec # r \/ pc[p] = "idle")
=============================================================================
