------------------------- MODULE SessionStoreProofs -------------------------
(***************************************************************************)
(* Proofs about SessionStore, for every set of calls and paths and every   *)
(* bound on sessions.  Where no call is an opener (what an MCP client can  *)
(* do), the resolver's pending map is shown to be a lock on the path:      *)
(* Protocol is the inductive invariant, and the statements about sessions  *)
(* rest on its second and third conjunct, which together say that a path   *)
(* somebody is opening has no session.                                     *)
(***************************************************************************)
EXTENDS SessionStore, TLAPS

(* Every variable keeps its type (SessionManager and the resolver's maps). *)
THEOREM TypeCorrect == Spec => []TypeOK
<1>1. Init => TypeOK
  BY ConstantsAssumption DEF Init, TypeOK, NoSession, SessionIds, Stages, Tools
<1>2. TypeOK /\ [Next]_vars => TypeOK'
  <2> SUFFICES ASSUME TypeOK, [Next]_vars PROVE TypeOK'
    OBVIOUS
  <2> USE DEF NoSession, SessionIds, Stages, Tools, histories, locals
  <2>1. CASE UNCHANGED vars
    BY <2>1 DEF TypeOK, vars
  <2>2. ASSUME NEW c \in Calls, NEW o \in Tools, NEW p \in Paths, Start(c, o, p)
        PROVE TypeOK'
    BY <2>2 DEF TypeOK, Start, Suspend
  <2>3. ASSUME NEW s \in SessionIds, Expire(s) PROVE TypeOK'
    BY <2>3 DEF TypeOK, Expire
  <2>4. ASSUME NEW c \in Calls, Step(c) PROVE TypeOK'
    <3>1. CASE Reuse(c)
      BY <3>1 DEF TypeOK, Reuse, Suspend, GetSessionByPath, Live
    <3>2. CASE AwaitLeader(c)
      BY <3>2 DEF TypeOK, AwaitLeader, Suspend, GetSessionByPath
    <3>3. CASE BecomeLeader(c)
      BY <3>3 DEF TypeOK, BecomeLeader, Suspend, GetSessionByPath
    <3>4. CASE StatDone(c)
      BY <3>4 DEF TypeOK, StatDone, Suspend
    <3>5. CASE WaiterResumes(c)
      BY <3>5 DEF TypeOK, WaiterResumes, Suspend, Answer
    <3>6. CASE LoadFails(c)
      BY <3>6 DEF TypeOK, LoadFails, Settle, Deliver, AfterOpening
    <3>7. CASE LoadSucceeds(c)
      BY <3>7 DEF TypeOK, LoadSucceeds, Suspend
    <3>8. CASE FindExisting(c)
      BY <3>8 DEF TypeOK, FindExisting, Suspend
    <3>9. CASE MakeTmpDir(c)
      BY <3>9, ConstantsAssumption DEF TypeOK, MakeTmpDir, Suspend
    <3>10. CASE ParseFails(c)
      BY <3>10 DEF TypeOK, ParseFails, Settle, Deliver, AfterOpening
    <3>11. CASE Install(c)
      BY <3>11 DEF TypeOK, Install, Settle, Deliver, AfterOpening
    <3>12. CASE UseSession(c)
      BY <3>12 DEF TypeOK, UseSession, Suspend, Answer
    <3>13. CASE CloseNothing(c)
      BY <3>13 DEF TypeOK, CloseNothing, Suspend, Answer
    <3>14. CASE Close(c)
      BY <3>14 DEF TypeOK, Close, Suspend
    <3>15. CASE ClearAll(c)
      <4>1. Stored \subseteq SessionIds
        BY DEF Stored, TypeOK
      <4> QED BY <3>15, <4>1 DEF ClearAll, Suspend, TypeOK
    <3>16. CASE CloseDone(c)
      BY <3>16 DEF TypeOK, CloseDone, Suspend, Answer
    <3>17. ASSUME NEW s \in SessionIds, RemoveDir(c, s) PROVE TypeOK'
      BY <3>17 DEF TypeOK, RemoveDir
    <3> QED BY <2>4, <3>1, <3>2, <3>3, <3>4, <3>5, <3>6, <3>7, <3>8, <3>9,
      <3>10, <3>11, <3>12, <3>13, <3>14, <3>15, <3>16, <3>17 DEF Step
  <2> QED BY <2>1, <2>2, <2>3, <2>4 DEF Next
<1> QED BY <1>1, <1>2, PTL DEF Spec

-----------------------------------------------------------------------------

(***************************************************************************)
(* The pending map, whoever opens: the resolver's leaders register their   *)
(* promise, openDocument does not.                                         *)
(***************************************************************************)

(* The inductive invariant: the leaders at work are exactly the calls that *)
(* are registered, and only a call that awaits has somebody to wait for.   *)
Registered ==
  /\ PendingIsCurrent
  /\ \A c \in Calls : pc[c] \in Opening /\ op[c] = "edit" => pending[path[c]] = c
  /\ \A c \in Calls : waits[c] # NoCall => pc[c] = "await"

(* An opener settles: a leader is taken off the map and its waiters, who   *)
(* are all on its path, are woken; nobody waits for an openDocument.       *)
LEMMA SettleKeepsRegistered ==
  ASSUME TypeOK, Registered, NEW c \in Calls, NEW s \in SessionIds \cup {NoSession},
         pc[c] \in Opening, Settle(c, s), op' = op, path' = path
  PROVE  Registered'
<1>1. pending' = [pending EXCEPT ![path[c]] = IF @ = c THEN NoCall ELSE @]
  BY DEF Settle
<1>2. \A d \in Calls : waits[d] = c => path[d] = path[c] /\ pending[path[c]] = c
  BY ConstantsAssumption DEF Registered, PendingIsCurrent, TypeOK
<1>3. \A d \in Calls : pc[d] = "await" /\ waits[d] # c => pending[path[d]] # c
  BY DEF Registered, PendingIsCurrent
<1>4. /\ \A d \in Calls : d # c /\ waits[d] # c => pc'[d] = pc[d] /\ waits'[d] = waits[d]
      /\ \A d \in Calls : d # c /\ waits[d] = c => pc'[d] = "resume" /\ waits'[d] = NoCall
      /\ pc'[c] \in {"idle", "use"} /\ waits'[c] = NoCall
  BY ConstantsAssumption DEF Settle, Deliver, AfterOpening, TypeOK, Registered, Opening
<1>5. \A p \in Paths : pending'[p] # NoCall => pending'[p] = pending[p] /\ pending[p] # c
  BY <1>1 DEF Registered, PendingIsCurrent, TypeOK
<1>6. PendingIsCurrent'
  <2>1. ASSUME NEW p \in Paths, pending'[p] # NoCall
        PROVE  /\ path'[pending'[p]] = p
               /\ op'[pending'[p]] = "edit"
               /\ pc'[pending'[p]] \in Opening
    <3>1. pending'[p] = pending[p] /\ pending[p] # NoCall /\ pending[p] \in Calls /\ pending[p] # c
      BY <1>5, <2>1 DEF TypeOK
    <3>2. pc[pending[p]] \in Opening /\ waits[pending[p]] # c
      BY <3>1, ConstantsAssumption DEF Registered, PendingIsCurrent, Opening
    <3>3. pc'[pending[p]] = pc[pending[p]]
      BY <3>1, <3>2, <1>4
    <3> QED BY <3>1, <3>2, <3>3 DEF Registered, PendingIsCurrent
  <2>2. ASSUME NEW d \in Calls, pc'[d] = "await"
        PROVE  waits'[d] # NoCall /\ waits'[d] = pending'[path'[d]]
    <3>1. d # c /\ waits[d] # c /\ pc[d] = "await" /\ waits'[d] = waits[d]
      BY <1>4, <2>2
    <3>2. pending[path[d]] # c /\ path[d] \in Paths
      BY <3>1, <1>3, ConstantsAssumption DEF Registered, PendingIsCurrent, TypeOK, Opening
    <3>3. pending'[path[d]] = pending[path[d]]
      BY <1>1, <3>2 DEF TypeOK
    <3> QED BY <3>1, <3>3 DEF Registered, PendingIsCurrent
  <2> QED BY <2>1, <2>2 DEF PendingIsCurrent
<1>7. ASSUME NEW d \in Calls, pc'[d] \in Opening, op'[d] = "edit" PROVE pending'[path'[d]] = d
  <2>1. d # c /\ pc[d] \in Opening
    BY <1>4, <1>7 DEF Opening
  <2>2. pending[path[d]] = d
    BY <1>7, <2>1 DEF Registered
  <2> QED BY <2>1, <2>2, <1>1 DEF TypeOK
<1>8. \A d \in Calls : waits'[d] # NoCall => pc'[d] = "await"
  BY <1>4 DEF Registered
<1> QED BY <1>6, <1>7, <1>8 DEF Registered

(* Every step keeps the map exact. *)
LEMMA StepKeepsRegistered ==
  ASSUME TypeOK, Registered, [Next]_vars
  PROVE  Registered'
<1> USE DEF histories, locals
<1>1. CASE UNCHANGED vars
  BY <1>1 DEF vars, Registered, PendingIsCurrent
<1>2. ASSUME NEW c \in Calls, NEW o \in Tools, NEW p \in Paths, Start(c, o, p)
      PROVE  Registered'
  <2>1. /\ \A d \in Calls : d # c => pc'[d] = pc[d] /\ path'[d] = path[d] /\ op'[d] = op[d]
        /\ pc'[c] = (IF o = "open" THEN "load" ELSE "called") /\ op'[c] = o /\ pc[c] = "idle"
        /\ UNCHANGED <<pending, waits>>
    BY <1>2 DEF Start, Suspend, TypeOK
  <2>2. waits[c] = NoCall /\ \A q \in Paths : pending[q] # c
    BY <2>1, ConstantsAssumption DEF Registered, PendingIsCurrent, Opening
  <2> QED BY <2>1, <2>2 DEF Registered, PendingIsCurrent, Opening, TypeOK
<1>3. ASSUME NEW s \in SessionIds, Expire(s) PROVE Registered'
  BY <1>3 DEF Expire, Registered, PendingIsCurrent
<1>4. ASSUME NEW c \in Calls, Step(c) PROVE Registered'
  <2>1. CASE AwaitLeader(c)
    <3>1. /\ pc[c] = "called" /\ pc'[c] = "await" /\ waits'[c] = pending[path[c]]
          /\ pending[path[c]] # NoCall
          /\ \A d \in Calls : d # c => pc'[d] = pc[d] /\ waits'[d] = waits[d]
          /\ UNCHANGED <<pending, op, path>>
      BY <2>1 DEF AwaitLeader, Suspend, TypeOK
    <3> QED BY <3>1 DEF Registered, PendingIsCurrent, Opening, TypeOK
  <2>2. CASE BecomeLeader(c)
    <3>1. /\ pending[path[c]] = NoCall /\ pending' = [pending EXCEPT ![path[c]] = c]
          /\ pc[c] = "called" /\ pc'[c] = "load" /\ op[c] = "edit"
          /\ \A d \in Calls : d # c => pc'[d] = pc[d]
          /\ UNCHANGED <<op, path, waits>>
      BY <2>2 DEF BecomeLeader, Suspend, TypeOK
    <3>2. path[c] \in Paths
      BY <2>2 DEF BecomeLeader, TypeOK
    <3>3. \A d \in Calls : pc[d] = "await" => path[d] # path[c]
      BY <3>1 DEF Registered, PendingIsCurrent
    <3> QED BY <3>1, <3>2, <3>3, ConstantsAssumption
            DEF Registered, PendingIsCurrent, Opening, TypeOK
  <2>3. CASE LoadFails(c) \/ ParseFails(c) \/ Install(c)
    <3>1. pc[c] \in Opening /\ UNCHANGED <<op, path>>
          /\ (Settle(c, NoSession) \/ Settle(c, held[c]))
      BY <2>3 DEF LoadFails, ParseFails, Install, Opening
    <3>2. held[c] \in SessionIds \cup {NoSession}
      BY DEF TypeOK
    <3> QED BY <3>1, <3>2, SettleKeepsRegistered
  <2>4. CASE \/ Reuse(c) \/ StatDone(c) \/ WaiterResumes(c) \/ UseSession(c)
             \/ CloseNothing(c) \/ Close(c) \/ ClearAll(c) \/ CloseDone(c)
    <3>1. /\ pc[c] \notin Opening \cup {"await"} /\ pc'[c] \notin Opening \cup {"await"}
          /\ \A d \in Calls : d # c => pc'[d] = pc[d]
          /\ UNCHANGED <<pending, op, path, waits>>
      BY <2>4 DEF Reuse, StatDone, WaiterResumes, UseSession, CloseNothing, Close, ClearAll,
        CloseDone, Answer, Suspend, Opening, TypeOK
    <3> QED BY <3>1 DEF Registered, PendingIsCurrent, Opening, TypeOK
  <2>5. CASE LoadSucceeds(c) \/ FindExisting(c) \/ MakeTmpDir(c)
    <3>1. /\ pc[c] \in Opening /\ pc'[c] \in Opening
          /\ \A d \in Calls : d # c => pc'[d] = pc[d]
          /\ UNCHANGED <<pending, op, path, waits>>
      BY <2>5 DEF LoadSucceeds, FindExisting, MakeTmpDir, Suspend, Opening, TypeOK
    <3> QED BY <3>1 DEF Registered, PendingIsCurrent, Opening, TypeOK
  <2>6. ASSUME NEW s \in SessionIds, RemoveDir(c, s) PROVE Registered'
    BY <2>6 DEF RemoveDir, Registered, PendingIsCurrent
  <2> QED BY <1>4, <2>1, <2>2, <2>3, <2>4, <2>5, <2>6 DEF Step
<1> QED BY <1>1, <1>2, <1>3, <1>4 DEF Next

(* No promise that has settled is ever handed out, and every waiter is on  *)
(* the registered promise of its own path: whoever opens the file, also    *)
(* past the resolver.                                                      *)
THEOREM PendingIsCurrentHolds == Spec => []PendingIsCurrent
<1>1. Init => Registered
  BY DEF Init, Registered, PendingIsCurrent, Opening
<1>2. TypeOK /\ Registered /\ [Next]_vars => Registered'
  BY StepKeepsRegistered
<1>3. Registered => PendingIsCurrent
  BY DEF Registered
<1> QED BY <1>1, <1>2, <1>3, TypeCorrect, PTL DEF Spec

-----------------------------------------------------------------------------

(* No MCP client can call openDocument (tool_catalog.ts omits it). *)
ResolverOnly == Openers = {}

(* The inductive invariant: a registered promise and a call that is        *)
(* opening are the same thing, and exclude a session for the path.         *)
Protocol ==
  /\ PendingIsCurrent
  /\ \A p \in Paths : pending[p] # NoCall => store[p] = NoSession
  /\ \A c \in Calls : pc[c] \in Opening => pending[path[c]] = c
  /\ \A c \in Calls : waits[c] # NoCall => pc[c] = "await"
  /\ \A c \in Calls : op[c] # "open"

(* The settlement of the leader's promise keeps the protocol, whatever     *)
(* value it settles with: the waiters of c are waiters of c's path.        *)
LEMMA SettleKeepsProtocol ==
  ASSUME TypeOK, Protocol, NEW c \in Calls, NEW s \in SessionIds \cup {NoSession},
         pc[c] \in Opening, Settle(c, s),
         op' = op, path' = path,
         \A p \in Paths : p # path[c] => store'[p] = store[p]
  PROVE  Protocol'
<1>1. pending[path[c]] = c /\ pending' = [pending EXCEPT ![path[c]] = NoCall]
  BY DEF Protocol, Settle, TypeOK
<1>2. \A d \in Calls : waits[d] = c <=> pc[d] = "await" /\ path[d] = path[c]
  BY <1>1, ConstantsAssumption DEF Protocol, PendingIsCurrent, TypeOK
<1>3. \A p \in Paths : p # path[c] /\ pending[p] # NoCall => pending[p] # c
  BY DEF Protocol, PendingIsCurrent
<1>4. /\ \A d \in Calls : d # c /\ waits[d] # c => pc'[d] = pc[d] /\ waits'[d] = waits[d]
      /\ \A d \in Calls : d # c /\ waits[d] = c => pc'[d] = "resume" /\ waits'[d] = NoCall
      /\ pc'[c] \in {"idle", "use"} /\ waits'[c] = NoCall
  BY ConstantsAssumption DEF Settle, Deliver, AfterOpening, TypeOK, Protocol, Opening
<1>5. PendingIsCurrent'
  <2>1. ASSUME NEW p \in Paths, pending'[p] # NoCall
        PROVE  /\ path'[pending'[p]] = p
               /\ op'[pending'[p]] = "edit"
               /\ pc'[pending'[p]] \in Opening
    <3>1. /\ p # path[c] /\ pending'[p] = pending[p] /\ pending[p] # NoCall
          /\ pending[p] \in Calls /\ pending[p] # c
      BY <1>1, <1>3, <2>1 DEF TypeOK
    <3>2. pc[pending[p]] \in Opening /\ waits[pending[p]] # c
      BY <3>1, <1>2 DEF Protocol, PendingIsCurrent, Opening
    <3>3. pc'[pending[p]] = pc[pending[p]]
      BY <3>1, <3>2, <1>4
    <3> QED BY <3>1, <3>2, <3>3 DEF Protocol, PendingIsCurrent
  <2>2. ASSUME NEW d \in Calls, pc'[d] = "await"
        PROVE  waits'[d] # NoCall /\ waits'[d] = pending'[path'[d]]
    <3>1. d # c /\ waits[d] # c /\ pc[d] = "await" /\ waits'[d] = waits[d]
      BY <1>4, <2>2
    <3>2. path[d] # path[c]
      BY <3>1, <1>2
    <3> QED BY <3>1, <3>2, <1>1 DEF Protocol, PendingIsCurrent, TypeOK
  <2> QED BY <2>1, <2>2 DEF PendingIsCurrent
<1>6. \A p \in Paths : pending'[p] # NoCall => store'[p] = NoSession
  BY <1>1 DEF Protocol, TypeOK
<1>7. \A d \in Calls : pc'[d] \in Opening => pending'[path'[d]] = d
  <2> SUFFICES ASSUME NEW d \in Calls, pc'[d] \in Opening PROVE pending'[path'[d]] = d
    OBVIOUS
  <2>1. d # c /\ pc[d] \in Opening
    BY <1>4 DEF Opening
  <2>2. pending[path[d]] = d
    BY <2>1 DEF Protocol
  <2> QED BY <2>1, <2>2, <1>1 DEF TypeOK
<1>8. \A d \in Calls : waits'[d] # NoCall => pc'[d] = "await"
  BY <1>4 DEF Protocol
<1> QED BY <1>5, <1>6, <1>7, <1>8 DEF Protocol

(* One step of the resolver-only system keeps the protocol. *)
LEMMA StepKeepsProtocol ==
  ASSUME ResolverOnly, TypeOK, Protocol, [Next]_vars
  PROVE  Protocol'
<1> USE DEF histories, locals
<1>1. CASE UNCHANGED vars
  BY <1>1 DEF vars, Protocol, PendingIsCurrent
<1>2. ASSUME NEW c \in Calls, NEW o \in Tools, NEW p \in Paths, Start(c, o, p)
      PROVE  Protocol'
  <2>1. o # "open"
    BY <1>2 DEF Start, ResolverOnly
  <2>2. /\ \A d \in Calls : d # c => pc'[d] = pc[d] /\ path'[d] = path[d] /\ op'[d] = op[d]
        /\ pc'[c] = "called" /\ op'[c] = o /\ pc[c] = "idle"
    BY <1>2, <2>1 DEF Start, Suspend, TypeOK
  <2>3. UNCHANGED <<store, pending, waits>>
    BY <1>2 DEF Start
  <2>4. \A q \in Paths : pending[q] # c
    BY <2>2, ConstantsAssumption DEF Protocol, PendingIsCurrent, Opening
  <2> QED BY <2>1, <2>2, <2>3, <2>4 DEF Protocol, PendingIsCurrent, Opening, TypeOK
<1>3. ASSUME NEW s \in SessionIds, Expire(s) PROVE Protocol'
  BY <1>3 DEF Expire, Protocol, PendingIsCurrent
<1>4. ASSUME NEW c \in Calls, Step(c) PROVE Protocol'
  <2>1. CASE Reuse(c)
    BY <2>1 DEF Reuse, GetSessionByPath, Suspend, Protocol, PendingIsCurrent, Opening, TypeOK, Live
  <2>2. CASE AwaitLeader(c)
    BY <2>2 DEF AwaitLeader, GetSessionByPath, Suspend, Protocol, PendingIsCurrent, Opening, TypeOK
  <2>3. CASE BecomeLeader(c)
    <3>1. store'[path[c]] = NoSession
      BY <2>3 DEF BecomeLeader, GetSessionByPath, Live, TypeOK
    <3>2. \A p \in Paths : p # path[c] => store'[p] = store[p] /\ pending'[p] = pending[p]
      BY <2>3 DEF BecomeLeader, GetSessionByPath, TypeOK
    <3>3. /\ pending[path[c]] = NoCall /\ pending'[path[c]] = c
          /\ pc[c] = "called" /\ pc'[c] = "load" /\ op[c] = "edit"
          /\ \A d \in Calls : d # c => pc'[d] = pc[d]
          /\ UNCHANGED <<op, path, waits>>
      BY <2>3 DEF BecomeLeader, Suspend, TypeOK
    <3>4. \A d \in Calls : pc[d] = "await" => path[d] # path[c]
      BY <3>3, ConstantsAssumption DEF Protocol, PendingIsCurrent, TypeOK, Opening
    <3> QED BY <3>1, <3>2, <3>3, <3>4, ConstantsAssumption
            DEF Protocol, PendingIsCurrent, Opening, TypeOK
  <2>4. CASE StatDone(c)
    BY <2>4 DEF StatDone, Suspend, Protocol, PendingIsCurrent, Opening, TypeOK
  <2>5. CASE WaiterResumes(c)
    BY <2>5 DEF WaiterResumes, Answer, Suspend, Protocol, PendingIsCurrent, Opening, TypeOK
  <2>6. CASE LoadFails(c)
    <3> QED BY <2>6, SettleKeepsProtocol DEF LoadFails, Opening
  <2>7. CASE LoadSucceeds(c)
    BY <2>7 DEF LoadSucceeds, Suspend, Protocol, PendingIsCurrent, Opening, TypeOK
  <2>8. CASE FindExisting(c)
    BY <2>8 DEF FindExisting, Suspend, Protocol, PendingIsCurrent, Opening, TypeOK
  <2>9. CASE MakeTmpDir(c)
    <3>1. /\ pc[c] = "mkdir" /\ pc'[c] = "parse"
          /\ \A d \in Calls : d # c => pc'[d] = pc[d]
          /\ UNCHANGED <<store, pending, op, path, waits>>
      BY <2>9 DEF MakeTmpDir, Suspend, TypeOK
    <3> QED BY <3>1 DEF Protocol, PendingIsCurrent, Opening, TypeOK
  <2>10. CASE ParseFails(c)
    BY <2>10, SettleKeepsProtocol DEF ParseFails, Opening
  <2>11. CASE Install(c)
    <3>1. \A p \in Paths : p # path[c] => store'[p] = store[p]
      BY <2>11 DEF Install, TypeOK
    <3>2. held[c] \in SessionIds \cup {NoSession}
      BY DEF TypeOK
    <3> QED BY <2>11, <3>1, <3>2, SettleKeepsProtocol DEF Install, Opening
  <2>12. CASE UseSession(c)
    BY <2>12 DEF UseSession, Answer, Suspend, Protocol, PendingIsCurrent, Opening, TypeOK
  <2>13. CASE CloseNothing(c)
    BY <2>13 DEF CloseNothing, Answer, Suspend, Protocol, PendingIsCurrent, Opening, TypeOK
  <2>14. CASE Close(c)
    BY <2>14 DEF Close, Suspend, Protocol, PendingIsCurrent, Opening, TypeOK
  <2>15. CASE ClearAll(c)
    BY <2>15 DEF ClearAll, Suspend, Protocol, PendingIsCurrent, Opening, TypeOK
  <2>16. CASE CloseDone(c)
    BY <2>16 DEF CloseDone, Answer, Suspend, Protocol, PendingIsCurrent, Opening, TypeOK
  <2>17. ASSUME NEW s \in SessionIds, RemoveDir(c, s) PROVE Protocol'
    BY <2>17 DEF RemoveDir, Protocol, PendingIsCurrent
  <2> QED BY <1>4, <2>1, <2>2, <2>3, <2>4, <2>5, <2>6, <2>7, <2>8, <2>9, <2>10,
    <2>11, <2>12, <2>13, <2>14, <2>15, <2>16, <2>17 DEF Step
<1> QED BY <1>1, <1>2, <1>3, <1>4 DEF Next

(* The pending map never holds a settled promise, and is a lock per path. *)
THEOREM ProtocolHolds ==
  ASSUME ResolverOnly
  PROVE  Spec => []Protocol
<1>1. Init => Protocol
  BY DEF Init, Protocol, PendingIsCurrent, Opening
<1>2. TypeOK /\ Protocol /\ [Next]_vars => Protocol'
  BY StepKeepsProtocol
<1> QED BY <1>1, <1>2, TypeCorrect, PTL DEF Spec

(* Overlapping document tools never open a file twice.  *)
THEOREM SingleFlightHolds ==
  ASSUME ResolverOnly
  PROVE  Spec => [](PendingIsCurrent /\ SingleFlight)
<1>1. TypeOK /\ Protocol => PendingIsCurrent /\ SingleFlight
  <2> SUFFICES ASSUME TypeOK, Protocol PROVE PendingIsCurrent /\ SingleFlight
    OBVIOUS
  <2>1. ASSUME NEW c \in Calls, pc[c] \in Opening
        PROVE  /\ store[path[c]] = NoSession
               /\ \A d \in Calls : pc[d] \in Opening /\ path[d] = path[c] => d = c
    BY <2>1, ConstantsAssumption DEF Protocol, TypeOK
  <2> QED BY <2>1 DEF SingleFlight, Protocol
<1> QED BY <1>1, TypeCorrect, ProtocolHolds, PTL

(* No step replaces the session of a file by another one in place. *)
THEOREM NeverDisplacedHolds ==
  ASSUME ResolverOnly
  PROVE  Spec => NeverDisplaced
<1> DEFINE Kept == \A p \in Paths : store[p] = NoSession \/ store'[p] \in {store[p], NoSession}
<1>1. TypeOK /\ Protocol /\ [Next]_vars => [Kept]_vars
  <2> SUFFICES ASSUME TypeOK, Protocol, [Next]_vars, ~(UNCHANGED vars) PROVE Kept
    OBVIOUS
  <2>1. ASSUME NEW c \in Calls, Step(c) PROVE Kept
    <3>1. CASE Install(c)
      <4>1. store[path[c]] = NoSession
        BY <3>1, ConstantsAssumption DEF Install, Protocol, Opening, TypeOK
      <4> QED BY <3>1, <4>1 DEF Install, TypeOK
    <3>2. CASE Reuse(c) \/ AwaitLeader(c) \/ BecomeLeader(c)
      BY <3>2 DEF Reuse, AwaitLeader, BecomeLeader, GetSessionByPath, TypeOK
    <3>3. CASE Close(c) \/ ClearAll(c)
      BY <3>3 DEF Close, ClearAll, TypeOK
    <3>4. CASE UNCHANGED store
      BY <3>4
    <3> QED BY <2>1, <3>1, <3>2, <3>3, <3>4 DEF Step, StatDone, WaiterResumes, LoadFails,
      LoadSucceeds, FindExisting, MakeTmpDir, ParseFails, UseSession, CloseNothing,
      CloseDone, RemoveDir
  <2>2. ASSUME NEW c \in Calls, NEW o \in Tools, NEW p \in Paths, Start(c, o, p) PROVE Kept
    BY <2>2 DEF Start
  <2>3. ASSUME NEW s \in SessionIds, Expire(s) PROVE Kept
    BY <2>3 DEF Expire
  <2> QED BY <2>1, <2>2, <2>3 DEF Next
<1> QED BY <1>1, TypeCorrect, ProtocolHolds, PTL DEF Spec, NeverDisplaced

-----------------------------------------------------------------------------

(* Ids are handed out once, and a session in creation is not known yet. *)
Bookkeeping ==
  /\ Known \subseteq 1..issued
  /\ \A c \in Calls : pc[c] = "parse" => held[c] \in (1..issued) \ Known
  /\ \A c, d \in Calls :
       pc[c] = "parse" /\ pc[d] = "parse" /\ held[c] = held[d] => c = d

(* Looking a path up forgets an expired session but keeps it known. *)
LEMMA LookupKeepsKnown ==
  ASSUME TypeOK, NEW p \in Paths, GetSessionByPath(p), closed' = closed
  PROVE  Known' = Known
<1>1. \A q \in Paths : q # p => store'[q] = store[q]
  BY DEF GetSessionByPath, TypeOK
<1>2. CASE store[p] \in expired
  <2>1. store'[p] = NoSession /\ lapsed' = lapsed \cup {store[p]} /\ store[p] # NoSession
    BY <1>2 DEF GetSessionByPath, TypeOK, SessionIds, NoSession
  <2> QED BY <1>1, <2>1 DEF Known, Stored
<1>3. CASE store[p] \notin expired
  <2>1. store' = store /\ lapsed' = lapsed
    BY <1>3 DEF GetSessionByPath, TypeOK
  <2> QED BY <2>1 DEF Known, Stored
<1> QED BY <1>2, <1>3

(* A step makes a session known exactly when it installs it. *)
LEMMA KnownSessions ==
  ASSUME TypeOK, Protocol, NEW c \in Calls, Step(c)
  PROVE  \/ Known' = Known /\ ~Install(c)
         \/ Install(c) /\ Known' = Known \cup {held[c]}
<1> USE DEF histories
<1>1. CASE Install(c)
  <2>1. /\ store[path[c]] = NoSession
        /\ store'[path[c]] = held[c] /\ held[c] # NoSession
        /\ \A p \in Paths : p # path[c] => store'[p] = store[p]
        /\ UNCHANGED <<closed, lapsed>>
    BY <1>1, ConstantsAssumption DEF Install, Protocol, Opening, TypeOK
  <2>2. path[c] \in Paths
    BY DEF TypeOK
  <2>3. Stored' = Stored \cup {held[c]}
    BY <2>1, <2>2 DEF Stored
  <2> QED BY <1>1, <2>1, <2>3 DEF Known
<1>2. ASSUME Reuse(c) \/ AwaitLeader(c) \/ BecomeLeader(c) PROVE Known' = Known /\ ~Install(c)
  <2>1. path[c] \in Paths /\ GetSessionByPath(path[c]) /\ closed' = closed /\ pc[c] = "called"
    BY <1>2 DEF Reuse, AwaitLeader, BecomeLeader, TypeOK
  <2> QED BY <2>1, LookupKeepsKnown DEF Install
<1>3. ASSUME Close(c) PROVE Known' = Known /\ ~Install(c)
  <2>1. /\ store[path[c]] # NoSession /\ store'[path[c]] = NoSession
        /\ \A p \in Paths : p # path[c] => store'[p] = store[p]
        /\ closed' = closed \cup {store[path[c]]} /\ lapsed' = lapsed
        /\ path[c] \in Paths /\ pc[c] = "called"
    BY <1>3 DEF Close, TypeOK
  <2> QED BY <2>1 DEF Known, Stored, Install
<1>4. ASSUME ClearAll(c) PROVE Known' = Known /\ ~Install(c)
  <2>1. /\ \A p \in Paths : store'[p] = NoSession
        /\ closed' = closed \cup Stored /\ lapsed' = lapsed /\ pc[c] = "called"
    BY <1>4 DEF ClearAll
  <2>2. Stored' = {}
    BY <2>1 DEF Stored
  <2> QED BY <2>1, <2>2 DEF Known, Install
<1>5. ASSUME UNCHANGED <<store, closed, lapsed>>, ~Install(c) PROVE Known' = Known
  BY <1>5 DEF Known, Stored
<1> QED BY <1>1, <1>2, <1>3, <1>4, <1>5 DEF Step, StatDone, WaiterResumes, LoadFails,
      LoadSucceeds, FindExisting, MakeTmpDir, ParseFails, UseSession, CloseNothing,
      CloseDone, RemoveDir

(* What a settlement does to the calls other than the one that settles. *)
LEMMA SettleEffect ==
  ASSUME TypeOK, Protocol, NEW c \in Calls, NEW s \in SessionIds \cup {NoSession},
         pc[c] \in Opening, Settle(c, s)
  PROVE  /\ \A d \in Calls : d # c /\ waits[d] # c => pc'[d] = pc[d] /\ held'[d] = held[d]
         /\ \A d \in Calls : d # c /\ waits[d] = c =>
              pc'[d] = "resume" /\ held'[d] = s /\ path[d] = path[c]
         /\ \/ pc'[c] = "idle" /\ held'[c] = NoSession
            \/ pc'[c] = "use" /\ held'[c] = s
<1>1. \A d \in Calls : waits[d] = c => path[d] = path[c]
  BY ConstantsAssumption DEF Protocol, PendingIsCurrent, TypeOK
<1>2. /\ pc' = [d \in Calls |-> IF d = c THEN AfterOpening(c, s)
                                ELSE IF waits[d] = c THEN "resume" ELSE pc[d]]
      /\ held' = [d \in Calls |->
                    IF d = c THEN IF AfterOpening(c, s) = "use" THEN s ELSE NoSession
                    ELSE IF waits[d] = c THEN s ELSE held[d]]
  BY DEF Settle, Deliver
<1>3. AfterOpening(c, s) \in {"idle", "use"}
  BY DEF AfterOpening
<1> QED BY <1>1, <1>2, <1>3

(* A step of the resolver-only system keeps the history variables in order: *)
(* who knows which session, and which ids are still unused.                *)
LEMMA StepKeepsBookkeeping ==
  ASSUME TypeOK, Protocol, Bookkeeping, [Next]_vars
  PROVE  Bookkeeping'
<1> USE DEF histories, locals
<1>1. ASSUME Known' = Known, issued' = issued,
             \A d \in Calls : pc'[d] = "parse" => pc[d] = "parse" /\ held'[d] = held[d]
      PROVE  Bookkeeping'
  BY <1>1 DEF Bookkeeping
<1>2. CASE UNCHANGED vars
  BY <1>1, <1>2 DEF vars, Known, Stored
<1>3. ASSUME NEW c \in Calls, NEW o \in Tools, NEW p \in Paths, Start(c, o, p)
      PROVE  Bookkeeping'
  <2>1. Known' = Known
    BY <1>3 DEF Start, Known, Stored
  <2>2. \A d \in Calls : pc'[d] = "parse" => pc[d] = "parse"
    BY <1>3 DEF Start, Suspend, TypeOK
  <2> QED BY <1>1, <1>3, <2>1, <2>2 DEF Start
<1>4. ASSUME NEW s \in SessionIds, Expire(s) PROVE Bookkeeping'
  BY <1>1, <1>4 DEF Expire, Known, Stored
<1>5. ASSUME NEW c \in Calls, Step(c) PROVE Bookkeeping'
  <2>1. CASE Install(c)
    <3>1. Known' = Known \cup {held[c]} /\ issued' = issued /\ held[c] \in SessionIds
      BY <1>5, <2>1, KnownSessions DEF Install, TypeOK
    <3>2. \A d \in Calls : pc'[d] = "parse" =>
            d # c /\ pc[d] = "parse" /\ held'[d] = held[d] /\ pc[c] = "parse"
      BY <2>1, <3>1, SettleEffect DEF Install, Opening
    <3>3. pc[c] = "parse"
      BY <2>1 DEF Install
    <3> QED BY <3>1, <3>2, <3>3 DEF Bookkeeping
  <2>2. CASE MakeTmpDir(c)
    <3>1. Known' = Known
      BY <1>5, <2>2, KnownSessions DEF MakeTmpDir, Install
    <3>2. /\ issued' = issued + 1 /\ held'[c] = issued + 1
          /\ \A d \in Calls : d # c => pc'[d] = pc[d] /\ held'[d] = held[d]
      BY <2>2 DEF MakeTmpDir, Suspend, TypeOK
    <3>3. issued \in Nat
      BY ConstantsAssumption DEF TypeOK
    <3> QED BY <3>1, <3>2, <3>3 DEF Bookkeeping
  <2>3. CASE ~Install(c) /\ ~MakeTmpDir(c)
    <3>1. Known' = Known /\ issued' = issued
      BY <1>5, <2>3, KnownSessions DEF Step, Reuse, AwaitLeader, BecomeLeader, StatDone,
        WaiterResumes, LoadFails, LoadSucceeds, FindExisting, ParseFails, UseSession,
        CloseNothing, Close, ClearAll, CloseDone, RemoveDir
    <3>2. \A d \in Calls : pc'[d] = "parse" => pc[d] = "parse" /\ held'[d] = held[d]
      <4>1. CASE LoadFails(c) \/ ParseFails(c)
        <5>1. pc[c] \in Opening /\ Settle(c, NoSession)
          BY <4>1 DEF LoadFails, ParseFails, Opening
        <5>2. pc'[c] # "parse"
          BY <5>1, SettleEffect
        <5> QED BY <5>1, <5>2, SettleEffect
      <4>2. CASE Reuse(c) \/ AwaitLeader(c) \/ BecomeLeader(c) \/ StatDone(c)
                 \/ WaiterResumes(c) \/ LoadSucceeds(c) \/ FindExisting(c)
        BY <4>2 DEF Reuse, AwaitLeader, BecomeLeader, StatDone, WaiterResumes, LoadSucceeds,
          FindExisting, Suspend, Answer, TypeOK
      <4>3. CASE UseSession(c) \/ CloseNothing(c) \/ Close(c) \/ ClearAll(c) \/ CloseDone(c)
                 \/ \E s \in SessionIds : RemoveDir(c, s)
        BY <4>3 DEF UseSession, CloseNothing, Close, ClearAll, CloseDone, RemoveDir,
          Suspend, Answer, TypeOK
      <4> QED BY <1>5, <2>3, <4>1, <4>2, <4>3 DEF Step
    <3> QED BY <1>1, <3>1, <3>2
  <2> QED BY <2>1, <2>2, <2>3
<1> QED BY <1>2, <1>3, <1>4, <1>5 DEF Next

-----------------------------------------------------------------------------

(* A session leaves its file only through close_file or the TTL. *)
LEMMA SessionsLeaveAccounted ==
  ASSUME TypeOK, Protocol, [Next]_vars
  PROVE  /\ closed \subseteq closed' /\ lapsed \subseteq lapsed'
         /\ \A p \in Paths : store[p] # NoSession =>
              store'[p] = store[p] \/ store[p] \in closed' \cup lapsed'
<1> USE DEF histories, locals
<1> DEFINE Goal == /\ closed \subseteq closed' /\ lapsed \subseteq lapsed'
                   /\ \A p \in Paths : store[p] # NoSession =>
                        store'[p] = store[p] \/ store[p] \in closed' \cup lapsed'
<1>1. CASE UNCHANGED <<store, closed, lapsed>>
  BY <1>1
<1>2. ASSUME NEW c \in Calls, Step(c) PROVE Goal
  <2>1. CASE Reuse(c) \/ AwaitLeader(c) \/ BecomeLeader(c)
    BY <2>1 DEF Reuse, AwaitLeader, BecomeLeader, GetSessionByPath, TypeOK
  <2>2. CASE Install(c)
    BY <2>2, ConstantsAssumption DEF Install, Protocol, Opening, TypeOK
  <2>3. CASE Close(c)
    BY <2>3 DEF Close, TypeOK
  <2>4. CASE ClearAll(c)
    BY <2>4 DEF ClearAll, Stored, TypeOK
  <2> QED BY <1>1, <1>2, <2>1, <2>2, <2>3, <2>4 DEF Step, StatDone, WaiterResumes, LoadFails,
      LoadSucceeds, FindExisting, MakeTmpDir, ParseFails, UseSession, CloseNothing,
      CloseDone, RemoveDir
<1> QED BY <1>1, <1>2 DEF Next, vars, Start, Expire

(* A step keeps every handler on the session its file has, or had until    *)
(* close_file or the TTL took it away.                                     *)
LEMMA StepKeepsHandles ==
  ASSUME TypeOK, Protocol, HandlesAreCurrent, [Next]_vars
  PROVE  HandlesAreCurrent'
<1> USE DEF histories, locals
<1> DEFINE Using(d) == held[d] # NoSession /\ pc[d] \in {"stat", "resume", "use"}
<1> DEFINE Current(d) == held[d] = store[path[d]] \/ held[d] \in closed \cup lapsed
<1>0. \A d \in Calls : Using(d) => Current(d)
  BY DEF HandlesAreCurrent
<1>1. ASSUME NEW d \in Calls, Using(d), held'[d] = held[d], path'[d] = path[d]
      PROVE  Current(d)'
  BY <1>0, <1>1, SessionsLeaveAccounted DEF TypeOK
<1>2. SUFFICES ASSUME NEW d \in Calls, Using(d)' PROVE Current(d)'
  BY DEF HandlesAreCurrent
<1>3. CASE UNCHANGED vars
  BY <1>1, <1>2, <1>3 DEF vars
<1>4. ASSUME NEW c \in Calls, NEW o \in Tools, NEW p \in Paths, Start(c, o, p)
      PROVE  Current(d)'
  <2>1. d # c /\ Using(d) /\ held'[d] = held[d] /\ path'[d] = path[d]
    BY <1>2, <1>4 DEF Start, Suspend, TypeOK
  <2> QED BY <1>1, <2>1
<1>5. ASSUME NEW s \in SessionIds, Expire(s) PROVE Current(d)'
  BY <1>1, <1>2, <1>5 DEF Expire
<1>6. ASSUME NEW c \in Calls, Step(c) PROVE Current(d)'
  <2>0. path' = path
    BY <1>6 DEF Step, Reuse, AwaitLeader, BecomeLeader, StatDone, WaiterResumes, LoadFails,
      LoadSucceeds, FindExisting, MakeTmpDir, ParseFails, Install, UseSession, CloseNothing,
      Close, ClearAll, CloseDone, RemoveDir
  <2>1. CASE Reuse(c)
    <3>1. held'[c] = store[path[c]] /\ store'[path[c]] = store[path[c]]
      BY <2>1 DEF Reuse, Live, GetSessionByPath, TypeOK
    <3>2. CASE d = c
      BY <2>0, <3>1, <3>2
    <3>3. CASE d # c
      BY <1>1, <1>2, <2>0, <2>1, <3>3 DEF Reuse, Suspend, TypeOK
    <3> QED BY <3>2, <3>3
  <2>2. CASE Install(c)
    <3>1. /\ pc[c] \in Opening /\ Settle(c, held[c])
          /\ held[c] \in SessionIds \cup {NoSession}
          /\ store'[path[c]] = held[c]
      BY <2>2 DEF Install, Opening, TypeOK
    <3>2. CASE d = c \/ waits[d] = c
      <4>1. held'[d] = held[c] /\ path[d] = path[c]
        BY <1>2, <3>1, <3>2, SettleEffect
      <4> QED BY <2>0, <3>1, <4>1
    <3>3. CASE d # c /\ waits[d] # c
      <4>1. pc'[d] = pc[d] /\ held'[d] = held[d]
        BY <3>1, <3>3, SettleEffect
      <4> QED BY <1>1, <1>2, <2>0, <4>1
    <3> QED BY <3>2, <3>3
  <2>3. CASE LoadFails(c) \/ ParseFails(c)
    <3>1. pc[c] \in Opening /\ Settle(c, NoSession)
      BY <2>3 DEF LoadFails, ParseFails, Opening
    <3>2. d # c /\ waits[d] # c /\ pc'[d] = pc[d] /\ held'[d] = held[d]
      BY <1>2, <3>1, SettleEffect
    <3> QED BY <1>1, <1>2, <2>0, <3>2
  <2>4. CASE AwaitLeader(c) \/ BecomeLeader(c) \/ StatDone(c) \/ LoadSucceeds(c)
             \/ FindExisting(c) \/ Close(c) \/ ClearAll(c)
             \/ \E s \in SessionIds : RemoveDir(c, s)
    <3>1. Using(d) /\ held'[d] = held[d]
      BY <1>2, <2>4 DEF AwaitLeader, BecomeLeader, StatDone, LoadSucceeds, FindExisting,
        Close, ClearAll, RemoveDir, Suspend, TypeOK
    <3> QED BY <1>1, <2>0, <3>1
  <2>5. CASE WaiterResumes(c) \/ MakeTmpDir(c) \/ UseSession(c) \/ CloseNothing(c) \/ CloseDone(c)
    <3>1. Using(d) /\ held'[d] = held[d]
      BY <1>2, <2>5 DEF WaiterResumes, MakeTmpDir, UseSession, CloseNothing, CloseDone,
        Answer, Suspend, TypeOK
    <3> QED BY <1>1, <2>0, <3>1
  <2> QED BY <1>6, <2>1, <2>2, <2>3, <2>4, <2>5 DEF Step
<1> QED BY <1>3, <1>4, <1>5, <1>6 DEF Next

(* Two handlers never work on two copies of a file, unless close_file or   *)
(* the TTL separated them.                                                 *)
THEOREM HandlesAreCurrentHolds ==
  ASSUME ResolverOnly
  PROVE  Spec => []HandlesAreCurrent
<1>1. Init => HandlesAreCurrent
  BY DEF Init, HandlesAreCurrent
<1>2. TypeOK /\ Protocol /\ HandlesAreCurrent /\ [Next]_vars => HandlesAreCurrent'
  BY StepKeepsHandles
<1> QED BY <1>1, <1>2, TypeCorrect, ProtocolHolds, PTL DEF Spec

(* No acknowledged edit is buried by an open. *)
THEOREM EditsStayReachableHolds ==
  ASSUME ResolverOnly
  PROVE  Spec => []EditsStayReachable
<1>1. Init => EditsStayReachable
  BY DEF Init, EditsStayReachable
<1>2. TypeOK /\ Protocol /\ HandlesAreCurrent /\ EditsStayReachable /\ [Next]_vars
        => EditsStayReachable'
  <2> SUFFICES ASSUME TypeOK, Protocol, HandlesAreCurrent, EditsStayReachable, [Next]_vars
               PROVE  EditsStayReachable'
    OBVIOUS
  <2> USE DEF histories, locals
  <2>1. ASSUME edited' = edited, Known \subseteq Known' PROVE EditsStayReachable'
    BY <2>1 DEF EditsStayReachable
  <2>2. CASE UNCHANGED <<store, closed, lapsed, edited>>
    BY <2>1, <2>2 DEF Known, Stored
  <2>3. ASSUME NEW c \in Calls, Step(c) PROVE EditsStayReachable'
    <3>1. Known \subseteq Known'
      BY <2>3, KnownSessions
    <3>2. CASE UseSession(c)
      <4>1. held[c] \in Known
        <5>1. pc[c] = "use" /\ held[c] # NoSession /\ path[c] \in Paths
          BY <3>2 DEF UseSession, TypeOK
        <5>2. held[c] = store[path[c]] \/ held[c] \in closed \cup lapsed
          BY <5>1 DEF HandlesAreCurrent
        <5> QED BY <5>1, <5>2 DEF Known, Stored
      <4> QED BY <3>1, <3>2, <4>1 DEF UseSession, EditsStayReachable
    <3>3. CASE ~UseSession(c)
      <4>1. edited' = edited
        BY <2>3, <3>3 DEF Step, Reuse, AwaitLeader, BecomeLeader, StatDone, WaiterResumes,
          LoadFails, LoadSucceeds, FindExisting, MakeTmpDir, ParseFails, Install,
          CloseNothing, Close, ClearAll, CloseDone, RemoveDir
      <4> QED BY <2>1, <3>1, <4>1
    <3> QED BY <3>2, <3>3
  <2> QED BY <2>2, <2>3 DEF Next, vars, Start, Expire
<1> QED BY <1>1, <1>2, TypeCorrect, ProtocolHolds, HandlesAreCurrentHolds, PTL DEF Spec

-----------------------------------------------------------------------------

(* Every step of the session layer is a step of the promise, or invisible  *)
(* to it.                                                                  *)
THEOREM KeepsPromiseHolds ==
  ASSUME ResolverOnly
  PROVE  Spec => KeepsPromise
<1>1. Init => Promise!Init
  BY DEF Init, Promise!Init, Known, Stored
<1>2. TypeOK /\ Protocol /\ Bookkeeping /\ [Next]_vars => [Promise!Next]_(Promise!vars)
  <2> SUFFICES ASSUME TypeOK, Protocol, Bookkeeping, [Next]_vars
               PROVE  [Promise!Next]_(Promise!vars)
    OBVIOUS
  <2> USE DEF histories, locals
  <2>1. ASSUME UNCHANGED <<store, closed, lapsed>> PROVE UNCHANGED Promise!vars
    BY <2>1 DEF Promise!vars, Known, Stored
  <2>2. ASSUME NEW ps \in SUBSET Paths, Known' = Known,
               store' = [p \in Paths |-> IF p \in ps THEN NoSession ELSE store[p]]
        PROVE  Promise!Next
    BY <2>2 DEF Promise!Next, Promise!Drop
  <2>3. ASSUME NEW c \in Calls, Step(c) PROVE [Promise!Next]_(Promise!vars)
    <3>0. path[c] \in Paths
      BY DEF TypeOK
    <3>1. CASE Install(c)
      <4>1. /\ store[path[c]] = NoSession
            /\ held[c] \in SessionIds \ {NoSession} /\ held[c] \notin Known
            /\ store' = [store EXCEPT ![path[c]] = held[c]]
        BY <3>1, ConstantsAssumption DEF Install, Protocol, Opening, Bookkeeping, TypeOK
      <4>2. Known' = Known \cup {held[c]}
        BY <2>3, <3>1, KnownSessions
      <4>3. Promise!Open(path[c], held[c])
        BY <4>1, <4>2 DEF Promise!Open
      <4> QED BY <3>0, <4>1, <4>3 DEF Promise!Next
    <3>2. CASE Reuse(c) \/ AwaitLeader(c) \/ BecomeLeader(c)
      <4>1. store' = [p \in Paths |-> IF p \in {q \in {path[c]} : store[q] \in expired}
                                      THEN NoSession ELSE store[p]]
        BY <3>2 DEF Reuse, AwaitLeader, BecomeLeader, GetSessionByPath, TypeOK
      <4>2. Known' = Known
        BY <2>3, <3>2, KnownSessions DEF Reuse, AwaitLeader, BecomeLeader, Install
      <4>3. {q \in {path[c]} : store[q] \in expired} \in SUBSET Paths
        BY <3>0
      <4> QED BY <2>2, <4>1, <4>2, <4>3
    <3>3. CASE Close(c)
      <4>1. store' = [p \in Paths |-> IF p \in {path[c]} THEN NoSession ELSE store[p]]
        BY <3>3 DEF Close, TypeOK
      <4>2. Known' = Known
        BY <2>3, <3>3, KnownSessions DEF Close, Install
      <4> QED BY <2>2, <3>0, <4>1, <4>2
    <3>4. CASE ClearAll(c)
      <4>1. store' = [p \in Paths |-> IF p \in Paths THEN NoSession ELSE store[p]]
        BY <3>4 DEF ClearAll
      <4>2. Known' = Known
        BY <2>3, <3>4, KnownSessions DEF ClearAll, Install
      <4> QED BY <2>2, <4>1, <4>2
    <3> QED BY <2>1, <2>3, <3>1, <3>2, <3>3, <3>4 DEF Step, StatDone, WaiterResumes,
      LoadFails, LoadSucceeds, FindExisting, MakeTmpDir, ParseFails, UseSession,
      CloseNothing, CloseDone, RemoveDir
  <2>4. CASE UNCHANGED <<store, closed, lapsed>>
    BY <2>1, <2>4
  <2> QED BY <2>3, <2>4 DEF Next, vars, Start, Expire
<1>3. Init => Bookkeeping
  BY DEF Init, Bookkeeping, Known, Stored
<1>4. TypeOK /\ Protocol /\ Bookkeeping /\ [Next]_vars => Bookkeeping'
  BY StepKeepsBookkeeping
<1> QED BY <1>1, <1>2, <1>3, <1>4, TypeCorrect, ProtocolHolds, PTL
        DEF Spec, KeepsPromise, Promise!Spec

-----------------------------------------------------------------------------

(* Cleanup lists are never overwritten while they hold work. *)
CleaningInv == \A c \in Calls : cleaning[c] # {} => pc[c] \in {"mkdir", "closing"}

(* What TmpDirsAccounted says of one directory. *)
Accounted(s) ==
  \/ \E p \in Paths : store[p] = s
  \/ \E c \in Calls : pc[c] = "parse" /\ held[c] = s
  \/ \E c \in Calls : s \in cleaning[c]
  \/ s \in lapsed \/ s \in refused

(* TmpDirsAccounted, said of one directory at a time. *)
LEMMA AccountedOneByOne ==
  ASSUME TypeOK
  PROVE  TmpDirsAccounted <=> \A s \in dirs : Accounted(s)
<1>1. \A s \in dirs : s # NoSession
  BY DEF TypeOK, SessionIds, NoSession
<1>2. \A s : s \in InCreation <=> \E c \in Calls : pc[c] = "parse" /\ held[c] = s
  BY DEF InCreation
<1>3. \A s : s \in BeingCleaned <=> \E c \in Calls : s \in cleaning[c]
  BY DEF BeingCleaned
<1>4. \A s : s \in Stored <=> s # NoSession /\ \E p \in Paths : store[p] = s
  BY DEF Stored
<1> QED BY <1>1, <1>2, <1>3, <1>4 DEF TmpDirsAccounted, Accounted

(* A step that makes, hands over or forgets a directory keeps it accounted *)
(* for.                                                                    *)
LEMMA StepKeepsDirsAccounted ==
  ASSUME TypeOK, TypeOK', Protocol, CleaningInv, TmpDirsAccounted, [Next]_vars
  PROVE  CleaningInv' /\ TmpDirsAccounted'
<1> USE DEF histories, locals
<1> DEFINE Each == \A s \in dirs : Accounted(s)
<1>0. Each
  BY AccountedOneByOne
<1>1. ASSUME CleaningInv', Each' PROVE CleaningInv' /\ TmpDirsAccounted'
  BY <1>1, AccountedOneByOne, PTL
<1>2. CASE UNCHANGED vars
  BY <1>2 DEF vars, CleaningInv, TmpDirsAccounted, Stored, InCreation, BeingCleaned
<1>3. ASSUME NEW c \in Calls, NEW o \in Tools, NEW p \in Paths, Start(c, o, p)
      PROVE  CleaningInv' /\ Each'
  <2>1. /\ pc[c] = "idle" /\ \A d \in Calls : d # c => pc'[d] = pc[d]
        /\ UNCHANGED <<store, dirs, held, cleaning, lapsed, refused>>
    BY <1>3 DEF Start, Suspend, TypeOK
  <2> QED BY <1>0, <2>1 DEF CleaningInv, Accounted
<1>4. ASSUME NEW s \in SessionIds, Expire(s) PROVE CleaningInv' /\ Each'
  BY <1>0, <1>4 DEF Expire, CleaningInv, Accounted
<1>5. ASSUME NEW c \in Calls, Step(c) PROVE CleaningInv' /\ Each'
  <2> USE <1>0
  <2>1. CASE Reuse(c) \/ AwaitLeader(c) \/ BecomeLeader(c)
    <3>1. /\ pc[c] = "called" /\ pc'[c] # "parse" /\ \A d \in Calls : d # c => pc'[d] = pc[d]
          /\ \A d \in Calls : d # c => held'[d] = held[d]
          /\ UNCHANGED <<dirs, cleaning, refused>> /\ lapsed \subseteq lapsed'
      BY <2>1 DEF Reuse, AwaitLeader, BecomeLeader, GetSessionByPath, Suspend, TypeOK
    <3>2. \A p \in Paths : store'[p] = store[p] \/ store[p] \in lapsed'
      BY <2>1 DEF Reuse, AwaitLeader, BecomeLeader, GetSessionByPath, TypeOK
    <3> QED BY <3>1, <3>2 DEF CleaningInv, Accounted
  <2>2. CASE StatDone(c) \/ WaiterResumes(c) \/ LoadSucceeds(c) \/ UseSession(c)
             \/ CloseNothing(c) \/ CloseDone(c)
    <3>1. /\ cleaning[c] = {} \/ cleaning'[c] = {}
          /\ pc[c] # "parse" /\ \A d \in Calls : d # c => pc'[d] = pc[d] /\ held'[d] = held[d]
          /\ UNCHANGED <<store, dirs, cleaning, lapsed, refused>>
      BY <2>2 DEF StatDone, WaiterResumes, LoadSucceeds, UseSession, CloseNothing, CloseDone,
        Suspend, Answer, CleaningInv, TypeOK
    <3> QED BY <3>1 DEF CleaningInv, Accounted
  <2>3. CASE LoadFails(c) \/ ParseFails(c)
    <3>1. pc[c] \in Opening /\ Settle(c, NoSession)
      BY <2>3 DEF LoadFails, ParseFails, Opening
    <3>2. /\ \A d \in Calls : d # c /\ pc[d] # "await" => pc'[d] = pc[d] /\ held'[d] = held[d]
          /\ pc[c] # "mkdir"
      BY <2>3, <3>1, SettleEffect, ConstantsAssumption
         DEF Protocol, PendingIsCurrent, LoadFails, ParseFails
    <3>3. /\ UNCHANGED <<store, dirs, cleaning, lapsed>>
          /\ pc[c] = "parse" => held[c] \in refused'
          /\ refused \subseteq refused'
      BY <2>3 DEF LoadFails, ParseFails
    <3>4. CleaningInv'
      BY <3>1, <3>2, <3>3 DEF CleaningInv, Opening
    <3>5. Each'
      BY <3>2, <3>3 DEF Accounted
    <3> QED BY <3>4, <3>5
  <2>4. CASE FindExisting(c) \/ Close(c) \/ ClearAll(c)
    <3>1. cleaning[c] = {} /\ pc[c] # "parse" /\ pc'[c] \in {"mkdir", "closing"}
      BY <2>4 DEF FindExisting, Close, ClearAll, Suspend, CleaningInv, TypeOK
    <3>2. /\ \A d \in Calls : d # c => pc'[d] = pc[d] /\ cleaning'[d] = cleaning[d]
          /\ UNCHANGED <<dirs, held, lapsed, refused>>
      BY <2>4 DEF FindExisting, Close, ClearAll, Suspend, TypeOK
    <3>3. \A p \in Paths : store[p] # NoSession =>
            store'[p] = store[p] \/ store[p] \in cleaning'[c]
      BY <2>4 DEF FindExisting, Close, ClearAll, Stored, TypeOK
    <3>4. \A s \in dirs : s # NoSession
      BY DEF TypeOK, SessionIds, NoSession
    <3> QED BY <3>1, <3>2, <3>3, <3>4 DEF CleaningInv, Accounted
  <2>5. CASE MakeTmpDir(c)
    <3>1. /\ pc[c] = "mkdir" /\ cleaning[c] = {} /\ pc'[c] = "parse" /\ held'[c] = issued + 1
          /\ \A d \in Calls : d # c => pc'[d] = pc[d] /\ held'[d] = held[d]
          /\ dirs' = dirs \cup {issued + 1}
          /\ UNCHANGED <<store, cleaning, lapsed, refused>>
      BY <2>5 DEF MakeTmpDir, Suspend, TypeOK
    <3> QED BY <3>1 DEF CleaningInv, Accounted
  <2>6. CASE Install(c)
    <3>1. /\ pc[c] = "parse" /\ store[path[c]] = NoSession /\ store'[path[c]] = held[c]
          /\ \A p \in Paths : p # path[c] => store'[p] = store[p]
          /\ path[c] \in Paths
          /\ UNCHANGED <<dirs, cleaning, lapsed, refused>>
      BY <2>6, ConstantsAssumption DEF Install, Protocol, Opening, TypeOK
    <3>2. \A d \in Calls : d # c /\ pc[d] # "await" => pc'[d] = pc[d] /\ held'[d] = held[d]
      BY <2>6, SettleEffect, ConstantsAssumption
         DEF Protocol, PendingIsCurrent, Install, Opening, TypeOK
    <3>3. \A s \in dirs : s # NoSession
      BY DEF TypeOK, SessionIds, NoSession
    <3> QED BY <3>1, <3>2, <3>3 DEF CleaningInv, Accounted
  <2>7. ASSUME NEW s \in SessionIds, RemoveDir(c, s) PROVE CleaningInv' /\ Each'
    <3>1. /\ dirs' = dirs \ {s} /\ cleaning'[c] = cleaning[c] \ {s}
          /\ \A d \in Calls : d # c => cleaning'[d] = cleaning[d]
          /\ UNCHANGED <<store, pc, held, lapsed, refused>>
      BY <2>7 DEF RemoveDir, TypeOK
    <3> QED BY <3>1 DEF CleaningInv, Accounted
  <2> QED BY <1>5, <2>1, <2>2, <2>3, <2>4, <2>5, <2>6, <2>7 DEF Step
<1> QED BY <1>1, <1>2, <1>3, <1>4, <1>5 DEF Next

(* Closing, clearing and overlapping opens leak no directory; what is left *)
(* behind is left by an expired session or a document that did not load.   *)
THEOREM TmpDirsAccountedHolds ==
  ASSUME ResolverOnly
  PROVE  Spec => []TmpDirsAccounted
<1>1. Init => CleaningInv /\ TmpDirsAccounted
  BY DEF Init, CleaningInv, TmpDirsAccounted
<1>2. TypeOK /\ TypeOK' /\ Protocol /\ (CleaningInv /\ TmpDirsAccounted) /\ [Next]_vars
        => (CleaningInv /\ TmpDirsAccounted)'
  BY StepKeepsDirsAccounted
<1> QED BY <1>1, <1>2, TypeCorrect, ProtocolHolds, PTL DEF Spec

=============================================================================
