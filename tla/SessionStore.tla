---------------------------- MODULE SessionStore ----------------------------
(***************************************************************************)
(* The session layer of packages/docx-mcp: SessionManager                  *)
(* (src/session/manager.ts), the single-flight resolver every document     *)
(* tool enters through (src/tools/session_resolution.ts), close_file       *)
(* (src/tools/close_file.ts) and openDocument (src/tools/open_document.ts).*)
(*                                                                         *)
(* The server is one JavaScript thread.  The MCP SDK starts a handler per  *)
(* request and does not wait for it, so handlers interleave at every await *)
(* that leaves the microtask queue (file system, zip, timers).  One action *)
(* below is the code a handler runs between two such awaits.               *)
(***************************************************************************)
EXTENDS Naturals, FiniteSets

CONSTANTS
  Calls,         \* handler slots: requests the client may have outstanding
  Paths,         \* canonical file paths
  Openers,       \* slots that call openDocument directly (no MCP client can)
  NoCall,        \* "no promise registered"
  MaxSessions    \* bound on the sessions ever created

ASSUME ConstantsAssumption ==
  /\ Openers \subseteq Calls
  /\ NoCall \notin Calls
  /\ MaxSessions \in Nat

NoSession == 0
SessionIds == 1..MaxSessions

VARIABLES
  store,      \* SessionManager.sessions: path -> session id
  pending,    \* pendingByManager: path -> the call whose promise is registered
  issued,     \* how many session ids newSessionId has handed out
  dirs,       \* sessions whose mkdtemp directory exists on disk
  expired,    \* sessions whose expiresAt lies in the past
  edited,     \* sessions that carry an edit acknowledged to the client
  closed,     \* history: sessions removed by close_file
  lapsed,     \* history: sessions dropped on lookup because they had expired
  refused,    \* history: ids whose document never finished loading
  pc,         \* call -> where its handler is suspended
  op,         \* call -> which tool it runs
  path,       \* call -> the canonical path it works on
  held,       \* call -> the session object its local variable refers to
  waits,      \* call -> the leader whose promise it awaits
  cleaning    \* call -> tmp directories it still has to remove

histories == <<closed, lapsed, refused>>
locals == <<pc, op, path, held, waits, cleaning>>
vars == <<store, pending, issued, dirs, expired, edited, histories, locals>>

Tools == {"edit", "close", "clear", "open"}

Stages == {"idle", "called", "stat", "await", "resume", "load", "create",
           "mkdir", "parse", "use", "closing"}

(* The handler is inside the code that opens a document. *)
Opening == {"load", "create", "mkdir", "parse"}

(* A step in which the local state of other calls does not change. *)
Suspend(c, stage) == pc' = [pc EXCEPT ![c] = stage]

(* The handler returns its response and its locals die. *)
Answer(c) ==
  /\ Suspend(c, "idle")
  /\ held' = [held EXCEPT ![c] = NoSession]

Stored == {store[p] : p \in Paths} \ {NoSession}

(* Every session a lookup could ever have returned. *)
Known == Stored \cup closed \cup lapsed

Active == {c \in Calls : pc[c] # "idle"}

Init ==
  /\ store = [p \in Paths |-> NoSession]
  /\ pending = [p \in Paths |-> NoCall]
  /\ issued = 0
  /\ dirs = {} /\ expired = {} /\ edited = {}
  /\ closed = {} /\ lapsed = {} /\ refused = {}
  /\ pc = [c \in Calls |-> "idle"]
  /\ op = [c \in Calls |-> "edit"]
  /\ path \in [Calls -> Paths]
  /\ held = [c \in Calls |-> NoSession]
  /\ waits = [c \in Calls |-> NoCall]
  /\ cleaning = [c \in Calls |-> {}]

-----------------------------------------------------------------------------
(* Requests                                                                *)

(* Each outstanding call creates at most one session, so ids never run out *)
(* in the middle of one: the bound only limits which calls may start.      *)
Budget == issued + Cardinality(Active) < MaxSessions

(* A request arrives; its handler runs up to its first await, which is     *)
(* canonicalizePath for a document tool or close_file with a file_path,    *)
(* and the first stat of the file for openDocument.                        *)
Start(c, o, p) ==
  /\ pc[c] = "idle"
  /\ (o = "open") <=> (c \in Openers)
  /\ o \in {"edit", "open"} => Budget
  /\ op' = [op EXCEPT ![c] = o]
  /\ path' = [path EXCEPT ![c] = p]
  /\ Suspend(c, IF o = "open" THEN "load" ELSE "called")
  /\ UNCHANGED <<store, pending, issued, dirs, expired, edited, histories,
                 held, waits, cleaning>>

(* The TTL of a stored session elapses. *)
Expire(s) ==
  /\ s \in Stored \ expired
  /\ expired' = expired \cup {s}
  /\ UNCHANGED <<store, pending, issued, dirs, edited, histories, locals>>

-----------------------------------------------------------------------------
(* resolveSessionForTool: everything after canonicalizePath returns is one *)
(* synchronous turn up to the next await.                                  *)

Live(p) == store[p] # NoSession /\ store[p] \notin expired

(* getSessionByPath: an expired entry is deleted from the map on lookup;   *)
(* its tmp directory is left where it is.                                  *)
GetSessionByPath(p) ==
  LET gone == {store[p]} \cap expired IN
  /\ store' = [store EXCEPT ![p] = IF @ \in expired THEN NoSession ELSE @]
  /\ lapsed' = lapsed \cup gone

(* A live session: touch it, then await the staleness stat. *)
Reuse(c) ==
  /\ pc[c] = "called" /\ op[c] = "edit"
  /\ Live(path[c])
  /\ GetSessionByPath(path[c])
  /\ held' = [held EXCEPT ![c] = store[path[c]]]
  /\ expired' = expired \ {store[path[c]]}
  /\ Suspend(c, "stat")
  /\ UNCHANGED <<pending, issued, dirs, edited, closed, refused, op, path,
                 waits, cleaning>>

(* No live session but somebody is opening the file: await that promise. *)
AwaitLeader(c) ==
  /\ pc[c] = "called" /\ op[c] = "edit"
  /\ ~Live(path[c])
  /\ pending[path[c]] # NoCall
  /\ GetSessionByPath(path[c])
  /\ waits' = [waits EXCEPT ![c] = pending[path[c]]]
  /\ Suspend(c, "await")
  /\ UNCHANGED <<pending, issued, dirs, expired, edited, closed, refused,
                 op, path, held, cleaning>>

(* The check of the pending map is forgotten: every caller leads. *)
BecomeLeaderUnchecked(c) ==
  /\ pc[c] = "called" /\ op[c] = "edit"
  /\ ~Live(path[c])
  /\ GetSessionByPath(path[c])
  /\ pending' = [pending EXCEPT ![path[c]] = c]
  /\ Suspend(c, "load")
  /\ UNCHANGED <<issued, dirs, expired, edited, closed, refused,
                 op, path, held, waits, cleaning>>

(* First caller for this path: register the promise, start to load. *)
BecomeLeader(c) ==
  /\ pc[c] = "called" /\ op[c] = "edit"
  /\ ~Live(path[c])
  /\ pending[path[c]] = NoCall
  /\ GetSessionByPath(path[c])
  /\ pending' = [pending EXCEPT ![path[c]] = c]
  /\ Suspend(c, "load")
  /\ UNCHANGED <<issued, dirs, expired, edited, closed, refused,
                 op, path, held, waits, cleaning>>

(* checkStaleness returned; a missing file is not an error here. *)
StatDone(c) ==
  /\ pc[c] = "stat"
  /\ Suspend(c, "use")
  /\ UNCHANGED <<store, pending, issued, dirs, expired, edited, histories,
                 op, path, held, waits, cleaning>>

(* The leader's outcome reached a waiter: touch the session, or return the *)
(* leader's error.                                                         *)
WaiterResumes(c) ==
  /\ pc[c] = "resume"
  /\ IF held[c] = NoSession THEN Answer(c)
                            ELSE Suspend(c, "use") /\ UNCHANGED held
  /\ expired' = expired \ {held[c]}
  /\ UNCHANGED <<store, pending, issued, dirs, edited, histories,
                 op, path, waits, cleaning>>

-----------------------------------------------------------------------------
(* Opening a document: validateAndLoadDocxFromPath, createSession,         *)
(* finalizeNewSession.  The resolver's leader and openDocument run the     *)
(* same code; only the leader has a promise to settle at the end.          *)

(* What the opener goes on to do with session s, or with a failure. *)
AfterOpening(c, s) ==
  IF s = NoSession \/ op[c] = "open" THEN "idle" ELSE "use"

(* The leader returns without settling its promise: nobody is woken.       *)
DeliverToLeader(c, s) ==
  /\ Suspend(c, AfterOpening(c, s))
  /\ held' = [held EXCEPT ![c] = IF AfterOpening(c, s) = "use" THEN s ELSE NoSession]
  /\ UNCHANGED waits

(* The value s (NoSession: an error) reaches the leader and everyone who   *)
(* awaits its promise; their continuations are microtasks of this turn.    *)
Deliver(c, s) ==
  /\ pc' = [d \in Calls |-> IF d = c THEN AfterOpening(c, s)
                            ELSE IF waits[d] = c THEN "resume" ELSE pc[d]]
  /\ held' = [d \in Calls |->
                IF d = c THEN IF AfterOpening(c, s) = "use" THEN s ELSE NoSession
                ELSE IF waits[d] = c THEN s ELSE held[d]]
  /\ waits' = [d \in Calls |-> IF waits[d] = c THEN NoCall ELSE waits[d]]

(* The finally block is forgotten: the settled promise stays registered. *)
SettleKeepingPending(c, s) == Deliver(c, s) /\ UNCHANGED pending

(* The promise settles; the finally block removes it if it is still the    *)
(* registered one.                                                         *)
Settle(c, s) ==
  /\ Deliver(c, s)
  /\ pending' = [pending EXCEPT ![path[c]] = IF @ = c THEN NoCall ELSE @]

(* The file is missing, of the wrong type, outside the allowed roots, too  *)
(* large, or refused by the archive guard.                                 *)
LoadFails(c) ==
  /\ pc[c] = "load"
  /\ Settle(c, NoSession)
  /\ UNCHANGED <<store, issued, dirs, expired, edited, histories,
                 op, path, cleaning>>

(* The content is read; createSession starts with canonicalizePath. *)
LoadSucceeds(c) ==
  /\ pc[c] = "load"
  /\ Suspend(c, "create")
  /\ UNCHANGED <<store, pending, issued, dirs, expired, edited, histories,
                 op, path, held, waits, cleaning>>

(* createSession looks up the session it will replace, and cleans up after *)
(* it.  That session stays in the map until Install overwrites it.         *)
FindExisting(c) ==
  /\ pc[c] = "create"
  /\ cleaning' = [cleaning EXCEPT ![c] = {store[path[c]]} \ {NoSession}]
  /\ Suspend(c, "mkdir")
  /\ UNCHANGED <<store, pending, issued, dirs, expired, edited, histories,
                 op, path, held, waits>>

(* The directory is made for the id handed out before. *)
MakeTmpDirOffByOne(c) ==
  /\ pc[c] = "mkdir" /\ cleaning[c] = {}
  /\ issued < MaxSessions
  /\ issued' = issued + 1
  /\ dirs' = dirs \cup {issued}
  /\ held' = [held EXCEPT ![c] = issued]
  /\ Suspend(c, "parse")
  /\ UNCHANGED <<store, pending, expired, edited, histories,
                 op, path, waits, cleaning>>

(* newSessionId, mkdtemp and writeFile. *)
MakeTmpDir(c) ==
  /\ pc[c] = "mkdir" /\ cleaning[c] = {}
  /\ issued < MaxSessions
  /\ issued' = issued + 1
  /\ dirs' = dirs \cup {issued + 1}
  /\ held' = [held EXCEPT ![c] = issued + 1]
  /\ Suspend(c, "parse")
  /\ UNCHANGED <<store, pending, expired, edited, histories,
                 op, path, waits, cleaning>>

(* DocxDocument.load throws (a Strict package, a broken part): nothing is  *)
(* stored, and nothing removes the directory made before.                  *)
ParseFails(c) ==
  /\ pc[c] = "parse"
  /\ refused' = refused \cup {held[c]}
  /\ Settle(c, NoSession)
  /\ UNCHANGED <<store, issued, dirs, expired, edited, closed, lapsed,
                 op, path, cleaning>>

(* The document is loaded: sessions.set, normalisation and bookmarks, and  *)
(* the outcome.  Only microtasks separate these steps.                     *)
Install(c) ==
  /\ pc[c] = "parse"
  /\ store' = [store EXCEPT ![path[c]] = held[c]]
  /\ Settle(c, held[c])
  /\ UNCHANGED <<issued, dirs, expired, edited, histories,
                 op, path, cleaning>>

-----------------------------------------------------------------------------
(* The tool's own work                                                     *)

(* The handler applies its edit to the session object it resolved, marks   *)
(* it edited and reports success -- or fails, or only reads.  It does not  *)
(* look the session up again.                                              *)
UseSession(c) ==
  /\ pc[c] = "use"
  /\ edited' \in {edited, edited \cup {held[c]}}
  /\ Answer(c)
  /\ UNCHANGED <<store, pending, issued, dirs, expired, histories,
                 op, path, waits, cleaning>>

-----------------------------------------------------------------------------
(* close_file                                                              *)

(* clearSessionByPath after canonicalizePath: nothing to close. *)
CloseNothing(c) ==
  /\ pc[c] = "called" /\ op[c] = "close"
  /\ store[path[c]] = NoSession
  /\ Answer(c)
  /\ UNCHANGED <<store, pending, issued, dirs, expired, edited, histories,
                 op, path, waits, cleaning>>

(* The entry is deleted but the artifacts are left to the TTL. *)
CloseWithoutCleanup(c) ==
  /\ pc[c] = "called" /\ op[c] = "close"
  /\ store[path[c]] # NoSession
  /\ store' = [store EXCEPT ![path[c]] = NoSession]
  /\ closed' = closed \cup {store[path[c]]}
  /\ Suspend(c, "closing")
  /\ UNCHANGED <<pending, issued, dirs, expired, edited, lapsed, refused,
                 op, path, held, waits, cleaning>>

(* clearSessionByPath: delete the entry, whether or not it has expired,    *)
(* then remove its directory.                                              *)
Close(c) ==
  /\ pc[c] = "called" /\ op[c] = "close"
  /\ store[path[c]] # NoSession
  /\ store' = [store EXCEPT ![path[c]] = NoSession]
  /\ closed' = closed \cup {store[path[c]]}
  /\ cleaning' = [cleaning EXCEPT ![c] = {store[path[c]]}]
  /\ Suspend(c, "closing")
  /\ UNCHANGED <<pending, issued, dirs, expired, edited, lapsed, refused,
                 op, path, held, waits>>

(* Clearing the sessions also forgets the opens in flight. *)
ClearAllAndPending(c) ==
  /\ pc[c] = "called" /\ op[c] = "clear"
  /\ store' = [p \in Paths |-> NoSession]
  /\ pending' = [p \in Paths |-> NoCall]
  /\ closed' = closed \cup Stored
  /\ cleaning' = [cleaning EXCEPT ![c] = Stored]
  /\ Suspend(c, "closing")
  /\ UNCHANGED <<issued, dirs, expired, edited, lapsed, refused,
                 op, path, held, waits>>

(* clearAllSessions: snapshot, clear the map, remove every directory. *)
ClearAll(c) ==
  /\ pc[c] = "called" /\ op[c] = "clear"
  /\ store' = [p \in Paths |-> NoSession]
  /\ closed' = closed \cup Stored
  /\ cleaning' = [cleaning EXCEPT ![c] = Stored]
  /\ Suspend(c, "closing")
  /\ UNCHANGED <<pending, issued, dirs, expired, edited, lapsed, refused,
                 op, path, held, waits>>

(* cleanupSessionArtifacts: one recursive rm completes. *)
RemoveDir(c, s) ==
  /\ s \in cleaning[c]
  /\ dirs' = dirs \ {s}
  /\ cleaning' = [cleaning EXCEPT ![c] = @ \ {s}]
  /\ UNCHANGED <<store, pending, issued, expired, edited, histories,
                 pc, op, path, held, waits>>

(* Every directory is gone: report the cleared paths. *)
CloseDone(c) ==
  /\ pc[c] = "closing" /\ cleaning[c] = {}
  /\ Answer(c)
  /\ UNCHANGED <<store, pending, issued, dirs, expired, edited, histories,
                 op, path, waits, cleaning>>

-----------------------------------------------------------------------------

(* A handler that has been started takes its next step. *)
Step(c) ==
  \/ Reuse(c) \/ AwaitLeader(c) \/ BecomeLeader(c)
  \/ StatDone(c) \/ WaiterResumes(c)
  \/ LoadFails(c) \/ LoadSucceeds(c) \/ FindExisting(c) \/ MakeTmpDir(c)
  \/ ParseFails(c) \/ Install(c)
  \/ UseSession(c)
  \/ CloseNothing(c) \/ Close(c) \/ ClearAll(c) \/ CloseDone(c)
  \/ \E s \in SessionIds : RemoveDir(c, s)

Next ==
  \/ \E c \in Calls, o \in Tools, p \in Paths : Start(c, o, p)
  \/ \E c \in Calls : Step(c)
  \/ \E s \in SessionIds : Expire(s)

Spec == Init /\ [][Next]_vars

(* Every file-system call completes or fails, and the event loop runs      *)
(* every continuation it has queued.  Nothing makes a client send requests *)
(* or a clock run.                                                         *)
FairSpec == Spec /\ \A c \in Calls : WF_vars(Step(c))

-----------------------------------------------------------------------------
(* Properties                                                              *)

(* The variables have the values their comments promise, and a handler     *)
(* that is past its resolution does have a session object.                 *)
TypeOK ==
  /\ store \in [Paths -> SessionIds \cup {NoSession}]
  /\ pending \in [Paths -> Calls \cup {NoCall}]
  /\ issued \in 0..MaxSessions
  /\ dirs \subseteq SessionIds
  /\ expired \subseteq SessionIds
  /\ edited \subseteq SessionIds
  /\ closed \subseteq SessionIds
  /\ lapsed \subseteq SessionIds
  /\ refused \subseteq SessionIds
  /\ pc \in [Calls -> Stages]
  /\ op \in [Calls -> Tools]
  /\ path \in [Calls -> Paths]
  /\ held \in [Calls -> SessionIds \cup {NoSession}]
  /\ waits \in [Calls -> Calls \cup {NoCall}]
  /\ cleaning \in [Calls -> SUBSET SessionIds]
  /\ \A c \in Calls : pc[c] \in {"parse", "stat", "use"} => held[c] # NoSession

(* A registered promise is one whose leader is still at work on that path, *)
(* so no later call can be handed an outcome of the past (the stale entry  *)
(* the comment at session_resolution.ts:296-299 guards against), and every *)
(* waiter waits on the registered promise of its own path, so it will be   *)
(* woken by the settlement.                                                *)
PendingIsCurrent ==
  /\ \A p \in Paths : pending[p] # NoCall =>
       /\ path[pending[p]] = p
       /\ op[pending[p]] = "edit"
       /\ pc[pending[p]] \in Opening
  /\ \A c \in Calls : pc[c] = "await" =>
       waits[c] # NoCall /\ waits[c] = pending[path[c]]

(* While a file is being opened it has no session: the resolver never      *)
(* opens a file twice, whatever overlaps (the claim of                     *)
(* session_resolution_concurrency.test.ts for every interleaving).         *)
SingleFlight ==
  \A c \in Calls : pc[c] \in Opening =>
    /\ store[path[c]] = NoSession
    /\ \A d \in Calls : pc[d] \in Opening /\ path[d] = path[c] => d = c

(* A handler that is about to use a session uses the one its file          *)
(* currently has, unless close_file or the TTL took that one away while    *)
(* the handler was suspended: two handlers never edit two copies.          *)
HandlesAreCurrent ==
  \A c \in Calls : held[c] # NoSession /\ pc[c] \in {"stat", "resume", "use"} =>
    held[c] = store[path[c]] \/ held[c] \in closed \cup lapsed

(* An edit that was reported as applied stays reachable by the next save   *)
(* until its session is closed or expires; opening never buries it.        *)
EditsStayReachable == edited \subseteq Known

(* Sessions some handler is still creating, and directories some handler   *)
(* has yet to remove.                                                      *)
InCreation == {held[c] : c \in {d \in Calls : pc[d] = "parse"}}
BeingCleaned == UNION {cleaning[c] : c \in Calls}

(* Every tmp directory belongs to a stored session or to work in progress, *)
(* or is left over for one of two reasons: its session expired, or its     *)
(* document failed to load.  Closing, clearing and racing opens leak none. *)
TmpDirsAccounted ==
  dirs \subseteq Stored \cup InCreation \cup BeingCleaned \cup lapsed \cup refused

(* The stronger claim that temp artifacts are bounded by the sessions that *)
(* exist (packages/docx-mcp/assumptions.md, A19).                          *)
TmpDirsBounded == dirs \subseteq Stored \cup InCreation \cup BeingCleaned

(* A stored session is replaced by no other one in place. *)
NeverDisplaced ==
  [][\A p \in Paths : store[p] = NoSession \/ store'[p] \in {store[p], NoSession}]_vars

(* Every request is answered: waiters are woken, whatever becomes of their *)
(* leader, and no cleanup blocks.                                          *)
EveryCallAnswered == \A c \in Calls : pc[c] # "idle" ~> pc[c] = "idle"

(* The layer implements the promise of FileSessions. *)
Promise == INSTANCE FileSessions WITH
  Sessions <- SessionIds, current <- store, known <- Known
KeepsPromise == Promise!Spec
=============================================================================
