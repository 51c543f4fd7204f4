----------------------------- MODULE CommentParts -----------------------------
(***************************************************************************)
(* The comments of a session: add_comment (root comments and replies) and  *)
(* delete_comment, with calls that overlap, and accept_ai_edits and        *)
(* reject_ai_edits in between.  A comment is spread over word/comments.xml *)
(* (its definition), commentsExtended.xml (the row that ties a reply to    *)
(* its parent), people.xml (its author) and the document (range markers    *)
(* and reference).  A call reads a part, waits, and writes the whole part  *)
(* back: every await is the end of an action.                              *)
(*                                                                         *)
(* A missing part is an empty one; the parts' registration in the package, *)
(* the trial on a copy, and the place of the markers are left out.         *)
(***************************************************************************)
EXTENDS Naturals, FiniteSets, FiniteSetsExt

CONSTANTS
  Callers,     \* also the authors of the comments they add
  File,        \* [comments, rows, size]: the parts on disk, with single
               \* marks and the paragraph ids 1..size
  Tracked,     \* the session has an author
  MaxCalls,    \* bound on the calls
  MaxResolves  \* bound on accept_ai_edits and reject_ai_edits

ASSUME CommentPartsAssumption ==
  /\ MaxCalls \in Nat /\ MaxResolves \in Nat
  /\ Tracked \in BOOLEAN

(* A valid file names a comment by one id, and a row has a paragraph.      *)
ASSUME FileAssumption ==
  /\ File.size \in Nat /\ IsFiniteSet(File.comments)
  /\ File.comments \subseteq [id : Nat, para : 0..File.size, last : 0..File.size,
                              by : {d.by : d \in File.comments}]
  /\ \A d, e \in File.comments : d.id = e.id => d = e
  /\ File.rows \subseteq [para : 1..File.size, parent : 0..File.size]

VARIABLES
  comments,  \* word/comments.xml: a set of [id, para, last, by]; an id is
             \* used once in it, so that the order never decides
  rows,      \* word/commentsExtended.xml: a set of [para, parent]
  people,    \* word/people.xml
  marks,     \* in the document: [n, id, range, ref, in]
  calls,     \* the running call of each caller
  left,      \* calls that may still begin, bounded by MaxCalls
  resolves,  \* accepted or rejected so far, bounded by MaxResolves
  overlap,   \* auxiliary: two calls have overlapped
  rejected,  \* auxiliary: the author's revisions were rejected
  settled    \* auxiliary: comments added by calls that overlapped no other,
             \* and not asked to be deleted: [id, para, by, parent]

parts == <<comments, rows, people, marks>>
vars == <<parts, calls, left, resolves, overlap, rejected, settled>>

(***************************************************************************)
(* para and last stand for the w14:paraId of the first and last paragraph  *)
(* of a comment (0: none); rows of Word name the last.  A mark is what one *)
(* call put into the document: n says which, range whether the range       *)
(* markers are there, ref whether the reference is, and in the tracked     *)
(* changes around the reference.                                           *)
(***************************************************************************)
Mark(n, id, in) == [n |-> n, id |-> id, range |-> TRUE, ref |-> TRUE, in |-> in]

NoRoot == [op |-> "add", id |-> 0]
Idle == [pc |-> "idle", req |-> NoRoot, no |-> 0, alone |-> TRUE,
         read |-> {}, rows |-> {}, people |-> {}, id |-> 0, parent |-> 0]

ParentsIn(exts, def) == {r.parent : r \in {x \in exts : x.para = def.last}} \ {0}
IsReply(def) == ParentsIn(rows, def) # {}

InitialParent(def) ==
  LET up == ParentsIn(File.rows, def) IN IF up = {} THEN 0 ELSE CHOOSE p \in up : TRUE

Init ==
  /\ comments = File.comments
  /\ rows = File.rows
  /\ people = {c.by : c \in File.comments}
  /\ marks = {Mark(c.para, c.id, {}) : c \in {x \in File.comments : ParentsIn(File.rows, x) = {}}}
  /\ calls = [c \in Callers |-> Idle]
  /\ left = MaxCalls
  /\ resolves = 0
  /\ overlap = FALSE /\ rejected = FALSE
  /\ settled = {[id |-> c.id, para |-> c.para, by |-> c.by, parent |-> InitialParent(c)]
                : c \in File.comments}

(* A bug: the number of comments. *)
CountOf(defs) == Cardinality(defs)

(* allocateNextCommentId *)
NextId(defs) == IF defs = {} THEN 0 ELSE Max({c.id : c \in defs}) + 1

(* A bug: only the replies to the comment itself. *)
RepliesOf(exts, para) == ({para} \ {0}) \cup {r.para : r \in {x \in exts : x.parent = para}}

(* deleteComment: the comment with this paragraph and all below it, the    *)
(* least set with it that holds the replies to what it holds.              *)
Thread(exts, para) ==
  LET all == ({para} \ {0}) \cup {r.para : r \in exts}
      closed(T) == /\ {para} \ {0} \subseteq T
                   /\ \A r \in exts : r.parent \in T => r.para \in T
  IN {x \in all : \A T \in SUBSET all : closed(T) => x \in T}

Defined(defs, id) == \E d \in defs : d.id = id
Definition(defs, id) == CHOOSE d \in defs : d.id = id

-------------------------------------------------------------------------------
Running == {c \in Callers : calls[c].pc # "idle"}

(* handleCallTool: nothing keeps a call waiting for another one.  Deleting *)
(* ends the promise to keep the thread.                                    *)
Begin(c, r) ==
  LET number == File.size + MaxCalls - left + 1
      named == IF r.op = "delete" /\ Defined(comments, r.id)
               THEN LET para == Definition(comments, r.id).para IN {para} \cup Thread(rows, para)
               ELSE {} IN
  /\ calls[c].pc = "idle" /\ left > 0
  /\ calls' = [x \in Callers |->
       IF x = c THEN [Idle EXCEPT !.pc = "read", !.req = r, !.no = number, !.alone = (Running = {})]
       ELSE [calls[x] EXCEPT !.alone = FALSE]]
  /\ left' = left - 1
  /\ overlap' = (overlap \/ Running # {})
  /\ settled' = {s \in settled : s.para \notin named}
  /\ UNCHANGED <<parts, resolves, rejected>>

(* The read of comments.xml begins: what it will give is fixed. *)
Read(c) ==
  /\ calls[c].pc = "read"
  /\ calls' = [calls EXCEPT ![c].read = comments, ![c].pc = calls[c].req.op]
  /\ UNCHANGED <<parts, left, resolves, overlap, rejected, settled>>

Refuse(c) ==
  /\ calls' = [calls EXCEPT ![c] = Idle]
  /\ UNCHANGED <<parts, settled>>

(***************************************************************************)
(* addComment: the markers go into the document before the definition is   *)
(* written.                                                                *)
(***************************************************************************)
InsertMarkers(c) ==
  LET id == NextId(calls[c].read) IN
  /\ calls[c].pc = "add"
  /\ marks' = marks \cup {Mark(calls[c].no, id, IF Tracked THEN {"ins"} ELSE {})}
  /\ calls' = [calls EXCEPT ![c].id = id, ![c].pc = "write"]
  /\ UNCHANGED <<comments, rows, people, left, resolves, overlap, rejected, settled>>

Added(c, id) == calls[c].read \cup {[id |-> id, para |-> calls[c].no, last |-> calls[c].no, by |-> c]}

WriteRoot(c) ==
  /\ calls[c].pc = "write"
  /\ comments' = Added(c, calls[c].id)
  /\ calls' = [calls EXCEPT ![c].people = people, ![c].pc = "people"]
  /\ UNCHANGED <<rows, people, marks, left, resolves, overlap, rejected, settled>>

(***************************************************************************)
(* addCommentReply: the parent must have a definition with a paragraph id. *)
(***************************************************************************)
WriteReply(c) ==
  LET up == calls[c].req.id
      known == Defined(calls[c].read, up) /\ Definition(calls[c].read, up).para # 0
      id == NextId(calls[c].read) IN
  /\ calls[c].pc = "reply"
  /\ \/ /\ ~known
        /\ Refuse(c)
     \/ /\ known
        /\ comments' = Added(c, id)
        /\ calls' = [calls EXCEPT ![c].id = id, ![c].parent = Definition(calls[c].read, up).para,
                                  ![c].rows = rows, ![c].pc = "link"]
        /\ UNCHANGED <<rows, people, marks, settled>>
  /\ UNCHANGED <<left, resolves, overlap, rejected>>

(* linkReplyInCommentsExtended; the next read begins with the write done. *)
Link(c) ==
  /\ calls[c].pc = "link"
  /\ rows' = calls[c].rows \cup {[para |-> calls[c].no, parent |-> calls[c].parent]}
  /\ calls' = [calls EXCEPT ![c].rows = rows', ![c].pc = "ensure"]
  /\ UNCHANGED <<comments, people, marks, left, resolves, overlap, rejected, settled>>

(* ensureCommentExEntry: the parent has a row too. *)
Ensure(c) ==
  /\ calls[c].pc = "ensure"
  /\ rows' = IF \E r \in calls[c].rows : r.para = calls[c].parent THEN rows
             ELSE calls[c].rows \cup {[para |-> calls[c].parent, parent |-> 0]}
  /\ calls' = [calls EXCEPT ![c].people = people, ![c].pc = "people"]
  /\ UNCHANGED <<comments, people, marks, left, resolves, overlap, rejected, settled>>

(* ensureAuthorInPeople, and the answer. *)
AddAuthor(c) ==
  /\ calls[c].pc = "people"
  /\ people' = IF c \in calls[c].people THEN people ELSE calls[c].people \cup {c}
  /\ calls' = [calls EXCEPT ![c] = Idle]
  /\ settled' = settled \cup
       {s \in {[id |-> calls[c].id, para |-> calls[c].no, by |-> c, parent |-> calls[c].parent]}
        : calls[c].alone}
  /\ UNCHANGED <<comments, rows, marks, left, resolves, overlap, rejected>>

(***************************************************************************)
(* deleteComment: the definition is looked up, the rows are read, and the  *)
(* thread is taken out of both parts and the document at once.             *)
(***************************************************************************)
FindTarget(c) ==
  /\ calls[c].pc = "delete"
  /\ \/ /\ ~Defined(calls[c].read, calls[c].req.id)
        /\ Refuse(c)
     \/ /\ Defined(calls[c].read, calls[c].req.id)
        /\ calls' = [calls EXCEPT ![c].rows = rows, ![c].pc = "remove"]
        /\ UNCHANGED <<parts, settled>>
  /\ UNCHANGED <<left, resolves, overlap, rejected>>

(* removeCommentMarkersFromDocument: with tracking the reference stays, as *)
(* deleted text.                                                           *)
Unmarked(m) ==
  LET bare == IF Tracked THEN [m EXCEPT !.range = FALSE, !.in = @ \cup {"del"}]
              ELSE [m EXCEPT !.range = FALSE, !.ref = FALSE]
  IN {b \in {bare} : b.ref}

RemoveThread(c) ==
  LET paras == Thread(calls[c].rows, Definition(calls[c].read, calls[c].req.id).para)
      ids == {calls[c].req.id} \cup {d.id : d \in {x \in calls[c].read : x.para \in paras}} IN
  /\ calls[c].pc = "remove"
  /\ comments' = {d \in calls[c].read : d.id \notin ids}
  /\ rows' = {r \in calls[c].rows : r.para \notin paras}
  /\ marks' = UNION {IF m.id \in ids THEN Unmarked(m) ELSE {m} : m \in marks}
  /\ calls' = [calls EXCEPT ![c] = Idle]
  /\ UNCHANGED <<people, left, resolves, overlap, rejected, settled>>

(***************************************************************************)
(* accept_ai_edits and reject_ai_edits: only the references are tracked.   *)
(***************************************************************************)
Resolved(m, drop) ==
  {b \in {[m EXCEPT !.ref = @ /\ drop \notin m.in, !.in = {}]} : b.ref \/ b.range}

AcceptAIEdits ==
  /\ resolves < MaxResolves
  /\ resolves' = resolves + 1
  /\ marks' = UNION {Resolved(m, "del") : m \in marks}
  /\ UNCHANGED <<comments, rows, people, calls, left, overlap, rejected, settled>>

RejectAIEdits ==
  /\ resolves < MaxResolves
  /\ resolves' = resolves + 1
  /\ rejected' = TRUE
  /\ marks' = UNION {Resolved(m, "ins") : m \in marks}
  /\ UNCHANGED <<comments, rows, people, calls, left, overlap, settled>>

Ids == {c.id : c \in comments}
Requests == {NoRoot} \cup [op : {"reply", "delete"}, id : Ids]

Next ==
  \/ \E c \in Callers :
       \/ \E r \in Requests : Begin(c, r)
       \/ Read(c) \/ InsertMarkers(c) \/ WriteRoot(c)
       \/ WriteReply(c) \/ Link(c) \/ Ensure(c) \/ AddAuthor(c)
       \/ FindTarget(c) \/ RemoveThread(c)
  \/ AcceptAIEdits \/ RejectAIEdits

Spec == Init /\ [][Next]_vars

-------------------------------------------------------------------------------
(* Between calls that never overlapped the parts agree: ids are used once, *)
(* exactly the root comments have range markers (and, until the author's   *)
(* revisions are rejected, a reference that is not deleted), and no row is *)
(* left of a comment that is gone.                                         *)
Single(S, op(_)) == \A m, k \in S : op(m) = op(k) => m = k
RootIds == {d.id : d \in {x \in comments : ~IsReply(x)}}
Ranged == {m \in marks : m.range}
Referenced == {m \in marks : m.ref /\ "del" \notin m.in}

PartsAgree ==
  ~overlap /\ Running = {} =>
    /\ Single(comments, LAMBDA d : d.id)
    /\ {m.id : m \in Ranged} = RootIds /\ Single(Ranged, LAMBDA m : m.id)
    /\ ~rejected => {m.id : m \in Referenced} = RootIds /\ Single(Referenced, LAMBDA m : m.id)
    /\ \A r \in rows : {r.para, r.parent} \ {0} \subseteq {d.last : d \in comments}

(* A comment whose call overlapped no other stays, with its author, its    *)
(* place in the thread or its markers, whatever calls overlap later, until *)
(* its deletion or that of a comment above it is asked for.                *)
SettledCommentsStay ==
  \A s \in settled :
    /\ \E d \in comments : d.id = s.id /\ d.para = s.para /\ d.by = s.by
    /\ s.by \in people
    /\ IF s.parent # 0 THEN [para |-> s.para, parent |-> s.parent] \in rows
       ELSE \E m \in Ranged : m.n = s.para /\ m.id = s.id /\ (rejected \/ m \in Referenced)
===============================================================================
