-------------------------- MODULE CommentPartsProofs --------------------------
(***************************************************************************)
(* Proofs about comments: that whatever calls overlap, a comment whose own *)
(* call overlapped no other stays until its deletion is asked for; and     *)
(* that the parts agree as long as no two calls have overlapped.           *)
(***************************************************************************)
EXTENDS CommentParts, FiniteSetTheorems, WellFoundedInduction, TLAPS

(***************************************************************************)
(* Sets of naturals                                                        *)
(***************************************************************************)

(* Induction over finite sets: a smallest set of naturals that is not      *)
(* bounded would be bounded without one of its members.                    *)
LEMMA GreatestNatural ==
  ASSUME NEW S \in SUBSET Nat, IsFiniteSet(S), S # {}
  PROVE  \E m \in S : \A n \in S : n <= m
<1> DEFINE Bounded(T) == \E x \in T : \A y \in T : x >= y
           Bad == {T \in FiniteSubsetsOf(Nat) : T # {} /\ ~Bounded(T)}
<1>1. ASSUME Bad # {} PROVE FALSE
  <2>1. PICK T \in Bad : \A U \in Bad : ~(<<U, T>> \in StrictSubsetOrdering(Nat))
    <3>1. Bad \subseteq FiniteSubsetsOf(Nat)
      OBVIOUS
    <3>2. IsWellFoundedOn(StrictSubsetOrdering(Nat), FiniteSubsetsOf(Nat))
      BY FS_StrictSubsetOrderingWellFounded
    <3> HIDE DEF Bad
    <3> QED BY <1>1, <3>1, <3>2, WFMin
  <2>2. T \subseteq Nat /\ IsFiniteSet(T) /\ T # {} /\ ~Bounded(T)
    BY <2>1 DEF FiniteSubsetsOf
  <2>3. PICK e \in T : TRUE
    BY <2>2
  <2> DEFINE U == T \ {e}
  <2>4. U # {}
    <3> SUFFICES ASSUME U = {} PROVE FALSE
      OBVIOUS
    <3>1. T = {e} /\ e \in Nat
      BY <2>2, <2>3
    <3> QED BY <3>1, <2>2
  <2>5. IsFiniteSet(U)
    BY <2>2, FS_RemoveElement
  <2>6. U \in FiniteSubsetsOf(Nat) /\ <<U, T>> \in StrictSubsetOrdering(Nat)
    BY <2>2, <2>3, <2>5 DEF FiniteSubsetsOf, StrictSubsetOrdering
  <2>7. Bounded(U)
    BY <2>1, <2>4, <2>6
  <2>8. PICK x \in U : \A y \in U : x >= y
    BY <2>7
  <2>9. Bounded(T)
    <3>1. CASE x >= e
      BY <3>1, <2>8, <2>2
    <3>2. CASE e >= x
      BY <3>2, <2>8, <2>2, <2>3
    <3> QED BY <3>1, <3>2, <2>2, <2>3, <2>8
  <2> QED BY <2>2, <2>9
<1>2. S \in FiniteSubsetsOf(Nat)
  BY DEF FiniteSubsetsOf
<1>3. Bounded(S)
  BY <1>1, <1>2
<1> QED BY <1>3

(***************************************************************************)
(* Types                                                                   *)
(***************************************************************************)

Authors == Callers \cup {d.by : d \in File.comments}
Defs == [id : Nat, para : Nat, last : Nat, by : Authors]
Rows == [para : Nat, parent : Nat]
Marks == [n : Nat, id : Nat, range : BOOLEAN, ref : BOOLEAN, in : SUBSET {"ins", "del"}]
Reqs == [op : {"add", "reply", "delete"}, id : Nat]
PCs == {"idle", "read", "add", "write", "reply", "link", "ensure", "people", "delete", "remove"}
CallRecords == [pc : PCs, req : Reqs, no : Nat, alone : BOOLEAN, read : SUBSET Defs,
                rows : SUBSET Rows, people : SUBSET Authors, id : Nat, parent : Nat]

Types ==
  /\ comments \subseteq Defs /\ rows \subseteq Rows
  /\ people \subseteq Authors /\ marks \subseteq Marks
  /\ calls \in [Callers -> CallRecords]
  /\ left \in 0..MaxCalls
  /\ overlap \in BOOLEAN /\ rejected \in BOOLEAN
  /\ settled \subseteq [id : Nat, para : Nat, by : Authors, parent : Nat]

(* Paragraph ids given so far are 1..Used. *)
Used == File.size + MaxCalls - left

(* The versions of comments.xml and commentsExtended.xml that may still    *)
(* become the part: the one that is there, and what calls have read.       *)
Versions ==
  {comments} \cup {calls[c].read : c \in {x \in Callers : calls[x].pc \notin {"idle", "read"}}}
RowVersions ==
  {rows} \cup {calls[c].rows : c \in {x \in Callers : calls[x].pc \in {"link", "ensure", "remove"}}}

(* Every version names a comment by one id, and ids of paragraphs are those *)
(* given so far.                                                           *)
Sound ==
  /\ \A V \in Versions : /\ IsFiniteSet(V)
                         /\ \A d \in V : d.para <= Used
                         /\ \A d, e \in V : d.id = e.id => d = e
  /\ \A R \in RowVersions : \A r \in R : r.para \in 1..Used /\ r.parent <= Used
  /\ \A s \in settled : s.para <= Used

(* Each call is at a stage of its own operation, with a number of its own. *)
AtStage(x) ==
  /\ x.pc \in {"add", "write"} => x.req.op = "add"
  /\ x.pc \in {"reply", "link", "ensure"} => x.req.op = "reply"
  /\ x.pc \in {"delete", "remove"} => x.req.op = "delete"
  /\ x.pc = "people" => x.req.op # "delete"
  /\ x.pc = "write" => x.id = NextId(x.read)
  /\ x.pc = "remove" => Defined(x.read, x.req.id)
  /\ x.no \in 1..Used
  /\ x.req.op = "add" => x.parent = 0
  /\ x.pc \in {"link", "ensure"} => x.parent \in 1..Used
  /\ x.pc = "people" /\ x.req.op = "reply" => x.parent # 0

Staged ==
  \A c \in Running : /\ AtStage(calls[c])
                     /\ calls[c].alone => \A d \in Running : d = c

MarkedBy(n, id) ==
  \E m \in marks : m.range /\ m.n = n /\ m.id = id /\ (rejected \/ (m.ref /\ "del" \notin m.in))
DefinedBy(V, id, para, by) == \E d \in V : d.id = id /\ d.para = para /\ d.by = by
Row(para, parent) == [para |-> para, parent |-> parent]

(* What a call that has overlapped no other has written is there. *)
Written(c) ==
  LET x == calls[c] IN
  /\ x.pc \in {"write", "people"} /\ x.req.op = "add" => MarkedBy(x.no, x.id)
  /\ x.pc \in {"link", "ensure", "people"} => DefinedBy(comments, x.id, x.no, c)
  /\ x.pc \in {"ensure", "people"} /\ x.req.op = "reply" => Row(x.no, x.parent) \in rows
  /\ x.pc = "ensure" => Row(x.no, x.parent) \in x.rows
  /\ x.pc = "people" => x.people \subseteq people

AloneWrites == \A c \in Running : calls[c].alone => Written(c)

(* A settled comment is in every version of the parts. *)
Kept ==
  \A s \in settled :
    /\ \A V \in Versions : DefinedBy(V, s.id, s.para, s.by)
    /\ s.parent # 0 => \A R \in RowVersions : Row(s.para, s.parent) \in R
    /\ s.by \in people
    /\ \A c \in Callers : calls[c].pc = "people" => s.by \in calls[c].people
    /\ s.parent = 0 => MarkedBy(s.para, s.id)

(* The paragraphs K are out of reach of the running calls: all versions    *)
(* agree on them, with a comment they hold the ones above it, and no       *)
(* deletion under way names one of them.                                   *)
OutOfReach(K) ==
  /\ \A s \in settled : s.para \in K \cup {0}
  /\ \A V, W \in Versions : \A d \in V : d.para \in K => d \in W
  /\ \A Q, R \in RowVersions : \A r \in Q :
       r.para \in K => r.parent \in K \cup {0} /\ (r.parent # 0 => r \in R)
  /\ \A c \in Running :
       /\ calls[c].no \notin K
       /\ calls[c].req.op = "delete" =>
            /\ \A V \in Versions : \A d \in V : d.id = calls[c].req.id => d.para \notin K
            /\ \A s \in settled : s.id # calls[c].req.id

Reach == \E K \in SUBSET (1..Used) : OutOfReach(K)

Guarded == Types /\ Sound /\ Staged /\ AloneWrites /\ Kept /\ Reach

-------------------------------------------------------------------------------
(***************************************************************************)
(* Ids and threads                                                         *)
(***************************************************************************)

(* allocateNextCommentId gives an id above all of the part it was given.   *)
LEMMA NextIdIsFresh ==
  ASSUME NEW V \in SUBSET Defs, IsFiniteSet(V)
  PROVE  NextId(V) \in Nat /\ \A d \in V : d.id < NextId(V)
<1> DEFINE ids == {d.id : d \in V}
<1>1. CASE V = {}
  BY <1>1 DEF NextId
<1>2. CASE V # {}
  <2>1. ids \in SUBSET Nat /\ ids # {}
    BY <1>2 DEF Defs
  <2>2. IsFiniteSet(ids)
    <3> DEFINE f == [d \in V |-> d.id]
    <3>1. f \in Surjection(V, ids)
      BY DEF Surjection
    <3> QED BY <3>1, FS_Surjection
  <2>3. Max(ids) \in ids /\ \A n \in ids : n <= Max(ids)
    <3>1. \E m \in ids : \A n \in ids : n <= m
      BY <2>1, <2>2, GreatestNatural
    <3>2. \A m, n \in ids : n <= m <=> m >= n
      BY <2>1
    <3> HIDE DEF ids
    <3> QED BY <3>1, <3>2 DEF Max
  <2>4. NextId(V) = Max(ids) + 1
    BY <1>2 DEF NextId
  <2>5. \A d \in V : d.id \in ids
    OBVIOUS
  <2> HIDE DEF ids
  <2>6. Max(ids) \in Nat /\ \A d \in V : d.id \in Nat /\ d.id <= Max(ids)
    BY <2>1, <2>3, <2>5
  <2> QED BY <2>4, <2>6
<1> QED BY <1>1, <1>2

(* A comment and the replies to what is in its thread are in its thread.   *)
LEMMA ThreadIsClosed ==
  ASSUME NEW exts \in SUBSET Rows, NEW p \in Nat
  PROVE  /\ p # 0 => p \in Thread(exts, p)
         /\ \A r \in exts : r.parent \in Thread(exts, p) => r.para \in Thread(exts, p)
BY DEF Thread

(* A set with the comment that holds the replies to what it holds has the  *)
(* whole thread.                                                           *)
LEMMA ThreadIsLeast ==
  ASSUME NEW exts \in SUBSET Rows, NEW p \in Nat, NEW T,
         {p} \ {0} \subseteq T,
         \A r \in exts : r.parent \in T \ {0} => r.para \in T,
         \A r \in exts : r.para # 0
  PROVE  Thread(exts, p) \subseteq T \ {0}
<1> DEFINE all == ({p} \ {0}) \cup {r.para : r \in exts}
<1>1. T \cap all \in SUBSET all
  OBVIOUS
<1>2. {p} \ {0} \subseteq T \cap all /\ \A r \in exts : r.parent \in T \cap all => r.para \in T \cap all
  OBVIOUS
<1> QED BY <1>1, <1>2 DEF Thread

(* Nothing out of reach is in the thread of a comment that is within it.   *)
LEMMA ThreadWithinReach ==
  ASSUME NEW exts \in SUBSET Rows, NEW p \in Nat, NEW K,
         p \notin K,
         \A r \in exts : r.para # 0 /\ (r.para \in K => r.parent \in K \cup {0})
  PROVE  Thread(exts, p) \cap (K \cup {0}) = {}
<1> DEFINE T == Nat \ K
<1>1. {p} \ {0} \subseteq T
  OBVIOUS
<1>2. \A r \in exts : r.parent \in T \ {0} => r.para \in T
  BY DEF Rows
<1>3. Thread(exts, p) \subseteq T \ {0}
  BY <1>1, <1>2, ThreadIsLeast
<1> QED BY <1>3

LEMMA DefinitionIsThere ==
  ASSUME NEW V, NEW id, Defined(V, id)
  PROVE  Definition(V, id) \in V /\ Definition(V, id).id = id
BY DEF Defined, Definition

LEMMA VersionsAreTyped ==
  ASSUME Types
  PROVE  (\A V \in Versions : V \subseteq Defs) /\ (\A R \in RowVersions : R \subseteq Rows)
<1>1. \A c \in Callers : calls[c].read \subseteq Defs /\ calls[c].rows \subseteq Rows
  BY DEF Types, CallRecords
<1> QED BY <1>1 DEF Types, Versions, RowVersions

(* A new comment does not take the id of one that is in the part.          *)
LEMMA AddedKeepsIdsUnique ==
  ASSUME Types, NEW c \in Callers, NEW para \in Nat, IsFiniteSet(calls[c].read),
         \A d, e \in calls[c].read : d.id = e.id => d = e
  PROVE  LET id == NextId(calls[c].read)
             def == [id |-> id, para |-> calls[c].no, last |-> calls[c].no, by |-> c] IN
         /\ id \in Nat /\ def \in Defs
         /\ IsFiniteSet(Added(c, id)) /\ Added(c, id) = calls[c].read \cup {def}
         /\ Added(c, id) \subseteq Defs
         /\ \A d, e \in Added(c, id) : d.id = e.id => d = e
<1> DEFINE id == NextId(calls[c].read)
           def == [id |-> id, para |-> calls[c].no, last |-> calls[c].no, by |-> c]
<1>1. calls[c].read \in SUBSET Defs /\ calls[c].no \in Nat
  BY DEF Types, CallRecords
<1>2. id \in Nat /\ \A d \in calls[c].read : d.id < id
  BY <1>1, NextIdIsFresh
<1>3. \A d \in calls[c].read : d.id \in Nat /\ d.id # id
  BY <1>1, <1>2 DEF Defs
<1>4. def \in Defs /\ def.id = id
  BY <1>1, <1>2 DEF Defs, Authors
<1>5. Added(c, id) = calls[c].read \cup {def}
  BY DEF Added
<1>6. IsFiniteSet(Added(c, id))
  BY <1>5, FS_AddElement
<1>7. Added(c, id) \subseteq Defs
  BY <1>1, <1>4, <1>5
<1> HIDE DEF def, id
<1>8. \A d, e \in Added(c, id) : d.id = e.id => d = e
  BY <1>3, <1>4, <1>5
<1> QED BY <1>2, <1>4, <1>5, <1>6, <1>7, <1>8 DEF def, id

-------------------------------------------------------------------------------
(***************************************************************************)
(* The first state                                                         *)
(***************************************************************************)

(* The comments of the file have one paragraph each: a row names the last  *)
(* paragraph of a comment, and all the code looks for the first.           *)
SingleParagraph == \A d \in File.comments : d.last = d.para

LEMMA InitGuarded ==
  ASSUME SingleParagraph, Init
  PROVE  Guarded
<1> USE FileAssumption, CommentPartsAssumption
<1>1. \A d \in File.comments : /\ d \in Defs
                               /\ d.id \in Nat /\ d.para \in 0..File.size /\ d.by \in Authors
                               /\ d.last = d.para
  BY DEF SingleParagraph, Defs, Authors
<1>2. \A r \in File.rows : r \in Rows /\ r.para \in 1..File.size /\ r.parent \in 0..File.size
  BY DEF Rows
<1>3. \A d \in File.comments :
        /\ InitialParent(d) \in 0..File.size
        /\ InitialParent(d) # 0 => Row(d.para, InitialParent(d)) \in File.rows
        /\ InitialParent(d) = 0 => ParentsIn(File.rows, d) = {}
  <2> SUFFICES ASSUME NEW d \in File.comments
               PROVE  /\ InitialParent(d) \in 0..File.size
                      /\ InitialParent(d) # 0 => Row(d.para, InitialParent(d)) \in File.rows
                      /\ InitialParent(d) = 0 => ParentsIn(File.rows, d) = {}
    OBVIOUS
  <2> DEFINE up == ParentsIn(File.rows, d)
  <2>1. \A p \in up : p \in 0..File.size /\ p # 0 /\ \E r \in File.rows : r.para = d.para /\ r.parent = p
    BY <1>1, <1>2 DEF ParentsIn
  <2>2. CASE up = {}
    BY <2>2 DEF InitialParent
  <2>3. CASE up # {}
    <3>1. InitialParent(d) \in up
      BY <2>3 DEF InitialParent
    <3>2. PICK r \in File.rows : r.para = d.para /\ r.parent = InitialParent(d)
      BY <2>1, <3>1
    <3>3. r = Row(d.para, InitialParent(d))
      BY <1>2, <3>2 DEF Row, Rows
    <3> QED BY <2>1, <3>1, <3>2, <3>3
  <2> QED BY <2>2, <2>3
<1>4. Running = {} /\ Versions = {File.comments} /\ RowVersions = {File.rows} /\ Used = File.size
  BY DEF Init, Running, Versions, RowVersions, Used, Idle
<1>5. \A s \in settled : \E d \in File.comments :
        s = [id |-> d.id, para |-> d.para, by |-> d.by, parent |-> InitialParent(d)]
  BY DEF Init
<1>6. Types
  <2>1. Idle \in CallRecords
    BY DEF Idle, NoRoot, CallRecords, Reqs, PCs
  <2>2. marks \subseteq Marks
    <3>1. \A n, id \in Nat : Mark(n, id, {}) \in Marks
      BY DEF Mark, Marks
    <3>2. \A d \in File.comments : d.id \in Nat /\ d.para \in Nat
      BY <1>1
    <3> QED BY <3>1, <3>2 DEF Init
  <2>3. people \subseteq Authors
    BY DEF Init, Authors
  <2>4. settled \subseteq [id : Nat, para : Nat, by : Authors, parent : Nat]
    BY <1>1, <1>3, <1>5
  <2>5. comments \subseteq Defs /\ rows \subseteq Rows
    BY <1>1, <1>2 DEF Init
  <2>6. calls \in [Callers -> CallRecords]
    BY <2>1 DEF Init
  <2>7. left \in 0..MaxCalls
    BY DEF Init
  <2>8. overlap \in BOOLEAN /\ rejected \in BOOLEAN
    BY DEF Init
  <2> QED BY <2>2, <2>3, <2>4, <2>5, <2>6, <2>7, <2>8 DEF Types
<1>7. Sound
  <2>1. \A d \in File.comments : d.para <= File.size
    BY <1>1
  <2>2. \A s \in settled : s.para <= File.size
    BY <1>1, <1>5
  <2> QED BY <1>2, <1>4, <2>1, <2>2 DEF Sound
<1>8. Staged /\ AloneWrites
  BY <1>4 DEF Staged, AloneWrites
<1>9. Kept
  <2> SUFFICES ASSUME NEW s \in settled
               PROVE  /\ DefinedBy(File.comments, s.id, s.para, s.by)
                      /\ s.parent # 0 => Row(s.para, s.parent) \in File.rows
                      /\ s.by \in people
                      /\ s.parent = 0 => MarkedBy(s.para, s.id)
    BY <1>4 DEF Kept, Running
  <2>1. PICK d \in File.comments :
          s = [id |-> d.id, para |-> d.para, by |-> d.by, parent |-> InitialParent(d)]
    BY <1>5
  <2>2. ASSUME s.parent = 0 PROVE MarkedBy(s.para, s.id)
    <3>1. Mark(d.para, d.id, {}) \in marks
      BY <1>3, <2>1, <2>2 DEF Init
    <3> QED BY <3>1, <2>1 DEF MarkedBy, Mark
  <2> QED BY <1>3, <2>1, <2>2 DEF DefinedBy, Init
<1>10. OutOfReach(1..Used)
  <2>1. \A s \in settled : s.para \in (1..File.size) \cup {0}
    BY <1>1, <1>5
  <2> QED BY <1>2, <1>4, <2>1 DEF OutOfReach
<1> QED BY <1>6, <1>7, <1>8, <1>9, <1>10 DEF Guarded, Reach

-------------------------------------------------------------------------------
(***************************************************************************)
(* Steps of one call                                                       *)
(***************************************************************************)

(* The other calls stay as they are.                                       *)
Moves(c) ==
  /\ c \in Running
  /\ \A d \in Callers \ {c} : calls'[d] = calls[d]
  /\ left' = left

(* The same call, at a later stage.                                        *)
GoesOn(c) ==
  /\ calls'[c].pc # "idle"
  /\ calls'[c].no = calls[c].no
  /\ calls'[c].req = calls[c].req
  /\ calls'[c].alone = calls[c].alone

LEMMA VersionsStep ==
  ASSUME NEW c \in Callers, Moves(c)
  PROVE  /\ \A V \in Versions' : \/ V = comments' \/ V \in Versions
                                 \/ V = calls'[c].read /\ calls'[c].pc \notin {"idle", "read"}
         /\ \A R \in RowVersions' : \/ R = rows' \/ R \in RowVersions
                                    \/ R = calls'[c].rows /\ calls'[c].pc \in {"link", "ensure", "remove"}
BY DEF Versions, RowVersions, Moves

LEMMA RunningStep ==
  ASSUME NEW c \in Callers, Moves(c)
  PROVE  /\ \A d \in Running' : d \in Running
         /\ \A d \in Running' : d = c \/ calls'[d] = calls[d]
         /\ c \in Running' <=> calls'[c].pc # "idle"
BY DEF Running, Moves

LEMMA SoundStep ==
  ASSUME Sound, left' = left,
         \A V \in Versions' : V \in Versions \/ (/\ IsFiniteSet(V)
                                                 /\ \A d \in V : d.para <= Used
                                                 /\ \A d, e \in V : d.id = e.id => d = e),
         \A R \in RowVersions' : R \in RowVersions \/ \A r \in R : r.para \in 1..Used /\ r.parent <= Used,
         \A s \in settled' : s \in settled \/ s.para <= Used
  PROVE  Sound'
<1>1. Used' = Used
  BY DEF Used
<1> QED BY <1>1 DEF Sound

LEMMA StagedStep ==
  ASSUME Staged, NEW c \in Callers, Moves(c),
         calls'[c].pc = "idle" \/ (GoesOn(c) /\ AtStage(calls'[c]))
  PROVE  Staged'
<1>1. Used' = Used
  BY DEF Used, Moves
<1>2. \A x : AtStage(x)' <=> AtStage(x)
  BY <1>1 DEF AtStage
<1> SUFFICES ASSUME NEW d \in Running'
             PROVE  /\ AtStage(calls'[d])
                    /\ calls'[d].alone => \A e \in Running' : e = d
  BY <1>1 DEF Staged, AtStage
<1>3. d \in Running /\ Running' \subseteq Running
  BY RunningStep
<1>4. AtStage(calls[d]) /\ (calls[d].alone => \A e \in Running : e = d)
  BY <1>3 DEF Staged
<1>5. CASE d = c
  BY <1>3, <1>4, <1>5, RunningStep DEF GoesOn
<1>6. CASE d # c
  BY <1>3, <1>4, <1>6, RunningStep
<1> QED BY <1>5, <1>6

(* Only the call that moves can have overlapped no other.                  *)
LEMMA AloneStep ==
  ASSUME Staged, NEW c \in Callers, Moves(c),
         calls'[c].pc = "idle" \/ (GoesOn(c) /\ (calls[c].alone => Written(c)'))
  PROVE  AloneWrites'
<1> SUFFICES ASSUME NEW d \in Running', calls'[d].alone
             PROVE  Written(d)'
  BY DEF AloneWrites
<1>1. d \in Running /\ c \in Running
  BY RunningStep DEF Moves
<1>2. CASE d # c
  BY <1>1, <1>2, RunningStep DEF Staged
<1>3. CASE d = c
  BY <1>3, RunningStep DEF GoesOn
<1> QED BY <1>2, <1>3

LEMMA KeptStep ==
  ASSUME Kept,
         \A s \in settled' : s \in settled,
         \A V \in Versions' : V \in Versions \/ \A s \in settled : DefinedBy(V, s.id, s.para, s.by),
         \A R \in RowVersions' :
           R \in RowVersions \/ \A s \in settled : s.parent # 0 => Row(s.para, s.parent) \in R,
         \A s \in settled : s.by \in people',
         \A d \in Callers : calls'[d].pc = "people" =>
           \/ calls[d].pc = "people" /\ calls'[d].people = calls[d].people
           \/ calls'[d].people = people,
         \A s \in settled : MarkedBy(s.para, s.id) => MarkedBy(s.para, s.id)'
  PROVE  Kept'
<1> SUFFICES ASSUME NEW s \in settled'
             PROVE  /\ \A V \in Versions' : DefinedBy(V, s.id, s.para, s.by)
                    /\ s.parent # 0 => \A R \in RowVersions' : Row(s.para, s.parent) \in R
                    /\ s.by \in people'
                    /\ \A d \in Callers : calls'[d].pc = "people" => s.by \in calls'[d].people
                    /\ s.parent = 0 => MarkedBy(s.para, s.id)'
  BY DEF Kept, DefinedBy, Row
<1>1. s \in settled
  OBVIOUS
<1>2. \A V \in Versions' : DefinedBy(V, s.id, s.para, s.by)
  BY <1>1 DEF Kept
<1>3. s.parent # 0 => \A R \in RowVersions' : Row(s.para, s.parent) \in R
  BY <1>1 DEF Kept
<1>4. s.by \in people' /\ \A d \in Callers : calls'[d].pc = "people" => s.by \in calls'[d].people
  BY <1>1 DEF Kept
<1>5. s.parent = 0 => MarkedBy(s.para, s.id)'
  BY <1>1 DEF Kept
<1> QED BY <1>2, <1>3, <1>4, <1>5

(* A version agrees with one there was on the comments out of reach.       *)
LEMMA ReachStep ==
  ASSUME Reach, left' = left,
         NEW c \in Callers, Moves(c), calls'[c].pc = "idle" \/ GoesOn(c),
         \A s \in settled' : s \in settled,
         \A K : OutOfReach(K) =>
           /\ \A V \in Versions' : V \in Versions \/ \E W \in Versions :
                \A d : d \in V \cup W /\ d.para \in K => d \in V /\ d \in W
           /\ \A R \in RowVersions' : R \in RowVersions \/ \E Q \in RowVersions :
                \A r : r \in Q \cup R /\ r.para \in K => r.parent = 0 \/ (r \in Q /\ r \in R)
  PROVE  Reach'
<1>1. PICK K \in SUBSET (1..Used) : OutOfReach(K)
  BY DEF Reach
<1>2. \A s \in settled' : s.para \in K \cup {0}
  BY <1>1 DEF OutOfReach
<1>3. \A V \in Versions' : \E W \in Versions :
        \A d : d \in V \cup W /\ d.para \in K => d \in V /\ d \in W
  BY <1>1
<1>4. \A R \in RowVersions' : \E Q \in RowVersions :
        \A r : r \in Q \cup R /\ r.para \in K => r.parent = 0 \/ (r \in Q /\ r \in R)
  BY <1>1
<1>5. \A V, W \in Versions : \A d \in V : d.para \in K => d \in W
  BY <1>1 DEF OutOfReach
<1>6. \A Q, R \in RowVersions : \A r \in Q :
        r.para \in K => r.parent \in K \cup {0} /\ (r.parent # 0 => r \in R)
  BY <1>1 DEF OutOfReach
<1>7. \A V, W \in Versions' : \A d \in V : d.para \in K => d \in W
  BY <1>3, <1>5
<1>8. \A Q, R \in RowVersions' : \A r \in Q :
        r.para \in K => r.parent \in K \cup {0} /\ (r.parent # 0 => r \in R)
  <2> SUFFICES ASSUME NEW Q \in RowVersions', NEW R \in RowVersions', NEW r \in Q, r.para \in K
               PROVE  r.parent \in K \cup {0} /\ (r.parent # 0 => r \in R)
    OBVIOUS
  <2>1. CASE r.parent = 0
    BY <2>1
  <2>2. CASE r.parent # 0
    <3>1. PICK P \in RowVersions : r \in P
      BY <1>4, <2>2
    <3>2. r.parent \in K /\ \A O \in RowVersions : r \in O
      BY <1>6, <2>2, <3>1
    <3> QED BY <1>4, <2>2, <3>2
  <2> QED BY <2>1, <2>2
<1>9. \A d \in Running' :
        /\ calls'[d].no \notin K
        /\ calls'[d].req.op = "delete" =>
             /\ \A V \in Versions' : \A x \in V : x.id = calls'[d].req.id => x.para \notin K
             /\ \A s \in settled' : s.id # calls'[d].req.id
  <2> SUFFICES ASSUME NEW d \in Running'
               PROVE  /\ calls'[d].no \notin K
                      /\ calls'[d].req.op = "delete" =>
                           /\ \A V \in Versions' : \A x \in V : x.id = calls'[d].req.id => x.para \notin K
                           /\ \A s \in settled' : s.id # calls'[d].req.id
    OBVIOUS
  <2>1. d \in Running /\ calls'[d].no = calls[d].no /\ calls'[d].req = calls[d].req
    BY RunningStep DEF GoesOn
  <2>2. /\ calls[d].no \notin K
        /\ calls[d].req.op = "delete" =>
             /\ \A V \in Versions : \A x \in V : x.id = calls[d].req.id => x.para \notin K
             /\ \A s \in settled : s.id # calls[d].req.id
    BY <1>1, <2>1 DEF OutOfReach
  <2> QED BY <1>3, <2>1, <2>2
<1>10. OutOfReach(K)'
  BY <1>2, <1>7, <1>8, <1>9 DEF OutOfReach
<1>11. Used' = Used
  BY DEF Used
<1> QED BY <1>1, <1>10, <1>11 DEF Reach

-------------------------------------------------------------------------------
(***************************************************************************)
(* Each step keeps what is guarded                                         *)
(***************************************************************************)

LEMMA ReadKeepsGuarded ==
  ASSUME Guarded, NEW c \in Callers, Read(c)
  PROVE  Guarded'
<1> USE DEF Guarded
<1>1. /\ calls[c].pc = "read" /\ calls[c].req.op \in {"add", "reply", "delete"}
      /\ calls' = [calls EXCEPT ![c] = [calls[c] EXCEPT !.read = comments, !.pc = calls[c].req.op]]
      /\ UNCHANGED <<comments, rows, people, marks, left, overlap, rejected, settled>>
  BY DEF Read, Types, CallRecords, Reqs, parts
<1>2. /\ calls'[c].pc = calls[c].req.op /\ calls'[c].read = comments
      /\ calls'[c].parent = calls[c].parent /\ calls'[c].no = calls[c].no
      /\ calls'[c].req = calls[c].req /\ calls'[c].alone = calls[c].alone
  BY <1>1 DEF Types, CallRecords
<1>3. Moves(c) /\ GoesOn(c)
  BY <1>1, <1>2 DEF Types, Moves, GoesOn, Running
<1>4. (\A V \in Versions' : V \in Versions) /\ (\A R \in RowVersions' : R \in RowVersions)
  BY <1>1, <1>2, <1>3, VersionsStep DEF Versions, RowVersions
<1>5. Types'
  BY <1>1 DEF Types, CallRecords, PCs
<1>6. Sound'
  BY <1>1, <1>4, SoundStep
<1>7. Staged' /\ AloneWrites'
  <2>1. c \in Running
    BY <1>1 DEF Running
  <2>2. AtStage(calls'[c]) /\ Written(c)'
    BY <1>1, <1>2, <2>1 DEF Staged, AtStage, Written
  <2> QED BY <1>3, <2>2, StagedStep, AloneStep
<1>8. \A d \in Callers : calls'[d].pc = "people" =>
        calls[d].pc = "people" /\ calls'[d].people = calls[d].people
  BY <1>1, <1>2, <1>3 DEF Moves
<1>9. Kept'
  BY <1>1, <1>4, <1>8, KeptStep DEF Kept, MarkedBy
<1>10. Reach'
  BY <1>1, <1>3, <1>4, ReachStep
<1> QED BY <1>5, <1>6, <1>7, <1>9, <1>10

(* A call that is refused leaves, and nothing else changes.                *)
LEMMA RefuseKeepsGuarded ==
  ASSUME Guarded, NEW c \in Callers, c \in Running, Refuse(c),
         UNCHANGED <<left, overlap, rejected>>
  PROVE  Guarded'
<1> USE DEF Guarded
<1>1. /\ calls' = [calls EXCEPT ![c] = Idle]
      /\ UNCHANGED <<comments, rows, people, marks, left, overlap, rejected, settled>>
  BY DEF Refuse, parts
<1>2. Idle \in CallRecords /\ Idle.pc = "idle"
  BY DEF Idle, NoRoot, CallRecords, Reqs, PCs
<1>3. Moves(c) /\ calls'[c].pc = "idle"
  BY <1>1, <1>2 DEF Types, Moves
<1>4. (\A V \in Versions' : V \in Versions) /\ (\A R \in RowVersions' : R \in RowVersions)
  BY <1>1, <1>3, VersionsStep DEF Versions, RowVersions
<1>5. Types'
  BY <1>1, <1>2 DEF Types
<1>6. Sound'
  BY <1>1, <1>4, SoundStep
<1>7. Staged' /\ AloneWrites'
  BY <1>3, StagedStep, AloneStep
<1>8. \A d \in Callers : calls'[d].pc = "people" =>
        calls[d].pc = "people" /\ calls'[d].people = calls[d].people
  BY <1>3 DEF Moves
<1>9. Kept'
  BY <1>1, <1>4, <1>8, KeptStep DEF Kept, MarkedBy
<1>10. Reach'
  BY <1>1, <1>3, <1>4, ReachStep
<1> QED BY <1>5, <1>6, <1>7, <1>9, <1>10

LEMMA InsertMarkersKeepsGuarded ==
  ASSUME Guarded, NEW c \in Callers, InsertMarkers(c)
  PROVE  Guarded'
<1> USE DEF Guarded
<1> DEFINE id == NextId(calls[c].read)
           mark == Mark(calls[c].no, id, IF Tracked THEN {"ins"} ELSE {})
<1>1. /\ calls[c].pc = "add" /\ marks' = marks \cup {mark}
      /\ calls' = [calls EXCEPT ![c] = [calls[c] EXCEPT !.id = id, !.pc = "write"]]
      /\ UNCHANGED <<comments, rows, people, left, overlap, rejected, settled>>
  BY DEF InsertMarkers, Types, CallRecords
<1>2. /\ calls'[c].pc = "write" /\ calls'[c].id = id /\ calls'[c].read = calls[c].read
      /\ calls'[c].parent = calls[c].parent /\ calls'[c].no = calls[c].no
      /\ calls'[c].req = calls[c].req /\ calls'[c].alone = calls[c].alone
  BY <1>1 DEF Types, CallRecords
<1>3. Moves(c) /\ GoesOn(c)
  BY <1>1, <1>2 DEF Types, Moves, GoesOn, Running
<1>4. calls[c].read \in Versions
  BY <1>1 DEF Versions
<1>5. (\A V \in Versions' : V \in Versions) /\ (\A R \in RowVersions' : R \in RowVersions)
  BY <1>1, <1>2, <1>3, <1>4, VersionsStep DEF Versions, RowVersions
<1>6. id \in Nat /\ calls[c].no \in Nat
  BY <1>4, VersionsAreTyped, NextIdIsFresh DEF Sound, Types, CallRecords
<1>7. mark \in Marks /\ mark.n = calls[c].no /\ mark.id = id /\ mark.range /\ mark.ref /\ "del" \notin mark.in
  BY <1>6 DEF Mark, Marks
<1> HIDE DEF mark
<1>8. Types'
  <2>1. calls' \in [Callers -> CallRecords]
    BY <1>1, <1>6 DEF Types, CallRecords, PCs
  <2> QED BY <1>1, <1>7, <2>1 DEF Types
<1>9. Sound'
  BY <1>1, <1>5, SoundStep
<1>10. Staged' /\ AloneWrites'
  <2>1. c \in Running
    BY <1>1 DEF Running
  <2>2. AtStage(calls'[c])
    BY <1>1, <1>2, <2>1 DEF Staged, AtStage
  <2>3. MarkedBy(calls[c].no, id)'
    BY <1>1, <1>7 DEF MarkedBy
  <2>4. Written(c)'
    BY <1>2, <2>3 DEF Written
  <2> QED BY <1>3, <2>2, <2>4, StagedStep, AloneStep
<1>11. Kept'
  <2>1. \A d \in Callers : calls'[d].pc = "people" =>
          calls[d].pc = "people" /\ calls'[d].people = calls[d].people
    BY <1>1, <1>2, <1>3 DEF Moves
  <2>2. \A s \in settled : MarkedBy(s.para, s.id) => MarkedBy(s.para, s.id)'
    BY <1>1 DEF MarkedBy
  <2> QED BY <1>1, <1>5, <2>1, <2>2, KeptStep DEF Kept
<1>12. Reach'
  BY <1>1, <1>3, <1>5, ReachStep
<1> QED BY <1>8, <1>9, <1>10, <1>11, <1>12

LEMMA WriteRootKeepsGuarded ==
  ASSUME Guarded, NEW c \in Callers, WriteRoot(c)
  PROVE  Guarded'
<1> USE DEF Guarded
<1> DEFINE id == NextId(calls[c].read)
           def == [id |-> id, para |-> calls[c].no, last |-> calls[c].no, by |-> c]
<1>1. c \in Running /\ calls[c].pc = "write" /\ calls[c].id = id
  BY DEF WriteRoot, Running, Staged, AtStage
<1>2. /\ comments' = Added(c, id)
      /\ calls' = [calls EXCEPT ![c] = [calls[c] EXCEPT !.people = people, !.pc = "people"]]
      /\ UNCHANGED <<rows, people, marks, left, overlap, rejected, settled>>
  BY <1>1 DEF WriteRoot, Types, CallRecords
<1>3. /\ calls'[c].pc = "people" /\ calls'[c].people = people /\ calls'[c].id = id
      /\ calls'[c].parent = calls[c].parent /\ calls'[c].no = calls[c].no
      /\ calls'[c].req = calls[c].req /\ calls'[c].alone = calls[c].alone
      /\ calls'[c].read = calls[c].read
  BY <1>1, <1>2 DEF Types, CallRecords
<1>4. Moves(c) /\ GoesOn(c)
  BY <1>1, <1>2, <1>3 DEF Types, Moves, GoesOn, Running
<1>5. calls[c].read \in Versions /\ calls[c].no \in 1..Used
  BY <1>1 DEF Versions, Staged, AtStage
<1>6. /\ id \in Nat /\ def \in Defs
      /\ IsFiniteSet(Added(c, id)) /\ Added(c, id) = calls[c].read \cup {def}
      /\ Added(c, id) \subseteq Defs
      /\ \A d, e \in Added(c, id) : d.id = e.id => d = e
  BY <1>5, AddedKeepsIdsUnique DEF Sound
<1>7. /\ \A V \in Versions' : V \in Versions \/ V = Added(c, id)
      /\ \A R \in RowVersions' : R \in RowVersions
  BY <1>2, <1>3, <1>4, <1>5, VersionsStep DEF RowVersions
<1>8. def.para = calls[c].no /\ def.id = id /\ def.by = c
  OBVIOUS
<1> HIDE DEF def, id
<1>9. Types'
  <2>1. calls' \in [Callers -> CallRecords]
    BY <1>2 DEF Types, CallRecords, PCs
  <2> QED BY <1>2, <1>6, <2>1 DEF Types
<1>10. Sound'
  <2>1. \A d \in Added(c, id) : d.para <= Used
    BY <1>5, <1>6, <1>8 DEF Sound
  <2> QED BY <1>2, <1>6, <1>7, <2>1, SoundStep
<1>11. Staged'
  <2>1. AtStage(calls'[c])
    BY <1>1, <1>3 DEF Staged, AtStage
  <2> QED BY <1>4, <2>1, StagedStep
<1>12. AloneWrites'
  <2>1. ASSUME calls[c].alone PROVE Written(c)'
    <3>1. calls[c].req.op = "add" /\ MarkedBy(calls[c].no, id)
      BY <1>1, <2>1 DEF AloneWrites, Written, Staged, AtStage
    <3>2. MarkedBy(calls[c].no, calls[c].id)'
      BY <1>2, <1>3, <3>1 DEF MarkedBy
    <3>3. DefinedBy(comments, calls[c].id, calls[c].no, c)'
      BY <1>2, <1>3, <1>6, <1>8 DEF DefinedBy
    <3>4. calls'[c].people = people'
      BY <1>2, <1>3
    <3> QED BY <1>3, <3>1, <3>2, <3>3, <3>4 DEF Written
  <2> QED BY <1>4, <2>1, AloneStep
<1>13. Kept'
  <2>1. \A s \in settled : DefinedBy(Added(c, id), s.id, s.para, s.by)
    BY <1>5, <1>6 DEF Kept, DefinedBy
  <2>2. \A d \in Callers : calls'[d].pc = "people" =>
          \/ calls[d].pc = "people" /\ calls'[d].people = calls[d].people
          \/ calls'[d].people = people
    BY <1>3, <1>4 DEF Moves
  <2> QED BY <1>2, <1>7, <2>1, <2>2, KeptStep DEF Kept, MarkedBy
<1>14. Reach'
  <2>1. ASSUME NEW K, OutOfReach(K)
        PROVE  \A d : d \in Added(c, id) \cup calls[c].read /\ d.para \in K
                        => d \in Added(c, id) /\ d \in calls[c].read
    BY <1>1, <1>6, <1>8, <2>1 DEF OutOfReach
  <2> QED BY <1>2, <1>4, <1>5, <1>7, <2>1, ReachStep
<1> QED BY <1>9, <1>10, <1>11, <1>12, <1>13, <1>14

LEMMA WriteReplyKeepsGuarded ==
  ASSUME Guarded, NEW c \in Callers, WriteReply(c)
  PROVE  Guarded'
<1> USE DEF Guarded
<1> DEFINE id == NextId(calls[c].read)
           def == [id |-> id, para |-> calls[c].no, last |-> calls[c].no, by |-> c]
           up == Definition(calls[c].read, calls[c].req.id)
<1>1. c \in Running /\ calls[c].pc = "reply"
  BY DEF WriteReply, Running
<1>2. CASE Refuse(c)
  BY <1>1, <1>2, RefuseKeepsGuarded DEF WriteReply
<1>3. CASE ~Refuse(c)
  <2>1. /\ Defined(calls[c].read, calls[c].req.id) /\ up.para # 0
        /\ comments' = Added(c, id)
        /\ calls' = [calls EXCEPT ![c] = [calls[c] EXCEPT !.id = id, !.parent = up.para,
                                                          !.rows = rows, !.pc = "link"]]
        /\ UNCHANGED <<rows, people, marks, left, overlap, rejected, settled>>
    BY <1>3 DEF WriteReply, Types, CallRecords
  <2>2. /\ calls'[c].pc = "link" /\ calls'[c].id = id /\ calls'[c].parent = up.para
        /\ calls'[c].rows = rows /\ calls'[c].no = calls[c].no
        /\ calls'[c].req = calls[c].req /\ calls'[c].alone = calls[c].alone
    BY <2>1 DEF Types, CallRecords
  <2>3. Moves(c) /\ GoesOn(c)
    BY <1>1, <2>1, <2>2 DEF Types, Moves, GoesOn
  <2>4. calls[c].read \in Versions /\ calls[c].no \in 1..Used /\ Used \in Int
    BY <1>1, CommentPartsAssumption, FileAssumption DEF Versions, Staged, AtStage, Used, Types
  <2>5. /\ id \in Nat /\ def \in Defs
        /\ IsFiniteSet(Added(c, id)) /\ Added(c, id) = calls[c].read \cup {def}
        /\ Added(c, id) \subseteq Defs
        /\ \A d, e \in Added(c, id) : d.id = e.id => d = e
    BY <2>4, AddedKeepsIdsUnique DEF Sound
  <2>6. up.para \in 1..Used
    <3>1. up \in calls[c].read
      BY <2>1, DefinitionIsThere
    <3>2. up.para \in Nat /\ up.para <= Used
      BY <2>4, <3>1, VersionsAreTyped DEF Sound, Defs
    <3> HIDE DEF up
    <3> QED BY <2>1, <2>4, <3>2
  <2>7. /\ \A V \in Versions' : V \in Versions \/ V = Added(c, id)
        /\ \A R \in RowVersions' : R \in RowVersions
    <3>1. rows \in RowVersions
      BY DEF RowVersions
    <3>2. \A V \in Versions' : V \in Versions \/ V = Added(c, id)
      <4>1. calls'[c].read = calls[c].read
        BY <2>1 DEF Types, CallRecords
      <4> QED BY <2>1, <2>3, <2>4, <4>1, VersionsStep
    <3> QED BY <2>1, <2>2, <2>3, <3>1, <3>2, VersionsStep
  <2>8. def.para = calls[c].no /\ def.id = id /\ def.by = c
    OBVIOUS
  <2> HIDE DEF def, id, up
  <2>9. Types'
    <3>1. up.para \in Nat
      BY <2>4, <2>6
    <3>2. [calls[c] EXCEPT !.id = id, !.parent = up.para, !.rows = rows, !.pc = "link"] \in CallRecords
      <4>1. rows \in SUBSET Rows /\ calls[c] \in CallRecords
        BY DEF Types
      <4> QED BY <2>5, <3>1, <4>1 DEF CallRecords, PCs
    <3>3. calls' \in [Callers -> CallRecords]
      BY <2>1, <3>2 DEF Types
    <3> QED BY <2>1, <2>5, <3>3 DEF Types
  <2>10. Sound'
    <3>1. \A d \in Added(c, id) : d.para <= Used
      BY <2>4, <2>5, <2>8 DEF Sound
    <3> QED BY <2>1, <2>5, <2>7, <3>1, SoundStep
  <2>11. Staged' /\ AloneWrites'
    <3>1. calls[c].req.op = "reply"
      BY <1>1 DEF Staged, AtStage
    <3>2. AtStage(calls'[c])
      BY <1>1, <2>2, <2>4, <2>6, <3>1 DEF AtStage
    <3>3. DefinedBy(comments, calls[c].id, calls[c].no, c)'
      BY <2>1, <2>2, <2>5, <2>8 DEF DefinedBy
    <3>4. Written(c)'
      BY <2>2, <3>3 DEF Written
    <3> QED BY <2>3, <3>2, <3>4, StagedStep, AloneStep
  <2>12. Kept'
    <3>1. \A s \in settled : DefinedBy(Added(c, id), s.id, s.para, s.by)
      BY <2>4, <2>5 DEF Kept, DefinedBy
    <3>2. \A d \in Callers : calls'[d].pc = "people" =>
            calls[d].pc = "people" /\ calls'[d].people = calls[d].people
      BY <2>2, <2>3 DEF Moves
    <3> QED BY <2>1, <2>7, <3>1, <3>2, KeptStep DEF Kept, MarkedBy
  <2>13. Reach'
    <3>1. ASSUME NEW K, OutOfReach(K)
          PROVE  \A d : d \in Added(c, id) \cup calls[c].read /\ d.para \in K
                          => d \in Added(c, id) /\ d \in calls[c].read
      BY <1>1, <2>5, <2>8, <3>1 DEF OutOfReach
    <3> QED BY <2>1, <2>3, <2>4, <2>7, <3>1, ReachStep
  <2> QED BY <2>9, <2>10, <2>11, <2>12, <2>13
<1> QED BY <1>2, <1>3

LEMMA LinkKeepsGuarded ==
  ASSUME Guarded, NEW c \in Callers, Link(c)
  PROVE  Guarded'
<1> USE DEF Guarded
<1> DEFINE row == Row(calls[c].no, calls[c].parent)
<1>1. c \in Running /\ calls[c].pc = "link"
  BY DEF Link, Running
<1>2. /\ rows' = calls[c].rows \cup {row}
      /\ calls' = [calls EXCEPT ![c] = [calls[c] EXCEPT !.rows = rows', !.pc = "ensure"]]
      /\ UNCHANGED <<comments, people, marks, left, overlap, rejected, settled>>
  BY DEF Link, Row, Types, CallRecords
<1>3. /\ calls'[c].pc = "ensure" /\ calls'[c].rows = rows' /\ calls'[c].id = calls[c].id
      /\ calls'[c].parent = calls[c].parent /\ calls'[c].no = calls[c].no
      /\ calls'[c].req = calls[c].req /\ calls'[c].alone = calls[c].alone
      /\ calls'[c].read = calls[c].read
  BY <1>2 DEF Types, CallRecords
<1>4. Moves(c) /\ GoesOn(c)
  BY <1>1, <1>2, <1>3 DEF Types, Moves, GoesOn
<1>5. calls[c].rows \in RowVersions /\ calls[c].no \in 1..Used /\ calls[c].parent \in 1..Used
  BY <1>1 DEF RowVersions, Staged, AtStage
<1>6. /\ \A V \in Versions' : V \in Versions
      /\ \A R \in RowVersions' : R \in RowVersions \/ R = rows'
  BY <1>1, <1>2, <1>3, <1>4, VersionsStep DEF Versions
<1>7. row \in Rows /\ row.para = calls[c].no /\ row.parent = calls[c].parent
  BY DEF Types, CallRecords, Row, Rows
<1> HIDE DEF row
<1>8. Types'
  <2>1. rows' \subseteq Rows
    BY <1>2, <1>5, <1>7, VersionsAreTyped
  <2>2. calls' \in [Callers -> CallRecords]
    <3>1. rows' \in SUBSET Rows /\ calls[c] \in CallRecords
      BY <2>1 DEF Types
    <3>2. [calls[c] EXCEPT !.rows = rows', !.pc = "ensure"] \in CallRecords
      BY <3>1 DEF CallRecords, PCs
    <3> QED BY <1>2, <3>2 DEF Types
  <2> QED BY <1>2, <2>1, <2>2 DEF Types
<1>9. Sound'
  <2>1. \A r \in rows' : r.para \in 1..Used /\ r.parent <= Used
    BY <1>2, <1>5, <1>7 DEF Sound
  <2> QED BY <1>2, <1>6, <2>1, SoundStep
<1>10. Staged' /\ AloneWrites'
  <2>1. AtStage(calls'[c])
    BY <1>1, <1>3, <1>5 DEF Staged, AtStage
  <2>2. ASSUME calls[c].alone PROVE Written(c)'
    <3>1. DefinedBy(comments, calls[c].id, calls[c].no, c)'
      BY <1>1, <1>2, <1>3, <2>2 DEF AloneWrites, Written, DefinedBy
    <3>2. Row(calls[c].no, calls[c].parent)' \in rows'
      BY <1>2, <1>3 DEF row, Row
    <3> QED BY <1>3, <3>1, <3>2 DEF Written
  <2> QED BY <1>4, <2>1, <2>2, StagedStep, AloneStep
<1>11. Kept'
  <2>1. \A s \in settled : s.parent # 0 => Row(s.para, s.parent) \in rows'
    BY <1>2, <1>5 DEF Kept
  <2>2. \A d \in Callers : calls'[d].pc = "people" =>
          calls[d].pc = "people" /\ calls'[d].people = calls[d].people
    BY <1>3, <1>4 DEF Moves
  <2> QED BY <1>2, <1>6, <2>1, <2>2, KeptStep DEF Kept, MarkedBy
<1>12. Reach'
  <2>1. ASSUME NEW K, OutOfReach(K)
        PROVE  \A r : r \in calls[c].rows \cup rows' /\ r.para \in K
                        => r \in calls[c].rows /\ r \in rows'
    BY <1>1, <1>2, <1>7, <2>1 DEF OutOfReach
  <2> QED BY <1>2, <1>4, <1>5, <1>6, <2>1, ReachStep
<1> QED BY <1>8, <1>9, <1>10, <1>11, <1>12

LEMMA EnsureKeepsGuarded ==
  ASSUME Guarded, NEW c \in Callers, Ensure(c)
  PROVE  Guarded'
<1> USE DEF Guarded
<1> DEFINE row == Row(calls[c].parent, 0)
<1>1. c \in Running /\ calls[c].pc = "ensure"
  BY DEF Ensure, Running
<1>2. /\ rows' = rows \/ rows' = calls[c].rows \cup {row}
      /\ calls' = [calls EXCEPT ![c] = [calls[c] EXCEPT !.people = people, !.pc = "people"]]
      /\ UNCHANGED <<comments, people, marks, left, overlap, rejected, settled>>
  BY DEF Ensure, Row, Types, CallRecords
<1>3. /\ calls'[c].pc = "people" /\ calls'[c].people = people /\ calls'[c].id = calls[c].id
      /\ calls'[c].parent = calls[c].parent /\ calls'[c].no = calls[c].no
      /\ calls'[c].req = calls[c].req /\ calls'[c].alone = calls[c].alone
      /\ calls'[c].read = calls[c].read
  BY <1>2 DEF Types, CallRecords
<1>4. Moves(c) /\ GoesOn(c)
  BY <1>1, <1>2, <1>3 DEF Types, Moves, GoesOn
<1>5. /\ calls[c].rows \in RowVersions /\ rows \in RowVersions
      /\ calls[c].parent \in 1..Used /\ calls[c].req.op = "reply"
  BY <1>1 DEF RowVersions, Staged, AtStage
<1>6. /\ \A V \in Versions' : V \in Versions
      /\ \A R \in RowVersions' : R \in RowVersions \/ R = calls[c].rows \cup {row}
  BY <1>1, <1>2, <1>3, <1>4, <1>5, VersionsStep DEF Versions
<1>7. row \in Rows /\ row.para = calls[c].parent /\ row.parent = 0 /\ Used \in Nat
  BY CommentPartsAssumption, FileAssumption DEF Types, CallRecords, Row, Rows, Used
<1> HIDE DEF row
<1>8. Types'
  <2>1. rows' \subseteq Rows
    BY <1>2, <1>5, <1>7, VersionsAreTyped
  <2>2. calls' \in [Callers -> CallRecords]
    BY <1>2 DEF Types, CallRecords, PCs
  <2> QED BY <1>2, <2>1, <2>2 DEF Types
<1>9. Sound'
  <2>1. \A r \in calls[c].rows \cup {row} : r.para \in 1..Used /\ r.parent <= Used
    BY <1>5, <1>7 DEF Sound
  <2> QED BY <1>2, <1>6, <2>1, SoundStep
<1>10. Staged' /\ AloneWrites'
  <2>1. AtStage(calls'[c])
    <3>1. calls[c].parent # 0 /\ calls[c].no \in 1..Used
      BY <1>1, <1>5 DEF Staged, AtStage
    <3> QED BY <1>3, <1>5, <3>1 DEF AtStage
  <2>2. ASSUME calls[c].alone PROVE Written(c)'
    <3>1. DefinedBy(comments, calls[c].id, calls[c].no, c)'
      BY <1>1, <1>2, <1>3, <2>2 DEF AloneWrites, Written, DefinedBy
    <3>2. Row(calls[c].no, calls[c].parent)' \in rows'
      <4>1. Row(calls[c].no, calls[c].parent) \in rows \cap calls[c].rows
        BY <1>1, <1>5, <2>2 DEF AloneWrites, Written
      <4>2. Row(calls[c].no, calls[c].parent)' = Row(calls[c].no, calls[c].parent)
        BY <1>3 DEF Row
      <4> QED BY <1>2, <4>1, <4>2
    <3>3. calls'[c].people = people'
      BY <1>2, <1>3
    <3> QED BY <1>3, <1>5, <3>1, <3>2, <3>3 DEF Written
  <2> QED BY <1>4, <2>1, <2>2, StagedStep, AloneStep
<1>11. Kept'
  <2>1. \A s \in settled : s.parent # 0 => Row(s.para, s.parent) \in calls[c].rows \cup {row}
    BY <1>5 DEF Kept
  <2>2. \A d \in Callers : calls'[d].pc = "people" =>
          \/ calls[d].pc = "people" /\ calls'[d].people = calls[d].people
          \/ calls'[d].people = people
    BY <1>3, <1>4 DEF Moves
  <2> QED BY <1>2, <1>6, <2>1, <2>2, KeptStep DEF Kept, MarkedBy
<1>12. Reach'
  <2>1. \A r : r \in calls[c].rows \cup (calls[c].rows \cup {row})
                 => r.parent = 0 \/ (r \in calls[c].rows /\ r \in calls[c].rows \cup {row})
    BY <1>7
  <2> QED BY <1>2, <1>4, <1>5, <1>6, <2>1, ReachStep
<1> QED BY <1>8, <1>9, <1>10, <1>11, <1>12

LEMMA AddAuthorKeepsGuarded ==
  ASSUME Guarded, NEW c \in Callers, AddAuthor(c)
  PROVE  Guarded'
<1> USE DEF Guarded
<1> DEFINE new == [id |-> calls[c].id, para |-> calls[c].no, by |-> c, parent |-> calls[c].parent]
<1>1. c \in Running /\ calls[c].pc = "people"
  BY DEF AddAuthor, Running
<1>2. /\ people' = people \/ people' = calls[c].people \cup {c}
      /\ c \in calls[c].people \/ c \in people'
      /\ calls' = [calls EXCEPT ![c] = Idle]
      /\ settled' = settled \cup {s \in {new} : calls[c].alone}
      /\ UNCHANGED <<comments, rows, marks, left, overlap, rejected>>
  BY DEF AddAuthor
<1>3. Idle \in CallRecords /\ Idle.pc = "idle"
  BY DEF Idle, NoRoot, CallRecords, Reqs, PCs
<1>4. Moves(c) /\ calls'[c].pc = "idle"
  BY <1>1, <1>2, <1>3 DEF Types, Moves
<1>5. (\A V \in Versions' : V \in Versions) /\ (\A R \in RowVersions' : R \in RowVersions)
  BY <1>2, <1>4, VersionsStep DEF Versions, RowVersions
<1>6. /\ new \in [id : Nat, para : Nat, by : Authors, parent : Nat]
      /\ new.para \in 1..Used /\ new.id = calls[c].id /\ new.para = calls[c].no
      /\ new.by = c /\ new.parent = calls[c].parent
  BY <1>1 DEF Types, CallRecords, Authors, Staged, AtStage
<1> HIDE DEF new
<1>7. Types'
  <2>1. people' \subseteq Authors
    BY <1>2 DEF Types, CallRecords, Authors
  <2>2. calls' \in [Callers -> CallRecords]
    BY <1>2, <1>3 DEF Types
  <2>3. settled' \subseteq [id : Nat, para : Nat, by : Authors, parent : Nat]
    BY <1>2, <1>6 DEF Types
  <2> QED BY <1>2, <2>1, <2>2, <2>3 DEF Types
<1>8. Sound'
  <2>1. \A s \in settled' : s \in settled \/ s.para <= Used
    BY <1>2, <1>6
  <2> QED BY <1>2, <1>5, <2>1, SoundStep
<1>9. Staged' /\ AloneWrites'
  BY <1>4, StagedStep, AloneStep
<1>10. \A s \in settled : s.by \in people'
  BY <1>1, <1>2 DEF Kept
<1>11. CASE ~calls[c].alone
  <2>1. settled' = settled
    BY <1>2, <1>11
  <2>2. \A d \in Callers : calls'[d].pc = "people" =>
          calls[d].pc = "people" /\ calls'[d].people = calls[d].people
    BY <1>4 DEF Moves
  <2>3. Kept'
    BY <1>2, <1>5, <1>10, <2>1, <2>2, KeptStep DEF MarkedBy
  <2>4. Reach'
    BY <1>2, <1>4, <1>5, <2>1, ReachStep
  <2> QED BY <1>7, <1>8, <1>9, <2>3, <2>4
<1>12. CASE calls[c].alone
  <2>1. Running' = {}
    BY <1>1, <1>4, <1>12, RunningStep DEF Staged
  <2>2. Versions' = {comments} /\ RowVersions' = {rows}
    BY <1>2, <2>1 DEF Versions, RowVersions, Running
  <2>3. settled' = settled \cup {new}
    BY <1>2, <1>12
  <2>4. /\ DefinedBy(comments, new.id, new.para, new.by)
        /\ new.parent # 0 => Row(new.para, new.parent) \in rows
        /\ new.parent = 0 => MarkedBy(new.para, new.id)
        /\ new.by \in people'
    <3>1. Written(c) /\ AtStage(calls[c])
      BY <1>1, <1>12 DEF AloneWrites, Staged
    <3>2. calls[c].req.op = "add" \/ calls[c].req.op = "reply"
      BY <1>1, <3>1 DEF AtStage, Types, CallRecords, Reqs
    <3>3. calls[c].req.op = "add" => calls[c].parent = 0
      BY <3>1 DEF AtStage
    <3>4. calls[c].req.op = "reply" => calls[c].parent # 0
      BY <1>1, <3>1 DEF AtStage
    <3>5. c \in people'
      BY <1>1, <1>2, <3>1 DEF Written
    <3> QED BY <1>1, <1>6, <3>1, <3>2, <3>3, <3>4, <3>5 DEF Written
  <2>5. Kept'
    <3>1. \A s \in settled' :
            /\ DefinedBy(comments, s.id, s.para, s.by)
            /\ s.parent # 0 => Row(s.para, s.parent) \in rows
            /\ s.by \in people'
            /\ s.parent = 0 => MarkedBy(s.para, s.id)
      BY <1>10, <2>3, <2>4 DEF Kept, Versions, RowVersions
    <3> SUFFICES ASSUME NEW s \in settled'
                 PROVE  /\ DefinedBy(comments, s.id, s.para, s.by)
                        /\ s.parent # 0 => Row(s.para, s.parent) \in rows
                        /\ s.by \in people'
                        /\ \A d \in Callers : calls'[d].pc # "people"
                        /\ s.parent = 0 => MarkedBy(s.para, s.id)'
      BY <2>2 DEF Kept, DefinedBy, Row
    <3>2. \A d \in Callers : calls'[d].pc # "people"
      BY <2>1 DEF Running
    <3>3. s.parent = 0 => MarkedBy(s.para, s.id)'
      BY <1>2, <3>1 DEF MarkedBy
    <3> QED BY <3>1, <3>2, <3>3
  <2>6. OutOfReach(1..Used)'
    <3>1. Used' = Used /\ Used \in Nat
      BY <1>2, CommentPartsAssumption, FileAssumption DEF Used, Types
    <3>2. \A s \in settled' : s.para \in (1..Used) \cup {0}
      <4>1. \A s \in settled : s.para \in Nat /\ s.para <= Used
        BY DEF Types, Sound
      <4> QED BY <1>6, <2>3, <3>1, <4>1
    <3>3. \A r \in rows : r.parent \in (1..Used) \cup {0}
      <4>1. rows \in RowVersions /\ rows \subseteq Rows
        BY DEF RowVersions, Types
      <4> QED BY <3>1, <4>1 DEF Sound, Rows
    <3> QED BY <2>1, <2>2, <3>1, <3>2, <3>3 DEF OutOfReach
  <2>7. Reach'
    BY <2>6 DEF Reach
  <2> QED BY <1>7, <1>8, <1>9, <2>5, <2>7
<1> QED BY <1>11, <1>12

LEMMA FindTargetKeepsGuarded ==
  ASSUME Guarded, NEW c \in Callers, FindTarget(c)
  PROVE  Guarded'
<1> USE DEF Guarded
<1>1. c \in Running /\ calls[c].pc = "delete"
  BY DEF FindTarget, Running
<1>2. CASE Refuse(c)
  BY <1>1, <1>2, RefuseKeepsGuarded DEF FindTarget
<1>3. CASE ~Refuse(c)
  <2>1. /\ Defined(calls[c].read, calls[c].req.id)
        /\ calls' = [calls EXCEPT ![c] = [calls[c] EXCEPT !.rows = rows, !.pc = "remove"]]
        /\ UNCHANGED <<comments, rows, people, marks, left, overlap, rejected, settled>>
    BY <1>3 DEF FindTarget, parts, Types, CallRecords
  <2>2. /\ calls'[c].pc = "remove" /\ calls'[c].rows = rows /\ calls'[c].read = calls[c].read
        /\ calls'[c].parent = calls[c].parent /\ calls'[c].no = calls[c].no
        /\ calls'[c].req = calls[c].req /\ calls'[c].alone = calls[c].alone
    BY <2>1 DEF Types, CallRecords
  <2>3. Moves(c) /\ GoesOn(c)
    BY <1>1, <2>1, <2>2 DEF Types, Moves, GoesOn
  <2>4. calls[c].read \in Versions /\ rows \in RowVersions
    BY <1>1 DEF Versions, RowVersions
  <2>5. (\A V \in Versions' : V \in Versions) /\ (\A R \in RowVersions' : R \in RowVersions)
    BY <2>1, <2>2, <2>3, <2>4, VersionsStep DEF Versions
  <2>6. Types'
    <3>1. rows \in SUBSET Rows /\ calls[c] \in CallRecords
      BY DEF Types
    <3>2. [calls[c] EXCEPT !.rows = rows, !.pc = "remove"] \in CallRecords
      BY <3>1 DEF CallRecords, PCs
    <3> QED BY <2>1, <3>2 DEF Types
  <2>7. Sound'
    BY <2>1, <2>5, SoundStep
  <2>8. Staged' /\ AloneWrites'
    <3>1. AtStage(calls'[c]) /\ Written(c)'
      BY <1>1, <2>1, <2>2 DEF Staged, AtStage, Written
    <3> QED BY <2>3, <3>1, StagedStep, AloneStep
  <2>9. \A d \in Callers : calls'[d].pc = "people" =>
          calls[d].pc = "people" /\ calls'[d].people = calls[d].people
    BY <2>2, <2>3 DEF Moves
  <2>10. Kept'
    BY <2>1, <2>5, <2>9, KeptStep DEF Kept, MarkedBy
  <2>11. Reach'
    BY <2>1, <2>3, <2>5, ReachStep
  <2> QED BY <2>6, <2>7, <2>8, <2>10, <2>11
<1> QED BY <1>2, <1>3

(* What a deletion takes away is within its reach, and no settled comment. *)
LEMMA RemovedIsWithinReach ==
  ASSUME Guarded, NEW c \in Running, calls[c].pc = "remove", NEW K, OutOfReach(K)
  PROVE  LET paras == Thread(calls[c].rows, Definition(calls[c].read, calls[c].req.id).para)
             ids == {calls[c].req.id} \cup {d.id : d \in {x \in calls[c].read : x.para \in paras}} IN
         /\ paras \cap (K \cup {0}) = {}
         /\ \A d \in calls[c].read : d.para \in K => d.id \notin ids
         /\ \A s \in settled : s.id \notin ids /\ s.para \notin paras
<1> USE DEF Guarded
<1> DEFINE target == Definition(calls[c].read, calls[c].req.id)
           paras == Thread(calls[c].rows, target.para)
           ids == {calls[c].req.id} \cup {d.id : d \in {x \in calls[c].read : x.para \in paras}}
<1>1. /\ c \in Callers /\ calls[c].req.op = "delete" /\ Defined(calls[c].read, calls[c].req.id)
      /\ calls[c].read \in Versions /\ calls[c].rows \in RowVersions
  BY DEF Running, Staged, AtStage, Versions, RowVersions
<1>2. target \in calls[c].read /\ target.id = calls[c].req.id
  BY <1>1, DefinitionIsThere
<1>3. /\ \A d \in calls[c].read : d.id = calls[c].req.id => d.para \notin K
      /\ \A s \in settled : s.id # calls[c].req.id
  BY <1>1 DEF OutOfReach
<1>4. target.para \in Nat /\ target.para \notin K
  BY <1>1, <1>2, <1>3, VersionsAreTyped DEF Defs
<1>5. calls[c].rows \in SUBSET Rows
  BY <1>1, VersionsAreTyped
<1>6. \A r \in calls[c].rows : r.para # 0 /\ (r.para \in K => r.parent \in K \cup {0})
  BY <1>1 DEF OutOfReach, Sound
<1> HIDE DEF target
<1>7. paras \cap (K \cup {0}) = {}
  BY <1>4, <1>5, <1>6, ThreadWithinReach
<1> HIDE DEF paras
<1>8. \A d, e \in calls[c].read : d.id = e.id => d = e
  BY <1>1 DEF Sound
<1>9. \A d \in calls[c].read : d.para \in K \cup {0} /\ d.id # calls[c].req.id => d.id \notin ids
  BY <1>7, <1>8
<1>10. \A d \in calls[c].read : d.para \in K => d.id \notin ids
  BY <1>3, <1>9
<1>11. \A s \in settled : s.id \notin ids /\ s.para \notin paras
  <2> SUFFICES ASSUME NEW s \in settled PROVE s.id \notin ids /\ s.para \notin paras
    OBVIOUS
  <2>1. PICK d \in calls[c].read : d.id = s.id /\ d.para = s.para
    BY <1>1 DEF Kept, DefinedBy
  <2>2. s.para \in K \cup {0}
    BY DEF OutOfReach
  <2> QED BY <1>3, <1>7, <1>9, <2>1, <2>2
<1> QED BY <1>7, <1>10, <1>11 DEF target, paras

LEMMA RemoveThreadKeepsGuarded ==
  ASSUME Guarded, NEW c \in Callers, RemoveThread(c)
  PROVE  Guarded'
<1> USE DEF Guarded
<1> DEFINE paras == Thread(calls[c].rows, Definition(calls[c].read, calls[c].req.id).para)
           ids == {calls[c].req.id} \cup {d.id : d \in {x \in calls[c].read : x.para \in paras}}
<1>1. /\ c \in Running /\ calls[c].pc = "remove"
      /\ comments' = {d \in calls[c].read : d.id \notin ids}
      /\ rows' = {r \in calls[c].rows : r.para \notin paras}
      /\ marks' = UNION {IF m.id \in ids THEN Unmarked(m) ELSE {m} : m \in marks}
      /\ calls' = [calls EXCEPT ![c] = Idle]
      /\ UNCHANGED <<people, left, overlap, rejected, settled>>
  BY DEF RemoveThread, Running
<1>2. Idle \in CallRecords /\ Idle.pc = "idle"
  BY DEF Idle, NoRoot, CallRecords, Reqs, PCs
<1>3. Moves(c) /\ calls'[c].pc = "idle"
  BY <1>1, <1>2 DEF Types, Moves
<1>4. calls[c].read \in Versions /\ calls[c].rows \in RowVersions
  BY <1>1 DEF Versions, RowVersions
<1>5. \A K : OutOfReach(K) => /\ paras \cap (K \cup {0}) = {}
                              /\ \A d \in calls[c].read : d.para \in K => d.id \notin ids
  BY <1>1, RemovedIsWithinReach
<1>6. \A s \in settled : s.id \notin ids /\ s.para \notin paras
  BY <1>1, RemovedIsWithinReach DEF Reach
<1> HIDE DEF paras, ids
<1>7. (\A V \in Versions' : V \in Versions \/ V = comments') /\ (\A R \in RowVersions' : R \in RowVersions \/ R = rows')
  BY <1>3, VersionsStep
<1>8. Types'
  <2>1. comments' \subseteq Defs /\ rows' \subseteq Rows
    BY <1>1, <1>4, VersionsAreTyped
  <2>2. \A m \in Marks : Unmarked(m) \subseteq Marks
    BY DEF Unmarked, Marks
  <2>3. marks' \subseteq Marks
    BY <1>1, <2>2 DEF Types
  <2> QED BY <1>1, <1>2, <2>1, <2>3 DEF Types
<1>9. Sound'
  <2>1. IsFiniteSet(comments')
    BY <1>1, <1>4, FS_Subset DEF Sound
  <2>2. \A d \in comments' : d.para <= Used
    BY <1>1, <1>4 DEF Sound
  <2>3. \A d, e \in comments' : d.id = e.id => d = e
    BY <1>1, <1>4 DEF Sound
  <2>4. \A r \in rows' : r.para \in 1..Used /\ r.parent <= Used
    BY <1>1, <1>4 DEF Sound
  <2> QED BY <1>1, <1>7, <2>1, <2>2, <2>3, <2>4, SoundStep
<1>10. Staged' /\ AloneWrites'
  BY <1>3, StagedStep, AloneStep
<1>11. Kept'
  <2>1. \A s \in settled : DefinedBy(comments', s.id, s.para, s.by)
    BY <1>1, <1>4, <1>6 DEF Kept, DefinedBy
  <2>2. \A s \in settled : s.parent # 0 => Row(s.para, s.parent) \in rows'
    BY <1>1, <1>4, <1>6 DEF Kept, Row
  <2>3. \A s \in settled : MarkedBy(s.para, s.id) => MarkedBy(s.para, s.id)'
    <3> SUFFICES ASSUME NEW s \in settled, MarkedBy(s.para, s.id)
                 PROVE  MarkedBy(s.para, s.id)'
      OBVIOUS
    <3>1. PICK m \in marks : /\ m.range /\ m.n = s.para /\ m.id = s.id
                             /\ rejected \/ (m.ref /\ "del" \notin m.in)
      BY DEF MarkedBy
    <3>2. m \in marks'
      BY <1>1, <1>6, <3>1
    <3> QED BY <1>1, <3>1, <3>2 DEF MarkedBy
  <2>4. \A d \in Callers : calls'[d].pc = "people" =>
          calls[d].pc = "people" /\ calls'[d].people = calls[d].people
    BY <1>3 DEF Moves
  <2> QED BY <1>1, <1>7, <2>1, <2>2, <2>3, <2>4, KeptStep DEF Kept
<1>12. Reach'
  <2>1. ASSUME NEW K, OutOfReach(K)
        PROVE  /\ \A d : d \in comments' \cup calls[c].read /\ d.para \in K
                           => d \in comments' /\ d \in calls[c].read
               /\ \A r : r \in calls[c].rows \cup rows' /\ r.para \in K
                           => r \in calls[c].rows /\ r \in rows'
    BY <1>1, <1>5, <2>1
  <2> QED BY <1>1, <1>3, <1>4, <1>7, <2>1, ReachStep
<1> QED BY <1>8, <1>9, <1>10, <1>11, <1>12

(* Accepting and rejecting never touch a range marker, and accepting only  *)
(* takes a reference that was deleted.                                     *)
LEMMA ResolveKeepsGuarded ==
  ASSUME Guarded, AcceptAIEdits \/ RejectAIEdits
  PROVE  Guarded'
<1> USE DEF Guarded
<1>1. UNCHANGED <<comments, rows, people, calls, left, overlap, settled>>
  BY DEF AcceptAIEdits, RejectAIEdits
<1>2. /\ rejected' \in BOOLEAN
      /\ \E drop \in {"ins", "del"} : marks' = UNION {Resolved(m, drop) : m \in marks}
  BY DEF AcceptAIEdits, RejectAIEdits, Types
<1>3. \A m \in Marks, drop \in {"ins", "del"} :
        Resolved(m, drop) \subseteq Marks
  BY DEF Resolved, Marks
<1>4. marks' \subseteq Marks
  BY <1>2, <1>3 DEF Types
<1>5. ASSUME NEW n, NEW id, MarkedBy(n, id) PROVE MarkedBy(n, id)'
  <2>1. PICK m \in marks : /\ m.range /\ m.n = n /\ m.id = id
                           /\ rejected \/ (m.ref /\ "del" \notin m.in)
    BY <1>5 DEF MarkedBy
  <2>2. m \in Marks
    BY DEF Types
  <2>3. CASE AcceptAIEdits
    <3> DEFINE b == [m EXCEPT !.ref = @ /\ "del" \notin m.in, !.in = {}]
    <3>1. /\ b.range = m.range /\ b.n = m.n /\ b.id = m.id /\ b.in = {}
          /\ b.ref = (m.ref /\ "del" \notin m.in)
      BY <2>2 DEF Marks
    <3>2. b \in Resolved(m, "del")
      BY <2>1, <3>1 DEF Resolved
    <3>3. b \in marks' /\ rejected' = rejected
      BY <2>3, <3>2 DEF AcceptAIEdits
    <3> HIDE DEF b
    <3> QED BY <2>1, <3>1, <3>3 DEF MarkedBy
  <2>4. CASE RejectAIEdits
    <3> DEFINE b == [m EXCEPT !.ref = @ /\ "ins" \notin m.in, !.in = {}]
    <3>1. b.range = m.range /\ b.n = m.n /\ b.id = m.id
      BY <2>2 DEF Marks
    <3>2. b \in Resolved(m, "ins")
      BY <2>1, <3>1 DEF Resolved
    <3>3. b \in marks' /\ rejected'
      BY <2>4, <3>2 DEF RejectAIEdits
    <3> HIDE DEF b
    <3> QED BY <2>1, <3>1, <3>3 DEF MarkedBy
  <2> QED BY <2>3, <2>4
<1>6. Versions' = Versions /\ RowVersions' = RowVersions /\ Running' = Running /\ Used' = Used
  BY <1>1 DEF Versions, RowVersions, Running, Used
<1>7. Types'
  BY <1>1, <1>2, <1>4 DEF Types
<1>8. Sound' /\ Staged'
  BY <1>1, <1>6 DEF Sound, Staged, AtStage
<1>9. AloneWrites'
  <2> SUFFICES ASSUME NEW c \in Running, calls[c].alone PROVE Written(c)'
    BY <1>1, <1>6 DEF AloneWrites
  <2>1. MarkedBy(calls[c].no, calls[c].id) => MarkedBy(calls[c].no, calls[c].id)'
    BY <1>1, <1>5
  <2>2. Written(c)
    BY DEF AloneWrites
  <2> QED BY <1>1, <2>1, <2>2 DEF Written, DefinedBy, Row
<1>10. Kept'
  BY <1>1, <1>5, <1>6, KeptStep DEF Kept
<1>11. Reach'
  BY <1>1, <1>6 DEF Reach, OutOfReach
<1> QED BY <1>7, <1>8, <1>9, <1>10, <1>11

(* A call that begins cuts what it names, and all below, out of what is    *)
(* out of reach; its own number was not given to anyone.                   *)
LEMMA BeginKeepsGuarded ==
  ASSUME Guarded, NEW c \in Callers, NEW q \in Requests, Begin(c, q)
  PROVE  Guarded'
<1> USE DEF Guarded
<1> DEFINE para == Definition(comments, q.id).para
           named == IF q.op = "delete" /\ Defined(comments, q.id)
                    THEN {para} \cup Thread(rows, para) ELSE {}
           new == [Idle EXCEPT !.pc = "read", !.req = q, !.no = Used + 1, !.alone = (Running = {})]
<1>1. /\ calls[c].pc = "idle" /\ left > 0 /\ left' = left - 1
      /\ calls' = [x \in Callers |-> IF x = c THEN new ELSE [calls[x] EXCEPT !.alone = FALSE]]
      /\ settled' = {s \in settled : s.para \notin named}
      /\ overlap' = (overlap \/ Running # {})
      /\ UNCHANGED <<comments, rows, people, marks, rejected>>
  BY DEF Begin, parts, Used
<1>2. Used \in Nat /\ Used' = Used + 1
  <2>1. left \in Nat /\ left <= MaxCalls /\ MaxCalls \in Nat /\ File.size \in Nat
    BY CommentPartsAssumption, FileAssumption DEF Types
  <2>2. left' = left - 1
    BY <1>1
  <2> HIDE DEF Guarded
  <2> QED BY <2>1, <2>2 DEF Used
<1>3. q \in Reqs
  BY DEF Requests, Ids, NoRoot, Reqs, Types, Defs
<1>4. /\ new \in CallRecords /\ new.pc = "read" /\ new.req = q /\ new.no = Used + 1
      /\ new.parent = 0 /\ new.alone = (Running = {})
  <2>1. PICK lone \in BOOLEAN : lone = (Running = {})
    OBVIOUS
  <2>2. new = [Idle EXCEPT !.pc = "read", !.req = q, !.no = Used + 1, !.alone = lone]
    BY <2>1
  <2>3. Used + 1 \in Nat
    BY <1>2
  <2> HIDE DEF new, Guarded
  <2>4. /\ new \in CallRecords /\ new.pc = "read" /\ new.req = q /\ new.no = Used + 1
        /\ new.parent = 0 /\ new.alone = lone
    BY <1>3, <2>2, <2>3 DEF Idle, CallRecords, PCs
  <2> QED BY <2>1, <2>4
<1>5. /\ calls'[c] = new
      /\ \A d \in Callers \ {c} : calls'[d] = [calls[d] EXCEPT !.alone = FALSE]
  BY <1>1
<1> HIDE DEF new
<1>6. \A d \in Callers \ {c} :
        /\ calls'[d] \in CallRecords /\ ~calls'[d].alone
        /\ calls'[d].pc = calls[d].pc /\ calls'[d].req = calls[d].req /\ calls'[d].no = calls[d].no
        /\ calls'[d].read = calls[d].read /\ calls'[d].rows = calls[d].rows
        /\ calls'[d].people = calls[d].people /\ calls'[d].id = calls[d].id
        /\ calls'[d].parent = calls[d].parent
  <2> SUFFICES ASSUME NEW d \in Callers \ {c}
               PROVE  LET x == calls[d]
                          y == [x EXCEPT !.alone = FALSE] IN
                      /\ y \in CallRecords /\ ~y.alone
                      /\ y.pc = x.pc /\ y.req = x.req /\ y.no = x.no
                      /\ y.read = x.read /\ y.rows = x.rows
                      /\ y.people = x.people /\ y.id = x.id
                      /\ y.parent = x.parent
    BY <1>5
  <2>1. calls[d] \in CallRecords
    BY DEF Types
  <2> HIDE DEF Guarded
  <2> QED BY <2>1 DEF CallRecords
<1>7. Running' = Running \cup {c} /\ c \notin Running
  BY <1>1, <1>4, <1>5, <1>6 DEF Running
<1>8. (\A V \in Versions' : V \in Versions) /\ (\A R \in RowVersions' : R \in RowVersions)
  <2>1. \A d \in Callers : calls'[d].pc \notin {"idle", "read"} => d # c
    BY <1>4, <1>5
  <2>2. \A V \in Versions' : V \in Versions
    BY <1>1, <1>6, <2>1 DEF Versions
  <2>3. \A R \in RowVersions' : R \in RowVersions
    BY <1>1, <1>4, <1>5, <1>6 DEF RowVersions
  <2> QED BY <2>2, <2>3
<1>9. Types'
  <2>1. calls' \in [Callers -> CallRecords]
    <3>1. \A d \in Callers : calls'[d] \in CallRecords
      BY <1>4, <1>5, <1>6
    <3> QED BY <1>1, <3>1
  <2>2. left' \in 0..MaxCalls
    BY <1>1, CommentPartsAssumption DEF Types
  <2>3. overlap' \in BOOLEAN
    BY <1>1 DEF Types
  <2>4. settled' \subseteq settled
    BY <1>1
  <2> QED BY <1>1, <2>1, <2>2, <2>3, <2>4 DEF Types
<1>10. Sound'
  <2>1. \A V \in Versions : IsFiniteSet(V) /\ \A d, e \in V : d.id = e.id => d = e
    BY DEF Sound
  <2>2. \A V \in Versions : \A d \in V : d.para <= Used + 1
    <3>1. \A V \in Versions : \A d \in V : d.para \in Nat /\ d.para <= Used
      BY VersionsAreTyped DEF Sound, Defs
    <3> QED BY <1>2, <3>1
  <2>3. \A R \in RowVersions : \A r \in R : r.para \in 1..(Used + 1) /\ r.parent <= Used + 1
    <3>1. \A R \in RowVersions : \A r \in R : r.para \in 1..Used /\ r.parent \in Nat /\ r.parent <= Used
      BY VersionsAreTyped DEF Sound, Rows
    <3> QED BY <1>2, <3>1
  <2>4. \A s \in settled : s.para <= Used + 1
    <3>1. \A s \in settled : s.para \in Nat /\ s.para <= Used
      BY DEF Sound, Types
    <3> QED BY <1>2, <3>1
  <2> QED BY <1>1, <1>2, <1>8, <2>1, <2>2, <2>3, <2>4 DEF Sound
<1>11. Staged'
  <2> SUFFICES ASSUME NEW d \in Running'
               PROVE  AtStage(calls[d])' /\ (calls'[d].alone => \A e \in Running' : e = d)
    BY DEF Staged
  <2>1. CASE d = c
    <3>1. calls'[c].no \in 1..(Used + 1)
      BY <1>2, <1>4, <1>5
    <3>2. calls'[c].alone => Running' = {c}
      BY <1>4, <1>5, <1>7
    <3> QED BY <1>2, <1>4, <1>5, <2>1, <3>1, <3>2 DEF AtStage
  <2>2. CASE d # c
    <3>1. d \in Running /\ d \in Callers
      BY <1>7, <2>2 DEF Running
    <3>2. AtStage(calls[d])
      BY <3>1 DEF Staged
    <3>3. \A n : n \in 1..Used => n \in 1..(Used + 1)
      BY <1>2
    <3> QED BY <1>2, <1>6, <2>2, <3>1, <3>2, <3>3 DEF AtStage
  <2> QED BY <2>1, <2>2
<1>12. AloneWrites'
  <2>1. \A d \in Running' : calls'[d].alone => calls'[d].pc = "read"
    BY <1>4, <1>5, <1>6 DEF Running
  <2> QED BY <2>1 DEF AloneWrites, Written
<1>13. Kept'
  <2>1. \A d \in Callers : calls'[d].pc = "people" =>
          calls[d].pc = "people" /\ calls'[d].people = calls[d].people
    BY <1>4, <1>5, <1>6
  <2>2. \A s \in settled' : s \in settled
    BY <1>1
  <2> QED BY <1>1, <1>8, <2>1, <2>2, KeptStep DEF Kept, MarkedBy
<1>14. Reach'
  <2>1. PICK K \in SUBSET (1..Used) : OutOfReach(K)
    BY DEF Reach
  <2>2. PICK L : L = K \ named
    OBVIOUS
  <2>3. \A s \in settled' : s.para \in L \cup {0}
    BY <1>1, <2>1, <2>2 DEF OutOfReach
  <2>4. \A V, W \in Versions' : \A d \in V : d.para \in L => d \in W
    BY <1>8, <2>1, <2>2 DEF OutOfReach
  <2>5. \A Q, R \in RowVersions' : \A r \in Q :
          r.para \in L => r.parent \in L \cup {0} /\ (r.parent # 0 => r \in R)
    <3> SUFFICES ASSUME NEW Q \in RowVersions', NEW R \in RowVersions', NEW r \in Q,
                        r.para \in L
                 PROVE  r.parent \in L \cup {0} /\ (r.parent # 0 => r \in R)
      OBVIOUS
    <3>1. rows \in RowVersions /\ Q \in RowVersions /\ R \in RowVersions
      BY <1>8 DEF RowVersions
    <3>2. r.parent \in K \cup {0} /\ (r.parent # 0 => r \in R /\ r \in rows)
      BY <2>1, <2>2, <3>1 DEF OutOfReach
    <3>3. ASSUME r.parent # 0, r.parent \in named PROVE FALSE
      <4>1. para \in Nat
        BY <3>3, DefinitionIsThere DEF Types, Defs
      <4>2. r.para \in Thread(rows, para)
        <5>1. rows \in SUBSET Rows
          BY DEF Types
        <5>2. r.parent \in Thread(rows, para)
          BY <3>3, <4>1, <5>1, ThreadIsClosed
        <5> QED BY <3>2, <3>3, <4>1, <5>1, <5>2, ThreadIsClosed
      <4> QED BY <2>2, <3>3, <4>2
    <3> QED BY <2>2, <3>2, <3>3
  <2>6. ASSUME q.op = "delete"
        PROVE  /\ \A V \in Versions : \A d \in V : d.id = q.id => d.para \notin L
               /\ \A s \in settled' : s.id # q.id
    <3>1. comments \in Versions /\ \A d, e \in comments : d.id = e.id => d = e
      BY DEF Versions, Sound
    <3>2. \A d \in comments : d.id = q.id => d.para \in named
      BY <2>6, <3>1, DefinitionIsThere DEF Defined
    <3>3. \A V \in Versions : \A d \in V : d.para \in K => d \in comments
      BY <2>1, <3>1 DEF OutOfReach
    <3>4. \A s \in settled : \E d \in comments : d.id = s.id /\ d.para = s.para
      BY <3>1 DEF Kept, DefinedBy
    <3> HIDE DEF named
    <3> QED BY <1>1, <2>2, <3>2, <3>3, <3>4
  <2>7. \A d \in Running' :
          /\ calls'[d].no \notin L
          /\ calls'[d].req.op = "delete" =>
               /\ \A V \in Versions' : \A x \in V : x.id = calls'[d].req.id => x.para \notin L
               /\ \A s \in settled' : s.id # calls'[d].req.id
    <3> SUFFICES ASSUME NEW d \in Running'
                 PROVE  /\ calls'[d].no \notin L
                        /\ calls'[d].req.op = "delete" =>
                             /\ \A V \in Versions' : \A x \in V : x.id = calls'[d].req.id => x.para \notin L
                             /\ \A s \in settled' : s.id # calls'[d].req.id
      OBVIOUS
    <3>1. CASE d = c
      <4>1. Used + 1 \notin L
        BY <1>2, <2>1, <2>2
      <4> QED BY <1>4, <1>5, <1>8, <2>6, <3>1, <4>1
    <3>2. CASE d # c
      <4>1. d \in Running /\ calls'[d].no = calls[d].no /\ calls'[d].req = calls[d].req
        BY <1>6, <1>7, <3>2 DEF Running
      <4>2. /\ calls[d].no \notin K
            /\ calls[d].req.op = "delete" =>
                 /\ \A V \in Versions : \A x \in V : x.id = calls[d].req.id => x.para \notin K
                 /\ \A s \in settled : s.id # calls[d].req.id
        BY <2>1, <4>1 DEF OutOfReach
      <4>3. (\A s \in settled' : s \in settled) /\ (\A k \in L : k \in K)
        BY <1>1, <2>2
      <4> QED BY <1>8, <4>1, <4>2, <4>3
    <3> QED BY <3>1, <3>2
  <2>8. OutOfReach(L)'
    BY <2>3, <2>4, <2>5, <2>7 DEF OutOfReach
  <2>9. L \in SUBSET (1..(Used + 1))
    <3>1. \A k \in 1..Used : k \in 1..(Used + 1)
      BY <1>2
    <3> QED BY <2>1, <2>2, <3>1
  <2> QED BY <1>2, <2>8, <2>9 DEF Reach
<1> QED BY <1>9, <1>10, <1>11, <1>12, <1>13, <1>14

LEMMA StepKeepsGuarded ==
  ASSUME Guarded, [Next]_vars
  PROVE  Guarded'
<1>1. CASE UNCHANGED vars
  <2>1. UNCHANGED <<comments, rows, people, marks, calls, left, overlap, rejected, settled>>
    BY <1>1 DEF vars, parts
  <2>2. Versions' = Versions /\ RowVersions' = RowVersions /\ Running' = Running /\ Used' = Used
    BY <2>1 DEF Versions, RowVersions, Running, Used
  <2>3. Types' /\ Sound' /\ Staged'
    BY <2>1, <2>2 DEF Guarded, Types, Sound, Staged, AtStage
  <2>4. AloneWrites' /\ Kept'
    BY <2>1, <2>2 DEF Guarded, AloneWrites, Written, Kept, MarkedBy, DefinedBy, Row
  <2>5. Reach'
    BY <2>1, <2>2 DEF Guarded, Reach, OutOfReach
  <2> QED BY <2>3, <2>4, <2>5 DEF Guarded
<1>2. ASSUME NEW c \in Callers, NEW r \in Requests, Begin(c, r) PROVE Guarded'
  BY <1>2, BeginKeepsGuarded
<1>3. ASSUME NEW c \in Callers, Read(c) PROVE Guarded'
  BY <1>3, ReadKeepsGuarded
<1>4. ASSUME NEW c \in Callers, InsertMarkers(c) PROVE Guarded'
  BY <1>4, InsertMarkersKeepsGuarded
<1>5. ASSUME NEW c \in Callers, WriteRoot(c) PROVE Guarded'
  BY <1>5, WriteRootKeepsGuarded
<1>6. ASSUME NEW c \in Callers, WriteReply(c) PROVE Guarded'
  BY <1>6, WriteReplyKeepsGuarded
<1>7. ASSUME NEW c \in Callers, Link(c) PROVE Guarded'
  BY <1>7, LinkKeepsGuarded
<1>8. ASSUME NEW c \in Callers, Ensure(c) PROVE Guarded'
  BY <1>8, EnsureKeepsGuarded
<1>9. ASSUME NEW c \in Callers, AddAuthor(c) PROVE Guarded'
  BY <1>9, AddAuthorKeepsGuarded
<1>10. ASSUME NEW c \in Callers, FindTarget(c) PROVE Guarded'
  BY <1>10, FindTargetKeepsGuarded
<1>11. ASSUME NEW c \in Callers, RemoveThread(c) PROVE Guarded'
  BY <1>11, RemoveThreadKeepsGuarded
<1>12. CASE AcceptAIEdits \/ RejectAIEdits
  BY <1>12, ResolveKeepsGuarded
<1> QED BY <1>1, <1>2, <1>3, <1>4, <1>5, <1>6, <1>7, <1>8, <1>9, <1>10, <1>11, <1>12 DEF Next

(* A comment that was added, or was there, while nothing else ran keeps    *)
(* its definition, its author, its place in the thread and its markers     *)
(* until its deletion is asked for, however later calls overlap and in     *)
(* whatever order their reads and writes of the parts come.                *)
THEOREM SettledCommentsStayHolds ==
  ASSUME SingleParagraph
  PROVE  Spec => []SettledCommentsStay
<1>1. Init => Guarded
  BY InitGuarded
<1>2. Guarded /\ [Next]_vars => Guarded'
  BY StepKeepsGuarded
<1>3. Guarded => SettledCommentsStay
  <2> SUFFICES ASSUME Guarded, NEW s \in settled
               PROVE  /\ \E d \in comments : d.id = s.id /\ d.para = s.para /\ d.by = s.by
                      /\ s.by \in people
                      /\ IF s.parent # 0 THEN [para |-> s.para, parent |-> s.parent] \in rows
                         ELSE \E m \in Ranged : m.n = s.para /\ m.id = s.id
                                                /\ (rejected \/ m \in Referenced)
    BY DEF SettledCommentsStay
  <2>1. comments \in Versions /\ rows \in RowVersions
    BY DEF Versions, RowVersions
  <2>2. /\ DefinedBy(comments, s.id, s.para, s.by) /\ s.by \in people
        /\ s.parent # 0 => Row(s.para, s.parent) \in rows
        /\ s.parent = 0 => MarkedBy(s.para, s.id)
    BY <2>1 DEF Guarded, Kept
  <2> QED BY <2>2 DEF DefinedBy, Row, MarkedBy, Ranged, Referenced
<1> QED BY <1>1, <1>2, <1>3, PTL DEF Spec

-------------------------------------------------------------------------------
(***************************************************************************)
(* Calls that never overlap                                                *)
(***************************************************************************)

(* The rows of the file name comments that are there.                      *)
RowsNameComments ==
  \A r \in File.rows : {r.para, r.parent} \ {0} \subseteq {d.last : d \in File.comments}

HasParent(d) == \E r \in rows : r.para = d.last /\ r.parent # 0
Roots == {d \in comments : ~HasParent(d)}

(* The comments that have markers: the roots, with the one whose markers   *)
(* are there before its definition, and without a reply that has no row.   *)
Wanted ==
  ({d.id : d \in Roots} \cup {calls[c].id : c \in {x \in Running : calls[x].pc = "write"}})
    \ {calls[c].id : c \in {x \in Running : calls[x].pc = "link"}}

OneEach(S, ids) ==
  /\ \A m \in S : m.id \in ids
  /\ \A i \in ids : \E m \in S : m.id = i
  /\ \A m, k \in S : m.id = k.id => m = k

Marked == OneEach(Ranged, Wanted) /\ (~rejected => OneEach(Referenced, Wanted))

(* What a call has read is what is there until it writes it back, and its  *)
(* comment is new.                                                         *)
InStep(c) ==
  LET x == calls[c] IN
  /\ x.pc \in {"add", "write", "reply", "delete", "remove"} => x.read = comments
  /\ x.pc \in {"link", "ensure", "remove"} => x.rows = rows
  /\ x.pc \in {"read", "add", "write", "reply"} => \A d \in comments : d.last # x.no
  /\ x.pc = "link" => \E d \in comments : d.id = x.id /\ \A e \in comments : e.last = x.no <=> e = d
  /\ x.pc \in {"link", "ensure"} => \E d \in comments : d.last = x.no
  /\ x.pc \in {"link", "ensure"} => \E d \in comments : d.last = x.parent

Named == \A r \in rows : /\ \E d \in comments : d.last = r.para
                         /\ r.parent # 0 => \E d \in comments : d.last = r.parent

Tidy ==
  ~overlap =>
    /\ \A c \in Running : calls[c].alone /\ InStep(c)
    /\ \A d \in comments : d.last = d.para
    /\ Named /\ Marked

LEMMA InitTidy ==
  ASSUME SingleParagraph, RowsNameComments, Init
  PROVE  Tidy
<1>1. /\ Running = {} /\ comments = File.comments /\ rows = File.rows
      /\ \A d \in comments : d.last = d.para
  BY DEF Init, Running, Idle, SingleParagraph
<1>2. Named
  <2>1. \A r \in rows : r.para # 0
    BY <1>1, FileAssumption
  <2> QED BY <1>1, <2>1 DEF Named, RowsNameComments
<1>3. \A d \in comments : ParentsIn(File.rows, d) = {} <=> ~HasParent(d)
  BY <1>1 DEF ParentsIn, HasParent
<1>4. marks = {Mark(d.para, d.id, {}) : d \in Roots}
  BY <1>1, <1>3 DEF Init, Roots
<1>5. Wanted = {d.id : d \in Roots}
  BY <1>1 DEF Wanted
<1>6. \A d, e \in Roots : d.id = e.id => d = e
  BY <1>1, FileAssumption DEF Roots
<1>7. \A d \in Roots : LET m == Mark(d.para, d.id, {}) IN
        m.range /\ m.ref /\ "del" \notin m.in /\ m.id = d.id
  BY DEF Mark
<1>8. Ranged = marks /\ Referenced = marks
  BY <1>4, <1>7 DEF Ranged, Referenced
<1>9. OneEach(marks, Wanted)
  BY <1>4, <1>5, <1>6, <1>7 DEF OneEach
<1> QED BY <1>1, <1>2, <1>8, <1>9 DEF Tidy, Marked

(* A call that overlaps no other is the only one.                          *)
LEMMA OnlyCall ==
  ASSUME Guarded, Tidy, ~overlap, NEW c \in Running
  PROVE  Running = {c} /\ InStep(c) /\ AtStage(calls[c])
BY DEF Guarded, Tidy, Staged

LEMMA WantedNow ==
  ASSUME NEW c \in Callers, Running = {c}
  PROVE  /\ calls[c].pc = "write" => Wanted = {d.id : d \in Roots} \cup {calls[c].id}
         /\ calls[c].pc = "link" => Wanted = {d.id : d \in Roots} \ {calls[c].id}
         /\ calls[c].pc \notin {"write", "link"} => Wanted = {d.id : d \in Roots}
BY DEF Wanted

LEMMA WantedNext ==
  ASSUME NEW c \in Callers, Running' = {c}
  PROVE  /\ calls'[c].pc = "write" => Wanted' = {d.id : d \in Roots'} \cup {calls'[c].id}
         /\ calls'[c].pc = "link" => Wanted' = {d.id : d \in Roots'} \ {calls'[c].id}
         /\ calls'[c].pc \notin {"write", "link"} => Wanted' = {d.id : d \in Roots'}
BY DEF Wanted

LEMMA WantedAtRest ==
  ASSUME Running' = {}
  PROVE  Wanted' = {d.id : d \in Roots'}
BY DEF Wanted

(* The call that runs leaves or goes on, and what is wanted follows.       *)
LEMMA RunningNext ==
  ASSUME NEW c \in Callers, Moves(c), Running = {c}
  PROVE  /\ calls'[c].pc = "idle" => Running' = {}
         /\ calls'[c].pc # "idle" => Running' = {c}
BY RunningStep

(* A step that adds no comment and no marker, and takes none away.         *)
LEMMA QuietKeepsTidy ==
  ASSUME Guarded, Tidy, NEW c \in Callers, Moves(c),
         UNCHANGED <<comments, marks, rejected, overlap>>,
         \A d \in comments : HasParent(d)' <=> HasParent(d),
         calls[c].pc \notin {"write", "link"}, calls'[c].pc \notin {"write", "link"},
         ~overlap => Named' /\ (calls'[c].pc = "idle" \/ (GoesOn(c) /\ InStep(c)'))
  PROVE  Tidy'
<1> SUFFICES ASSUME ~overlap
             PROVE  /\ \A d \in Running' : calls'[d].alone /\ InStep(d)'
                    /\ \A d \in comments' : d.last = d.para
                    /\ Named' /\ Marked'
  BY DEF Tidy
<1>1. c \in Running
  BY DEF Moves
<1>2. Running = {c} /\ calls[c].alone
  BY <1>1, OnlyCall DEF Tidy
<1>3. \A d \in Running' : d = c /\ calls'[c].pc # "idle"
  BY <1>2, RunningStep
<1>4. \A d \in Running' : calls'[d].alone /\ InStep(d)'
  BY <1>2, <1>3 DEF GoesOn
<1>5. Roots' = Roots
  BY DEF Roots
<1>6. Wanted = {d.id : d \in Roots}
  BY <1>2, WantedNow
<1>7. Wanted' = {d.id : d \in Roots}
  BY <1>2, <1>5, RunningNext, WantedNext, WantedAtRest
<1>8. Marked'
  BY <1>6, <1>7 DEF Tidy, Marked, OneEach, Ranged, Referenced
<1> QED BY <1>4, <1>8 DEF Tidy

LEMMA ReadKeepsTidy ==
  ASSUME Guarded, Tidy, NEW c \in Callers, Read(c)
  PROVE  Tidy'
<1>1. /\ calls[c].pc = "read" /\ calls[c].req.op \in {"add", "reply", "delete"}
      /\ calls' = [calls EXCEPT ![c] = [calls[c] EXCEPT !.read = comments, !.pc = calls[c].req.op]]
      /\ UNCHANGED <<comments, rows, marks, left, overlap, rejected>>
  BY DEF Guarded, Read, Types, CallRecords, Reqs, parts
<1>2. /\ calls'[c].pc = calls[c].req.op /\ calls'[c].read = comments
      /\ calls'[c].no = calls[c].no
      /\ calls'[c].req = calls[c].req /\ calls'[c].alone = calls[c].alone
  BY <1>1 DEF Guarded, Types, CallRecords
<1>3. Moves(c) /\ GoesOn(c)
  BY <1>1, <1>2 DEF Guarded, Types, Moves, GoesOn, Running
<1>4. ASSUME ~overlap PROVE Named' /\ InStep(c)'
  <2>1. InStep(c)
    BY <1>3, <1>4, OnlyCall DEF Moves
  <2>2. InStep(c)'
    BY <1>1, <1>2, <2>1 DEF InStep
  <2>3. Named'
    BY <1>1, <1>4 DEF Tidy, Named
  <2> QED BY <2>2, <2>3
<1>5. \A d \in comments : HasParent(d)' <=> HasParent(d)
  BY <1>1 DEF HasParent
<1> QED BY <1>1, <1>2, <1>3, <1>4, <1>5, QuietKeepsTidy

LEMMA RefuseKeepsTidy ==
  ASSUME Guarded, Tidy, NEW c \in Callers, c \in Running, calls[c].pc \notin {"write", "link"},
         Refuse(c), UNCHANGED <<left, overlap, rejected>>
  PROVE  Tidy'
<1>1. calls' = [calls EXCEPT ![c] = Idle] /\ UNCHANGED <<comments, rows, marks>>
  BY DEF Refuse, parts
<1>2. Moves(c) /\ calls'[c].pc = "idle"
  BY <1>1 DEF Guarded, Types, Moves, Idle
<1>3. (\A d \in comments : HasParent(d)' <=> HasParent(d)) /\ (~overlap => Named')
  BY <1>1 DEF HasParent, Tidy, Named
<1> QED BY <1>1, <1>2, <1>3, QuietKeepsTidy

LEMMA EnsureKeepsTidy ==
  ASSUME Guarded, Tidy, NEW c \in Callers, Ensure(c)
  PROVE  Tidy'
<1> DEFINE row == Row(calls[c].parent, 0)
<1>1. c \in Running /\ calls[c].pc = "ensure"
  BY DEF Ensure, Running
<1>2. /\ rows' = rows \/ rows' = calls[c].rows \cup {row}
      /\ calls' = [calls EXCEPT ![c] = [calls[c] EXCEPT !.people = people, !.pc = "people"]]
      /\ UNCHANGED <<comments, marks, left, overlap, rejected>>
  BY DEF Ensure, Row, Guarded, Types, CallRecords
<1>3. /\ calls'[c].pc = "people" /\ calls'[c].no = calls[c].no
      /\ calls'[c].req = calls[c].req /\ calls'[c].alone = calls[c].alone
  BY <1>2 DEF Guarded, Types, CallRecords
<1>4. Moves(c) /\ GoesOn(c)
  BY <1>1, <1>2, <1>3 DEF Guarded, Types, Moves, GoesOn
<1>5. row.para = calls[c].parent /\ row.parent = 0
  BY DEF Row
<1> HIDE DEF row
<1>6. ~overlap => calls[c].rows = rows
  BY <1>1, OnlyCall DEF InStep
<1>7. CASE overlap
  BY <1>2, <1>7 DEF Tidy
<1>8. CASE ~overlap
  <2>1. rows' \subseteq rows \cup {row} /\ rows \subseteq rows'
    BY <1>2, <1>6, <1>8
  <2>2. \A d \in comments : HasParent(d)' <=> HasParent(d)
    BY <1>5, <2>1 DEF HasParent
  <2>3. Named'
    <3>1. \E d \in comments : d.last = row.para
      BY <1>1, <1>5, <1>8, OnlyCall DEF InStep
    <3> QED BY <1>2, <1>5, <1>8, <2>1, <3>1 DEF Tidy, Named
  <2>4. InStep(c)'
    BY <1>3 DEF InStep
  <2> QED BY <1>1, <1>2, <1>3, <1>4, <2>2, <2>3, <2>4, QuietKeepsTidy
<1> QED BY <1>7, <1>8

LEMMA AddAuthorKeepsTidy ==
  ASSUME Guarded, Tidy, NEW c \in Callers, AddAuthor(c)
  PROVE  Tidy'
<1>1. /\ c \in Running /\ calls[c].pc = "people" /\ calls' = [calls EXCEPT ![c] = Idle]
      /\ UNCHANGED <<comments, rows, marks, left, overlap, rejected>>
  BY DEF AddAuthor, Running
<1>2. Moves(c) /\ calls'[c].pc = "idle"
  BY <1>1 DEF Guarded, Types, Moves, Idle
<1>3. (\A d \in comments : HasParent(d)' <=> HasParent(d)) /\ (~overlap => Named')
  BY <1>1 DEF HasParent, Tidy, Named
<1> QED BY <1>1, <1>2, <1>3, QuietKeepsTidy

LEMMA FindTargetKeepsTidy ==
  ASSUME Guarded, Tidy, NEW c \in Callers, FindTarget(c)
  PROVE  Tidy'
<1>1. c \in Running /\ calls[c].pc = "delete" /\ UNCHANGED <<left, overlap, rejected>>
  BY DEF FindTarget, Running
<1>2. CASE Refuse(c)
  BY <1>1, <1>2, RefuseKeepsTidy
<1>3. CASE ~Refuse(c)
  <2>1. /\ calls' = [calls EXCEPT ![c] = [calls[c] EXCEPT !.rows = rows, !.pc = "remove"]]
        /\ UNCHANGED <<comments, rows, marks>>
    BY <1>3 DEF FindTarget, parts, Guarded, Types, CallRecords
  <2>2. /\ calls'[c].pc = "remove" /\ calls'[c].rows = rows /\ calls'[c].read = calls[c].read
        /\ calls'[c].no = calls[c].no
        /\ calls'[c].req = calls[c].req /\ calls'[c].alone = calls[c].alone
    BY <2>1 DEF Guarded, Types, CallRecords
  <2>3. Moves(c) /\ GoesOn(c)
    BY <1>1, <2>1, <2>2 DEF Guarded, Types, Moves, GoesOn
  <2>4. ASSUME ~overlap PROVE Named' /\ InStep(c)'
    <3>1. InStep(c)
      BY <1>1, <2>4, OnlyCall
    <3>2. InStep(c)'
      BY <1>1, <2>1, <2>2, <3>1 DEF InStep
    <3>3. Named'
      BY <2>1, <2>4 DEF Tidy, Named
    <3> QED BY <3>2, <3>3
  <2>5. \A d \in comments : HasParent(d)' <=> HasParent(d)
    BY <2>1 DEF HasParent
  <2> QED BY <1>1, <2>1, <2>2, <2>3, <2>4, <2>5, QuietKeepsTidy
<1> QED BY <1>2, <1>3

LEMMA InsertMarkersKeepsTidy ==
  ASSUME Guarded, Tidy, NEW c \in Callers, InsertMarkers(c)
  PROVE  Tidy'
<1> DEFINE id == NextId(calls[c].read)
           mark == Mark(calls[c].no, id, IF Tracked THEN {"ins"} ELSE {})
<1>1. /\ c \in Running /\ calls[c].pc = "add" /\ marks' = marks \cup {mark}
      /\ calls' = [calls EXCEPT ![c] = [calls[c] EXCEPT !.id = id, !.pc = "write"]]
      /\ UNCHANGED <<comments, rows, left, overlap, rejected>>
  BY DEF InsertMarkers, Running, Guarded, Types, CallRecords
<1>2. /\ calls'[c].pc = "write" /\ calls'[c].id = id /\ calls'[c].read = calls[c].read
      /\ calls'[c].no = calls[c].no
      /\ calls'[c].req = calls[c].req /\ calls'[c].alone = calls[c].alone
  BY <1>1 DEF Guarded, Types, CallRecords
<1>3. Moves(c) /\ GoesOn(c)
  BY <1>1, <1>2 DEF Guarded, Types, Moves, GoesOn
<1> SUFFICES ASSUME ~overlap
             PROVE  /\ \A d \in Running' : calls'[d].alone /\ InStep(d)'
                    /\ \A d \in comments' : d.last = d.para
                    /\ Named' /\ Marked'
  BY <1>1 DEF Tidy
<1>4. Running = {c} /\ Running' = {c} /\ InStep(c) /\ calls[c].alone
  BY <1>1, <1>2, <1>3, OnlyCall, RunningNext DEF Tidy
<1>5. id \in Nat /\ \A d \in comments : d.id < id
  <2>1. calls[c].read = comments /\ comments \in Versions
    BY <1>1, <1>4 DEF InStep, Versions
  <2>2. comments \in SUBSET Defs /\ IsFiniteSet(comments)
    BY <2>1 DEF Guarded, Sound, Types
  <2> QED BY <2>1, <2>2, NextIdIsFresh
<1>6. mark.id = id /\ mark.range /\ mark.ref /\ "del" \notin mark.in
  BY DEF Mark
<1> HIDE DEF mark, id
<1>7. \A d \in comments : d.id # id
  <2>1. \A d \in comments : d.id \in Nat
    BY DEF Guarded, Types, Defs
  <2> QED BY <1>5, <2>1
<1>8. InStep(c)'
  BY <1>1, <1>2, <1>4 DEF InStep
<1>9. Named' /\ \A d \in comments' : d.last = d.para
  BY <1>1 DEF Tidy, Named
<1>10. Marked'
  <2>1. Roots' = Roots /\ Roots \subseteq comments
    BY <1>1 DEF Roots, HasParent
  <2>2. Wanted = {d.id : d \in Roots} /\ Wanted' = Wanted \cup {id}
    BY <1>1, <1>2, <1>4, <2>1, WantedNow, WantedNext
  <2>3. id \notin Wanted
    BY <1>7, <2>1, <2>2
  <2>4. Ranged' = Ranged \cup {mark} /\ Referenced' = Referenced \cup {mark}
    BY <1>1, <1>6 DEF Ranged, Referenced
  <2>5. ASSUME NEW S, OneEach(S, Wanted) PROVE OneEach(S \cup {mark}, Wanted \cup {id})
    BY <1>6, <2>3, <2>5 DEF OneEach
  <2>6. Marked
    BY DEF Tidy
  <2>7. OneEach(Ranged, Wanted)'
    <3>1. OneEach(Ranged \cup {mark}, Wanted \cup {id})
      BY <2>5, <2>6 DEF Marked
    <3> QED BY <2>2, <2>4, <3>1 DEF OneEach
  <2>8. ASSUME ~rejected' PROVE OneEach(Referenced, Wanted)'
    <3>1. OneEach(Referenced \cup {mark}, Wanted \cup {id})
      BY <1>1, <2>5, <2>6, <2>8 DEF Marked
    <3> QED BY <2>2, <2>4, <3>1 DEF OneEach
  <2> QED BY <2>7, <2>8 DEF Marked
<1> QED BY <1>2, <1>4, <1>8, <1>9, <1>10

LEMMA WriteRootKeepsTidy ==
  ASSUME Guarded, Tidy, NEW c \in Callers, WriteRoot(c)
  PROVE  Tidy'
<1> DEFINE id == calls[c].id
           def == [id |-> id, para |-> calls[c].no, last |-> calls[c].no, by |-> c]
<1>1. /\ c \in Running /\ calls[c].pc = "write" /\ comments' = calls[c].read \cup {def}
      /\ calls' = [calls EXCEPT ![c] = [calls[c] EXCEPT !.people = people, !.pc = "people"]]
      /\ UNCHANGED <<rows, marks, left, overlap, rejected>>
  BY DEF WriteRoot, Running, Added, Guarded, Types, CallRecords
<1>2. /\ calls'[c].pc = "people" /\ calls'[c].no = calls[c].no
      /\ calls'[c].req = calls[c].req /\ calls'[c].alone = calls[c].alone
  BY <1>1 DEF Guarded, Types, CallRecords
<1>3. Moves(c) /\ GoesOn(c)
  BY <1>1, <1>2 DEF Guarded, Types, Moves, GoesOn
<1> SUFFICES ASSUME ~overlap
             PROVE  /\ \A d \in Running' : calls'[d].alone /\ InStep(d)'
                    /\ \A d \in comments' : d.last = d.para
                    /\ Named' /\ Marked'
  BY <1>1 DEF Tidy
<1>4. Running = {c} /\ Running' = {c} /\ InStep(c) /\ calls[c].alone
  BY <1>1, <1>2, <1>3, OnlyCall, RunningNext DEF Tidy
<1>5. comments' = comments \cup {def} /\ \A d \in comments : d.last # calls[c].no
  BY <1>1, <1>4 DEF InStep
<1>6. def.id = id /\ def.para = calls[c].no /\ def.last = calls[c].no
  OBVIOUS
<1> HIDE DEF def, id
<1>7. InStep(c)'
  BY <1>2 DEF InStep
<1>8. Named' /\ \A d \in comments' : d.last = d.para
  BY <1>1, <1>5, <1>6 DEF Tidy, Named
<1>9. Marked'
  <2>1. \A d \in comments : HasParent(d)' <=> HasParent(d)
    BY <1>1 DEF HasParent
  <2>2. \A d : d.last = calls[c].no => ~HasParent(d)'
    BY <1>1, <1>5 DEF HasParent, Tidy, Named
  <2>3. Roots' = Roots \cup {def}
    BY <1>5, <1>6, <2>1, <2>2 DEF Roots
  <2>4. Wanted = {d.id : d \in Roots} \cup {id} /\ Wanted' = {d.id : d \in Roots'}
    BY <1>1, <1>2, <1>4, WantedNow, WantedNext DEF id
  <2>5. Wanted' = Wanted
    BY <1>6, <2>3, <2>4
  <2> QED BY <1>1, <2>5 DEF Tidy, Marked, OneEach, Ranged, Referenced
<1> QED BY <1>2, <1>4, <1>7, <1>8, <1>9

LEMMA WriteReplyKeepsTidy ==
  ASSUME Guarded, Tidy, NEW c \in Callers, WriteReply(c)
  PROVE  Tidy'
<1> DEFINE id == NextId(calls[c].read)
           def == [id |-> id, para |-> calls[c].no, last |-> calls[c].no, by |-> c]
           up == Definition(calls[c].read, calls[c].req.id)
<1>1. c \in Running /\ calls[c].pc = "reply" /\ UNCHANGED <<left, overlap, rejected>>
  BY DEF WriteReply, Running
<1>2. CASE Refuse(c)
  BY <1>1, <1>2, RefuseKeepsTidy
<1>3. CASE ~Refuse(c)
  <2>1. /\ Defined(calls[c].read, calls[c].req.id)
        /\ comments' = calls[c].read \cup {def}
        /\ calls' = [calls EXCEPT ![c] = [calls[c] EXCEPT !.id = id, !.parent = up.para,
                                                          !.rows = rows, !.pc = "link"]]
        /\ UNCHANGED <<rows, marks>>
    BY <1>3 DEF WriteReply, Added, Guarded, Types, CallRecords
  <2>2. /\ calls'[c].pc = "link" /\ calls'[c].id = id /\ calls'[c].parent = up.para
        /\ calls'[c].rows = rows /\ calls'[c].no = calls[c].no
        /\ calls'[c].req = calls[c].req /\ calls'[c].alone = calls[c].alone
    BY <2>1 DEF Guarded, Types, CallRecords
  <2>3. Moves(c) /\ GoesOn(c)
    BY <1>1, <2>1, <2>2 DEF Guarded, Types, Moves, GoesOn
  <2> SUFFICES ASSUME ~overlap
               PROVE  /\ \A d \in Running' : calls'[d].alone /\ InStep(d)'
                      /\ \A d \in comments' : d.last = d.para
                      /\ Named' /\ Marked'
    BY <1>1 DEF Tidy
  <2>4. Running = {c} /\ Running' = {c} /\ InStep(c) /\ calls[c].alone
    BY <1>1, <2>2, <2>3, OnlyCall, RunningNext DEF Tidy
  <2>5. /\ calls[c].read = comments /\ comments' = comments \cup {def}
        /\ \A d \in comments : d.last # calls[c].no /\ d.last = d.para
    BY <1>1, <2>1, <2>4 DEF InStep, Tidy
  <2>6. up \in comments
    BY <2>1, <2>5, DefinitionIsThere
  <2>7. id \in Nat /\ \A d \in comments : d.id # id
    <3>1. comments \in SUBSET Defs /\ IsFiniteSet(comments)
      BY DEF Guarded, Sound, Types, Versions
    <3>2. id \in Nat /\ \A d \in comments : d.id < id
      BY <2>5, <3>1, NextIdIsFresh
    <3>3. \A d \in comments : d.id \in Nat
      BY <3>1 DEF Defs
    <3> HIDE DEF id
    <3> QED BY <3>2, <3>3
  <2>8. def.id = id /\ def.para = calls[c].no /\ def.last = calls[c].no
    OBVIOUS
  <2> HIDE DEF def, id, up
  <2>9. InStep(c)'
    <3>1. def \in comments' /\ \A e \in comments' : e.last = calls[c].no <=> e = def
      BY <2>5, <2>8
    <3>2. up \in comments' /\ up.last = up.para
      BY <2>5, <2>6
    <3> QED BY <2>1, <2>2, <2>8, <3>1, <3>2 DEF InStep
  <2>10. Named' /\ \A d \in comments' : d.last = d.para
    BY <2>1, <2>5, <2>8 DEF Tidy, Named
  <2>11. Marked'
    <3>1. \A d \in comments : HasParent(d)' <=> HasParent(d)
      BY <2>1 DEF HasParent
    <3>2. Roots' \subseteq Roots \cup {def} /\ Roots \subseteq Roots' /\ Roots \subseteq comments
      BY <2>1, <2>5, <3>1 DEF Roots
    <3>3. Wanted = {d.id : d \in Roots} /\ Wanted' = {d.id : d \in Roots'} \ {id}
      <4>1. calls[c].pc \notin {"write", "link"} /\ calls'[c].pc = "link" /\ calls'[c].id = id
        BY <1>1, <2>2
      <4> QED BY <2>4, <4>1, WantedNow, WantedNext
    <3>4. Wanted' = Wanted
      BY <2>7, <2>8, <3>2, <3>3
    <3> QED BY <1>1, <2>1, <3>4 DEF Tidy, Marked, OneEach, Ranged, Referenced
  <2> QED BY <2>2, <2>4, <2>9, <2>10, <2>11
<1> QED BY <1>2, <1>3

LEMMA LinkKeepsTidy ==
  ASSUME Guarded, Tidy, NEW c \in Callers, Link(c)
  PROVE  Tidy'
<1> DEFINE row == Row(calls[c].no, calls[c].parent)
<1>1. /\ c \in Running /\ calls[c].pc = "link" /\ rows' = calls[c].rows \cup {row}
      /\ calls' = [calls EXCEPT ![c] = [calls[c] EXCEPT !.rows = rows', !.pc = "ensure"]]
      /\ UNCHANGED <<comments, marks, left, overlap, rejected>>
  BY DEF Link, Row, Running, Guarded, Types, CallRecords
<1>2. /\ calls'[c].pc = "ensure" /\ calls'[c].rows = rows'
      /\ calls'[c].parent = calls[c].parent /\ calls'[c].no = calls[c].no
      /\ calls'[c].req = calls[c].req /\ calls'[c].alone = calls[c].alone
  BY <1>1 DEF Guarded, Types, CallRecords
<1>3. Moves(c) /\ GoesOn(c)
  BY <1>1, <1>2 DEF Guarded, Types, Moves, GoesOn
<1> SUFFICES ASSUME ~overlap
             PROVE  /\ \A d \in Running' : calls'[d].alone /\ InStep(d)'
                    /\ \A d \in comments' : d.last = d.para
                    /\ Named' /\ Marked'
  BY <1>1 DEF Tidy
<1>4. Running = {c} /\ Running' = {c} /\ InStep(c) /\ calls[c].alone /\ AtStage(calls[c])
  BY <1>1, <1>2, <1>3, OnlyCall, RunningNext DEF Tidy
<1>5. rows' = rows \cup {row} /\ calls[c].parent # 0
  BY <1>1, <1>4 DEF InStep, AtStage
<1>6. row.para = calls[c].no /\ row.parent = calls[c].parent
  BY DEF Row
<1>7. PICK def \in comments : def.id = calls[c].id /\ \A e \in comments : e.last = calls[c].no <=> e = def
  BY <1>1, <1>4 DEF InStep
<1> HIDE DEF row
<1>8. InStep(c)'
  BY <1>1, <1>2, <1>4 DEF InStep
<1>9. Named' /\ \A d \in comments' : d.last = d.para
  <2>1. \E d \in comments : d.last = row.parent
    BY <1>1, <1>4, <1>6 DEF InStep
  <2>2. \E d \in comments : d.last = row.para
    BY <1>6, <1>7
  <2> QED BY <1>1, <1>5, <2>1, <2>2 DEF Tidy, Named
<1>10. Marked'
  <2>1. \A d \in comments : HasParent(d)' <=> (HasParent(d) \/ d = def)
    BY <1>5, <1>6, <1>7 DEF HasParent
  <2>2. Roots' = Roots \ {def} /\ Roots \subseteq comments
    BY <1>1, <2>1 DEF Roots
  <2>3. Wanted = {d.id : d \in Roots} \ {def.id} /\ Wanted' = {d.id : d \in Roots'}
    BY <1>1, <1>2, <1>4, <1>7, WantedNow, WantedNext
  <2>4. \A d \in comments : d.id = def.id => d = def
    BY DEF Guarded, Sound, Versions
  <2>5. Wanted' = Wanted
    BY <2>2, <2>3, <2>4
  <2> QED BY <1>1, <2>5 DEF Tidy, Marked, OneEach, Ranged, Referenced
<1> QED BY <1>2, <1>4, <1>8, <1>9, <1>10

LEMMA RemoveThreadKeepsTidy ==
  ASSUME Guarded, Tidy, NEW c \in Callers, RemoveThread(c)
  PROVE  Tidy'
<1> DEFINE target == Definition(calls[c].read, calls[c].req.id)
           paras == Thread(calls[c].rows, target.para)
           ids == {calls[c].req.id} \cup {d.id : d \in {x \in calls[c].read : x.para \in paras}}
<1>1. /\ c \in Running /\ calls[c].pc = "remove"
      /\ comments' = {d \in calls[c].read : d.id \notin ids}
      /\ rows' = {r \in calls[c].rows : r.para \notin paras}
      /\ marks' = UNION {IF m.id \in ids THEN Unmarked(m) ELSE {m} : m \in marks}
      /\ calls' = [calls EXCEPT ![c] = Idle]
      /\ UNCHANGED <<left, overlap, rejected>>
  BY DEF RemoveThread, Running
<1>2. Moves(c) /\ calls'[c].pc = "idle"
  BY <1>1 DEF Guarded, Types, Moves, Idle
<1> SUFFICES ASSUME ~overlap
             PROVE  /\ \A d \in Running' : calls'[d].alone /\ InStep(d)'
                    /\ \A d \in comments' : d.last = d.para
                    /\ Named' /\ Marked'
  BY <1>1 DEF Tidy
<1>3. Running = {c} /\ Running' = {} /\ InStep(c) /\ AtStage(calls[c])
  BY <1>1, <1>2, OnlyCall, RunningNext
<1>4. /\ calls[c].read = comments /\ calls[c].rows = rows
      /\ \A d \in comments : d.last = d.para
  BY <1>1, <1>3 DEF InStep, Tidy
<1>5. target \in comments /\ target.id = calls[c].req.id
  BY <1>1, <1>3, <1>4, DefinitionIsThere DEF AtStage
<1>6. \A d, e \in comments : d.id = e.id => d = e
  BY DEF Guarded, Sound, Versions
<1>7. /\ target.para # 0 => target.para \in paras
      /\ \A r \in rows : r.para # 0 /\ (r.parent \in paras => r.para \in paras)
  <2>1. rows \in SUBSET Rows /\ target.para \in Nat
    BY <1>5 DEF Guarded, Types, Defs
  <2>2. \A r \in rows : r.para # 0
    BY DEF Guarded, Sound, RowVersions
  <2> HIDE DEF target
  <2> QED BY <1>4, <2>1, <2>2, ThreadIsClosed
<1> HIDE DEF target, paras
<1>8. \A d \in comments : d.para # 0 => (d.id \in ids <=> d.para \in paras)
  BY <1>4, <1>5, <1>6, <1>7
<1>9. \A d \in comments : d.id \notin ids => d.para \notin paras
  BY <1>4
<1> HIDE DEF ids
<1>10. Named'
  <2> SUFFICES ASSUME NEW r \in rows'
               PROVE  /\ \E d \in comments' : d.last = r.para
                      /\ r.parent # 0 => \E d \in comments' : d.last = r.parent
    BY DEF Named
  <2>1. r \in rows /\ r.para \notin paras /\ r.parent \notin paras /\ r.para # 0
    BY <1>1, <1>4, <1>7
  <2>2. Named
    BY DEF Tidy
  <2>3. \E d \in comments' : d.last = r.para
    BY <1>1, <1>4, <1>8, <2>1, <2>2 DEF Named
  <2>4. ASSUME r.parent # 0 PROVE \E d \in comments' : d.last = r.parent
    BY <1>1, <1>4, <1>8, <2>1, <2>2, <2>4 DEF Named
  <2> QED BY <2>3, <2>4
<1>11. Marked'
  <2>1. \A d \in comments' : d \in comments /\ (HasParent(d)' <=> HasParent(d))
    BY <1>1, <1>4, <1>9 DEF HasParent
  <2>2. Roots' = {d \in Roots : d.id \notin ids}
    BY <1>1, <1>4, <2>1 DEF Roots
  <2>3. Wanted = {d.id : d \in Roots} /\ Wanted' = {d.id : d \in Roots'}
    BY <1>1, <1>3, WantedNow, WantedAtRest
  <2>4. Wanted' = Wanted \ ids
    BY <2>2, <2>3
  <2>5. \A m \in Marks : \A b \in Unmarked(m) : ~b.range /\ "del" \in b.in
    BY DEF Unmarked, Marks
  <2>6. /\ \A m \in marks' : (m \in marks /\ m.id \notin ids) \/ (~m.range /\ "del" \in m.in)
        /\ \A m \in marks : m.id \notin ids => m \in marks'
    BY <1>1, <2>5 DEF Guarded, Types
  <2>7. /\ Ranged' = {m \in Ranged : m.id \notin ids}
        /\ Referenced' = {m \in Referenced : m.id \notin ids}
    BY <2>6 DEF Ranged, Referenced
  <2>8. ASSUME NEW S, OneEach(S, Wanted)
        PROVE  OneEach({m \in S : m.id \notin ids}, Wanted \ ids)
    BY <2>8 DEF OneEach
  <2>9. Marked
    BY DEF Tidy
  <2>10. OneEach(Ranged, Wanted)'
    <3>1. OneEach({m \in Ranged : m.id \notin ids}, Wanted \ ids)
      BY <2>8, <2>9 DEF Marked
    <3> QED BY <2>4, <2>7, <3>1 DEF OneEach
  <2>11. ASSUME ~rejected' PROVE OneEach(Referenced, Wanted)'
    <3>1. OneEach({m \in Referenced : m.id \notin ids}, Wanted \ ids)
      BY <1>1, <2>8, <2>9, <2>11 DEF Marked
    <3> QED BY <2>4, <2>7, <3>1 DEF OneEach
  <2> QED BY <2>10, <2>11 DEF Marked
<1> QED BY <1>1, <1>3, <1>4, <1>10, <1>11

(* Resolving the revisions around a reference leaves its comment as it is. *)
LEMMA ResolveKeepsTidy ==
  ASSUME Guarded, Tidy, AcceptAIEdits \/ RejectAIEdits
  PROVE  Tidy'
<1> DEFINE after(m, drop) == [m EXCEPT !.ref = @ /\ drop \notin m.in, !.in = {}]
<1>1. UNCHANGED <<comments, rows, calls, left, overlap>>
  BY DEF AcceptAIEdits, RejectAIEdits
<1>2. Roots' = Roots /\ Running' = Running /\ Wanted' = Wanted
  BY <1>1 DEF Roots, HasParent, Running, Wanted
<1>3. \A m \in marks, drop \in {"ins", "del"} :
        /\ after(m, drop).range = m.range /\ after(m, drop).id = m.id
        /\ after(m, drop).ref <=> (m.ref /\ drop \notin m.in)
        /\ after(m, drop).in = {}
  BY DEF Guarded, Types, Marks
<1>4. PICK drop \in {"ins", "del"} :
        /\ marks' = UNION {Resolved(m, drop) : m \in marks}
        /\ drop = "del" => rejected' = rejected
        /\ drop = "ins" => rejected'
  BY DEF AcceptAIEdits, RejectAIEdits
<1>5. \A m \in marks : Resolved(m, drop) =
        {b \in {after(m, drop)} : b.ref \/ b.range}
  BY DEF Resolved
<1> HIDE DEF after
<1>6. /\ \A b \in marks' : \E m \in marks : b = after(m, drop)
      /\ \A m \in marks : after(m, drop).ref \/ after(m, drop).range => after(m, drop) \in marks'
  BY <1>4, <1>5
<1>7. ASSUME NEW ids, OneEach(Ranged, ids) PROVE OneEach(Ranged', ids)
  <2>1. \A b \in Ranged' : \E m \in Ranged : b = after(m, drop) /\ b.id = m.id
    BY <1>3, <1>6 DEF Ranged
  <2>2. \A m \in Ranged : \E b \in Ranged' : b.id = m.id
    BY <1>3, <1>6 DEF Ranged
  <2> QED BY <1>7, <2>1, <2>2 DEF OneEach
<1>8. ASSUME drop = "del", NEW ids, OneEach(Referenced, ids) PROVE OneEach(Referenced', ids)
  <2>1. \A b \in Referenced' : \E m \in Referenced : b = after(m, drop) /\ b.id = m.id
    BY <1>3, <1>6, <1>8 DEF Referenced
  <2>2. \A m \in Referenced : \E b \in Referenced' : b.id = m.id
    BY <1>3, <1>6, <1>8 DEF Referenced
  <2> QED BY <1>8, <2>1, <2>2 DEF OneEach
<1>9. Marked => Marked'
  <2> SUFFICES ASSUME Marked
               PROVE  OneEach(Ranged', Wanted') /\ (~rejected' => OneEach(Referenced', Wanted'))
    BY DEF Marked, OneEach
  <2>1. OneEach(Ranged', Wanted')
    BY <1>2, <1>7 DEF Marked
  <2>2. ASSUME ~rejected' PROVE OneEach(Referenced', Wanted')
    BY <1>2, <1>4, <1>8, <2>2 DEF Marked
  <2> QED BY <2>1, <2>2
<1> QED BY <1>1, <1>2, <1>9 DEF Tidy, Named, InStep

LEMMA BeginKeepsTidy ==
  ASSUME Guarded, Tidy, NEW c \in Callers, NEW q \in Requests, Begin(c, q)
  PROVE  Tidy'
<1> DEFINE new == [Idle EXCEPT !.pc = "read", !.req = q, !.no = Used + 1, !.alone = (Running = {})]
<1>1. /\ overlap' = (overlap \/ Running # {})
      /\ calls' = [x \in Callers |-> IF x = c THEN new ELSE [calls[x] EXCEPT !.alone = FALSE]]
      /\ UNCHANGED <<comments, rows, marks, rejected>>
  BY DEF Begin, parts, Used
<1> SUFFICES ASSUME ~overlap'
             PROVE  /\ \A d \in Running' : calls'[d].alone /\ InStep(d)'
                    /\ \A d \in comments' : d.last = d.para
                    /\ Named' /\ Marked'
  BY DEF Tidy
<1>2. ~overlap /\ Running = {}
  BY <1>1
<1>3. new.pc = "read" /\ new.no = Used + 1 /\ new.alone
  BY <1>2 DEF Idle
<1> HIDE DEF new
<1>4. calls'[c] = new /\ \A d \in Callers \ {c} : calls[d].pc = "idle" /\ calls'[d].pc = "idle"
  <2>1. \A d \in Callers \ {c} : calls[d].pc = "idle" /\ calls[d] \in CallRecords
    BY <1>2 DEF Running, Guarded, Types
  <2>2. \A d \in Callers \ {c} : calls'[d] = [calls[d] EXCEPT !.alone = FALSE]
    BY <1>1
  <2> QED BY <1>1, <2>1, <2>2 DEF CallRecords
<1>5. Running' = {c}
  BY <1>3, <1>4 DEF Running
<1>6. \A d \in comments : d.last # Used + 1
  <2>1. \A d \in comments : d.last = d.para /\ d.para \in Nat /\ d.para <= Used
    BY <1>2 DEF Tidy, Guarded, Sound, Versions, Types, Defs
  <2>2. Used \in Int
    BY CommentPartsAssumption, FileAssumption DEF Guarded, Types, Used
  <2> QED BY <2>1, <2>2
<1>7. \A d \in Running' : calls'[d].alone /\ InStep(d)'
  BY <1>1, <1>3, <1>4, <1>5, <1>6 DEF InStep
<1>8. Roots' = Roots
  BY <1>1 DEF Roots, HasParent
<1>9. Wanted' = Wanted
  <2>1. Wanted = {d.id : d \in Roots}
    BY <1>2 DEF Wanted
  <2> QED BY <1>3, <1>4, <1>5, <1>8, <2>1, WantedNext
<1> QED BY <1>1, <1>2, <1>7, <1>9 DEF Tidy, Named, Marked, OneEach, Ranged, Referenced

LEMMA StepKeepsTidy ==
  ASSUME Guarded, Tidy, [Next]_vars
  PROVE  Tidy'
<1>1. CASE UNCHANGED vars
  <2>1. UNCHANGED <<comments, rows, marks, calls, left, overlap, rejected>>
    BY <1>1 DEF vars, parts
  <2>2. Wanted' = Wanted /\ Running' = Running
    BY <2>1 DEF Wanted, Roots, HasParent, Running
  <2> QED BY <2>1, <2>2 DEF Tidy, InStep, Named, Marked, OneEach, Ranged, Referenced
<1>2. ASSUME NEW c \in Callers, NEW r \in Requests, Begin(c, r) PROVE Tidy'
  BY <1>2, BeginKeepsTidy
<1>3. ASSUME NEW c \in Callers, Read(c) PROVE Tidy'
  BY <1>3, ReadKeepsTidy
<1>4. ASSUME NEW c \in Callers, InsertMarkers(c) PROVE Tidy'
  BY <1>4, InsertMarkersKeepsTidy
<1>5. ASSUME NEW c \in Callers, WriteRoot(c) PROVE Tidy'
  BY <1>5, WriteRootKeepsTidy
<1>6. ASSUME NEW c \in Callers, WriteReply(c) PROVE Tidy'
  BY <1>6, WriteReplyKeepsTidy
<1>7. ASSUME NEW c \in Callers, Link(c) PROVE Tidy'
  BY <1>7, LinkKeepsTidy
<1>8. ASSUME NEW c \in Callers, Ensure(c) PROVE Tidy'
  BY <1>8, EnsureKeepsTidy
<1>9. ASSUME NEW c \in Callers, AddAuthor(c) PROVE Tidy'
  BY <1>9, AddAuthorKeepsTidy
<1>10. ASSUME NEW c \in Callers, FindTarget(c) PROVE Tidy'
  BY <1>10, FindTargetKeepsTidy
<1>11. ASSUME NEW c \in Callers, RemoveThread(c) PROVE Tidy'
  BY <1>11, RemoveThreadKeepsTidy
<1>12. CASE AcceptAIEdits \/ RejectAIEdits
  BY <1>12, ResolveKeepsTidy
<1> QED BY <1>1, <1>2, <1>3, <1>4, <1>5, <1>6, <1>7, <1>8, <1>9, <1>10, <1>11, <1>12 DEF Next

(* As long as no two calls overlap the four parts agree whenever none      *)
(* runs: each id defined once, markers for exactly the root comments, and  *)
(* no row of a comment that is gone, after any number of comments, replies *)
(* and deletions, and of accepted and rejected revisions in between.       *)
THEOREM PartsAgreeHolds ==
  ASSUME SingleParagraph, RowsNameComments
  PROVE  Spec => []PartsAgree
<1>1. Init => Guarded /\ Tidy
  BY InitGuarded, InitTidy
<1>2. Guarded /\ Tidy /\ [Next]_vars => Guarded' /\ Tidy'
  BY StepKeepsGuarded, StepKeepsTidy
<1>3. Guarded /\ Tidy => PartsAgree
  <2> SUFFICES ASSUME Guarded, Tidy, ~overlap, Running = {}
               PROVE  /\ \A d, e \in comments : d.id = e.id => d = e
                      /\ {m.id : m \in Ranged} = RootIds
                      /\ \A m, k \in Ranged : m.id = k.id => m = k
                      /\ ~rejected => /\ {m.id : m \in Referenced} = RootIds
                                      /\ \A m, k \in Referenced : m.id = k.id => m = k
                      /\ \A r \in rows : {r.para, r.parent} \ {0} \subseteq {d.last : d \in comments}
    BY DEF PartsAgree, Single
  <2>1. \A d, e \in comments : d.id = e.id => d = e
    BY DEF Guarded, Sound, Versions
  <2>2. \A d \in comments : IsReply(d) <=> HasParent(d)
    BY DEF IsReply, ParentsIn, HasParent
  <2>3. Wanted = RootIds
    BY <2>2 DEF Wanted, Roots, RootIds
  <2>4. Marked /\ Named
    BY DEF Tidy
  <2>5. \A r \in rows : {r.para, r.parent} \ {0} \subseteq {d.last : d \in comments}
    BY <2>4 DEF Named
  <2> QED BY <2>1, <2>3, <2>4, <2>5 DEF Marked, OneEach
<1> QED BY <1>1, <1>2, <1>3, PTL DEF Spec
===============================================================================
