------------------------------- MODULE EditTools ------------------------------
(***************************************************************************)
(* The tools replace_text, insert_paragraph and batch_edit of docx-mcp on  *)
(* the sessions of one file, with calls that overlap.  Every await is the  *)
(* end of an action: between two actions of a call others run.             *)
(*                                                                         *)
(* A standalone edit resolves its session, waits for the revision-id       *)
(* counter, looks its text up, tries the edit on a copy and then applies   *)
(* it at the place it found before the trial.  A batch checks all steps    *)
(* against the text it finds, tries them on a copy and then makes each     *)
(* step resolve the session and look its text up again.                    *)
(*                                                                         *)
(* Text is matched exactly; the looser stages of the matcher and markup in *)
(* the new text are left out.                                              *)
(***************************************************************************)
EXTENDS Redlines

CONSTANTS
  Callers,
  File,      \* the document on disk
  AI,        \* the author of the session
  Tracked,   \* the session has an author
  Requests,  \* [batch, steps]: what a caller may ask for
  MaxCalls,  \* bound on the number of calls
  MaxCloses  \* bound on the number of close_file calls

ASSUME EditToolsAssumption ==
  /\ MaxCalls \in Nat /\ MaxCloses \in Nat
  /\ Tracked \in BOOLEAN
  /\ IsFiniteSet(Callers)

(* Whoever may be named by a revision. *)
Authors == {AI} \cup {e.by : e \in Elements(File)}

ASSUME FileAssumption == File \in Documents(Markup(Authors))

(* A request that is not a batch has one step. *)
StepRecords ==
  [op : {"replace"}, pid : Nat, old : Seq(Tokens), new : Seq(Tokens)]
  \cup [op : {"insert"}, pid : Nat, pos : {"BEFORE", "AFTER"}, new : Seq(Tokens)]

ASSUME RequestsAssumption ==
  \A r \in Requests :
    /\ r \in [batch : BOOLEAN, steps : Seq(StepRecords)]
    /\ r.steps # <<>> /\ (~r.batch => Len(r.steps) = 1)

VARIABLES
  sessions,  \* every session so far: [doc, next, scan, crossed]
  current,   \* the session of the file, 0 if it is closed
  calls,     \* the last or running call of each caller
  left,      \* calls that may still begin, bounded by MaxCalls
  closes,    \* closings so far, bounded by MaxCloses
  missed     \* auxiliary: edits applied where others had edited since their match

vars == <<sessions, current, calls, left, closes, missed>>

Steps == UNION {Range(r.steps) : r \in Requests}

(***************************************************************************)
(* A session starts from the file; next is the counter of revision ids     *)
(* (0: not seeded), scan the seed a running scan will give (0: none),      *)
(* crossed (auxiliary) whether a batch of another session wrote into it.   *)
(***************************************************************************)
NewSession == [doc |-> File, next |-> 0, scan |-> 0, crossed |-> FALSE]

(* A call: its place, its request, its session (at: that of a batch step), *)
(* the seed it waits for, the range it found, the steps done, its answer;  *)
(* auxiliary: the paragraphs others edited in its session since it looked, *)
(* and the text a batch is meant to give.                                  *)
Idle == [pc |-> "idle", req |-> [batch |-> FALSE, steps |-> <<>>], home |-> 0, at |-> 0, seed |-> 0,
         range |-> <<0, 0>>, done |-> 0, out |-> "none", moved |-> {}, goal |-> <<>>]

Init ==
  /\ sessions = <<>>
  /\ current = 0
  /\ calls = [c \in Callers |-> Idle]
  /\ left = MaxCalls
  /\ closes = 0
  /\ missed = 0

(* A bug: the ids of the file are not looked at. *)
FirstId(d) == 1

FreshId(d) == IF Revisions(d) = {} THEN 1 ELSE Max(Ids(Revisions(d))) + 1

FreshPid(d) == Max({p.id : p \in Range(d)}) + 1

Paragraph(d, pid) == d[IndexOf(d, pid)]

(* findUniqueSubstringMatch, exact stage: the start of every occurrence. *)
Matches(text, old) ==
  {s \in 0..(Len(text) - Len(old)) : old # <<>> /\ SubSeq(text, s + 1, s + Len(old)) = old}

(* A bug: one of several occurrences will do. *)
FindsAny(d, step) ==
  /\ HasParagraph(d, step.pid)
  /\ step.op = "replace" => Matches(TextOf(Paragraph(d, step.pid)), step.old) # {}

Finds(d, step) ==
  /\ HasParagraph(d, step.pid)
  /\ step.op = "replace" => Cardinality(Matches(TextOf(Paragraph(d, step.pid)), step.old)) = 1

Found(d, step) ==
  IF step.op = "insert" THEN <<0, 0>>
  ELSE LET s == CHOOSE s \in Matches(TextOf(Paragraph(d, step.pid)), step.old) : TRUE
       IN <<s, s + Len(step.old)>>

(* The common prefix and suffix of old and new text are left alone. *)
Trimmed(step, range) ==
  LET shorter == Min({Len(step.old), Len(step.new)})
      pre == Max({n \in 0..shorter : SubSeq(step.old, 1, n) = SubSeq(step.new, 1, n)})
      ends(n) == SubSeq(step.old, Len(step.old) - n + 1, Len(step.old))
                 = SubSeq(step.new, Len(step.new) - n + 1, Len(step.new))
      post == Max({n \in 0..(shorter - pre) : ends(n)})
  IN [s |-> range[1] + pre, e |-> range[2] - post,
      new |-> SubSeq(step.new, pre + 1, Len(step.new) - post)]

(* Whether the step can be applied to the document at the range, and the   *)
(* document and revision counter after it.                                 *)
Applies(d, step, t) ==
  /\ HasParagraph(d, step.pid)
  /\ step.op = "replace" => ~Refused(Paragraph(d, step.pid), t.s, t.e)

Applied(d, next, step, t) ==
  LET j == IndexOf(d, step.pid) IN
  CASE step.op = "replace" /\ Tracked ->
         LET r == TrackedReplace(d[j], t.s, t.e, t.new, AI, next)
         IN [doc |-> [d EXCEPT ![j] = r.p], next |-> r.next]
    [] step.op = "replace" /\ ~Tracked ->
         [doc |-> PlainReplace(d, j, t.s, t.e, t.new), next |-> next]
    [] step.op = "insert" /\ Tracked ->
         [doc |-> TrackedInsert(d, j, step.pos, FreshPid(d), step.new, AI, next), next |-> next + 2]
    [] step.op = "insert" /\ ~Tracked ->
         [doc |-> PlainInsert(d, j, step.pos, FreshPid(d), step.new), next |-> next]

-------------------------------------------------------------------------------
Doc(c) == sessions[calls[c].home].doc
OnlyStep(c) == calls[c].req.steps[1]

Answer(c, out) == [calls EXCEPT ![c].pc = "idle", ![c].out = out]

(* handleCallTool: nothing keeps a call waiting for another one. *)
Begin(c, r) ==
  /\ calls[c].pc = "idle" /\ left > 0
  /\ calls' = [calls EXCEPT ![c] = [Idle EXCEPT !.pc = "resolve", !.req = r]]
  /\ left' = left - 1
  /\ UNCHANGED <<sessions, current, closes, missed>>

(* resolveSessionForTool: the open session, or a new one from the file.    *)
Opened == IF current = 0 THEN Append(sessions, NewSession) ELSE sessions
OpenAt == IF current = 0 THEN Len(sessions) + 1 ELSE current

GetSession(c) ==
  /\ calls[c].pc = "resolve"
  /\ sessions' = Opened
  /\ current' = OpenAt
  /\ calls' = [calls EXCEPT ![c].home = OpenAt,
                 ![c].pc = IF calls[c].req.batch THEN "validate"
                           ELSE IF Tracked THEN "context" ELSE "match"]
  /\ UNCHANGED <<left, closes, missed>>

(* getRevisionContextForSession: the first callers of a session share one  *)
(* scan for used ids; the counter is set once.                             *)
AfterContext(c) == IF calls[c].req.batch THEN "preview" ELSE "match"

HaveContext(c) ==
  /\ calls[c].pc = "context" /\ sessions[calls[c].home].next # 0
  /\ calls' = [calls EXCEPT ![c].pc = AfterContext(c)]
  /\ UNCHANGED <<sessions, current, left, closes, missed>>

StartScan(c) ==
  LET s == sessions[calls[c].home]
      seed == IF s.scan # 0 THEN s.scan ELSE FreshId(s.doc) IN
  /\ calls[c].pc = "context" /\ s.next = 0
  /\ sessions' = [sessions EXCEPT ![calls[c].home].scan = seed]
  /\ calls' = [calls EXCEPT ![c].pc = "scan", ![c].seed = seed]
  /\ UNCHANGED <<current, left, closes, missed>>

(* A bug: a scan that ends sets the counter, whatever it is. *)
SeededAgain(next, seed) == seed

(* A bug: the counter of the scan is not kept. *)
SeededForOne(next, seed) == next

Seeded(next, seed) == IF next = 0 THEN seed ELSE next

EndScan(c) ==
  /\ calls[c].pc = "scan"
  /\ sessions' = [sessions EXCEPT ![calls[c].home].next = Seeded(@, calls[c].seed),
                                  ![calls[c].home].scan = 0]
  /\ calls' = [calls EXCEPT ![c].pc = AfterContext(c)]
  /\ UNCHANGED <<current, left, closes, missed>>

(* Auxiliary: 0, which is no paragraph, stands for a closed session. *)
Apart(c) == IF calls[c].home = current THEN {} ELSE {0}

(* replaceText and insertParagraph up to the trial: the text is looked up. *)
Match(c) ==
  /\ calls[c].pc = "match"
  /\ calls' =
       IF ~Finds(Doc(c), OnlyStep(c)) THEN Answer(c, "refused")
       ELSE [calls EXCEPT ![c].range = Found(Doc(c), OnlyStep(c)), ![c].moved = Apart(c),
                          ![c].pc = IF Tracked THEN "preview" ELSE "mutate"]
  /\ UNCHANGED <<sessions, current, left, closes, missed>>

(* validateSteps: each step against the text before the batch. *)
RangesOverlap(a, b) == a[1] < b[2] /\ b[1] < a[2]

(* The hard conflicts of two steps. *)
Conflict(d, a, b) ==
  /\ a.op = b.op /\ a.pid = b.pid
  /\ IF a.op = "replace" THEN RangesOverlap(Found(d, a), Found(d, b)) ELSE a.pos = b.pos

Acceptable(d, steps) ==
  /\ \A i \in DOMAIN steps : Finds(d, steps[i])
  /\ \A i, k \in DOMAIN steps : i # k => ~Conflict(d, steps[i], steps[k])

View(d) == [j \in DOMAIN d |-> [id |-> d[j].id, text |-> TextOf(d[j])]]

(* Auxiliary: what the token at place k of paragraph pid becomes when the  *)
(* ranges found by the first n steps are all replaced at the same time,    *)
(* the text that the first k tokens become,                                *)
Covering(d, steps, n, pid, k) ==
  {i \in 1..n : /\ steps[i].op = "replace" /\ steps[i].pid = pid
                /\ Found(d, steps[i])[1] < k /\ k <= Found(d, steps[i])[2]}

Piece(d, steps, n, pid, k) ==
  LET at == Covering(d, steps, n, pid, k)
      i == CHOOSE i \in at : TRUE
  IN IF at = {} THEN <<TextOf(Paragraph(d, pid))[k]>>
     ELSE IF k = Found(d, steps[i])[1] + 1 THEN steps[i].new ELSE <<>>

SubstitutedUpTo(d, steps, n, pid) ==
  LET upTo[k \in 0..Len(TextOf(Paragraph(d, pid)))] ==
        IF k = 0 THEN <<>> ELSE upTo[k - 1] \o Piece(d, steps, n, pid, k)
  IN upTo

Substituted(d, steps, n, pid) ==
  SubstitutedUpTo(d, steps, n, pid)[Len(TextOf(Paragraph(d, pid)))]

(* the paragraphs with the new ones of the first n steps, and both.        *)
InsertedNext(view, step) ==
  IF step.op = "replace" THEN view
  ELSE InsertedAt(view, IndexOf(view, step.pid), step.pos, [id |-> FreshPid(view), text |-> step.new])

InsertedUpTo(d, steps) ==
  LET upTo[n \in 0..Len(steps)] ==
        IF n = 0 THEN View(d) ELSE InsertedNext(upTo[n - 1], steps[n])
  IN upTo

GoalAfter(d, steps, n) ==
  LET view == InsertedUpTo(d, steps)[n] IN
  [j \in DOMAIN view |->
     IF HasParagraph(d, view[j].id)
     THEN [id |-> view[j].id, text |-> Substituted(d, steps, n, view[j].id)] ELSE view[j]]

Goal(d, steps) == GoalAfter(d, steps, Len(steps))

Validate(c) ==
  /\ calls[c].pc = "validate"
  /\ calls' =
       IF ~Acceptable(Doc(c), calls[c].req.steps) THEN Answer(c, "refused")
       ELSE [calls EXCEPT ![c].moved = Apart(c), ![c].goal = Goal(Doc(c), calls[c].req.steps),
                          ![c].pc = IF Tracked THEN "context" ELSE "steps"]
  /\ UNCHANGED <<sessions, current, left, closes, missed>>

(* executeStepsOnDoc: every step finds its text and can be applied, on a   *)
(* copy that has the steps before it.                                      *)
Whole(d, step) == LET r == Found(d, step) IN [s |-> r[1], e |-> r[2], new |-> step.new]

RehearsedNext(acc, step) ==
  LET whole == Whole(acc.doc, step)
      r == Applied(acc.doc, acc.next, step, whole)
  IN IF acc.ok /\ Finds(acc.doc, step) /\ Applies(acc.doc, step, whole)
     THEN [ok |-> TRUE, doc |-> r.doc, next |-> r.next] ELSE [acc EXCEPT !.ok = FALSE]

RehearsedUpTo(d, next, steps) ==
  LET upTo[n \in 0..Len(steps)] ==
        IF n = 0 THEN [ok |-> TRUE, doc |-> d, next |-> next]
        ELSE RehearsedNext(upTo[n - 1], steps[n])
  IN upTo

Rehearsed(d, next, steps) == RehearsedUpTo(d, next, steps)[Len(steps)].ok

(* A bug: the copy is only checked against each step alone. *)
PassesAlone(c) ==
  \A i \in DOMAIN calls[c].req.steps :
    Rehearsed(Doc(c), sessions[calls[c].home].next, <<calls[c].req.steps[i]>>)

(* preflightAiRevisionMutation: the trial on a copy, where a standalone    *)
(* edit uses the range it found before.                                    *)
Passes(c) ==
  IF calls[c].req.batch THEN Rehearsed(Doc(c), sessions[calls[c].home].next, calls[c].req.steps)
  ELSE Applies(Doc(c), OnlyStep(c), Trimmed(OnlyStep(c), calls[c].range))

Preview(c) ==
  /\ calls[c].pc = "preview"
  /\ calls' = IF Passes(c)
              THEN [calls EXCEPT ![c].pc = IF calls[c].req.batch THEN "steps" ELSE "mutate"]
              ELSE Answer(c, "refused")
  /\ UNCHANGED <<sessions, current, left, closes, missed>>

(* Auxiliary: the others learn that session s was edited. *)
Noted(answers, c, s, pid) ==
  [x \in Callers |-> IF x # c /\ calls[x].home = s
                     THEN [answers[x] EXCEPT !.moved = @ \cup {pid}] ELSE answers[x]]

Touched(d, step) == IF step.op = "replace" THEN step.pid ELSE FreshPid(d)

(* The standalone edit of the session's document, at the range found       *)
(* before the trial.                                                       *)
Mutate(c) ==
  LET s == calls[c].home
      step == OnlyStep(c)
      t == Trimmed(step, calls[c].range)
      r == Applied(Doc(c), sessions[s].next, step, t) IN
  /\ calls[c].pc = "mutate"
  /\ IF Applies(Doc(c), step, t)
     THEN /\ sessions' = [sessions EXCEPT ![s].doc = r.doc, ![s].next = r.next]
          /\ calls' = Noted(Answer(c, "ok"), c, s, Touched(Doc(c), step))
          /\ missed' = missed + (IF step.op = "replace" /\ step.pid \in calls[c].moved THEN 1 ELSE 0)
     ELSE /\ calls' = Answer(c, "refused")
          /\ UNCHANGED <<sessions, missed>>
  /\ UNCHANGED <<current, left, closes>>

(* executeSteps: the next step resolves the session again,                 *)
StepSession(c) ==
  /\ calls[c].pc = "steps"
  /\ sessions' = Opened
  /\ current' = OpenAt
  /\ calls' = [calls EXCEPT ![c].pc = "step", ![c].at = OpenAt]
  /\ UNCHANGED <<left, closes, missed>>

(* and is done there, with the revision counter of the session the batch   *)
(* began with.                                                             *)
Step(c) ==
  LET step == calls[c].req.steps[calls[c].done + 1]
      home == calls[c].home
      s == calls[c].at
      d == sessions[s].doc
      t == Trimmed(step, Found(d, step))
      r == Applied(d, sessions[home].next, step, t)
      last == calls[c].done + 1 = Len(calls[c].req.steps)
      stepped == [IF last THEN Answer(c, "ok") ELSE [calls EXCEPT ![c].pc = "steps"]
                  EXCEPT ![c].done = @ + 1] IN
  /\ calls[c].pc = "step"
  /\ IF Finds(d, step) /\ Applies(d, step, t)
     THEN /\ sessions' = [sessions EXCEPT ![home].next = r.next, ![s].doc = r.doc,
                                          ![s].crossed = @ \/ s # home]
          /\ calls' = Noted(stepped, c, s, Touched(d, step))
     ELSE /\ calls' = Answer(c, "partial")
          /\ UNCHANGED sessions
  /\ UNCHANGED <<current, left, closes, missed>>

(* close_file *)
CloseFile ==
  /\ current # 0 /\ closes < MaxCloses
  /\ closes' = closes + 1
  /\ current' = 0
  /\ calls' = [c \in Callers |-> IF calls[c].home = current
                                 THEN [calls[c] EXCEPT !.moved = @ \cup {0}] ELSE calls[c]]
  /\ UNCHANGED <<sessions, left, missed>>

Next ==
  \/ \E c \in Callers :
       \/ \E r \in Requests : Begin(c, r)
       \/ GetSession(c) \/ HaveContext(c) \/ StartScan(c) \/ EndScan(c)
       \/ Match(c) \/ Validate(c) \/ Preview(c) \/ Mutate(c) \/ StepSession(c) \/ Step(c)
  \/ CloseFile

Spec == Init /\ [][Next]_vars

-------------------------------------------------------------------------------
(* Types: a running call has a session, and nothing is tracked before the  *)
(* counter is set.                                                         *)
TypeOK ==
  /\ current \in 0..Len(sessions)
  /\ \A c \in Callers :
       /\ calls[c].pc \notin {"idle", "resolve"} => calls[c].home \in DOMAIN sessions
       /\ calls[c].pc \in {"preview", "mutate", "steps", "step"} /\ Tracked
            => sessions[calls[c].home].next # 0
       /\ calls[c].done \in 0..Len(calls[c].req.steps)
  /\ left \in 0..MaxCalls /\ closes \in 0..MaxCloses /\ missed \in 0..MaxCalls

(* The counter of a session is ahead of every revision id in its document, *)
(* however the first scans overlap: no id is given twice.  Left out are    *)
(* sessions a batch of an older session wrote into.                        *)
CounterIsAhead ==
  \A s \in DOMAIN sessions : ~sessions[s].crossed =>
    \A r \in Revisions(sessions[s].doc) :
      r \notin Revisions(File) \/ sessions[s].next # 0 => r.id < sessions[s].next

(* Whatever calls overlap, and wherever a late edit lands, rejecting the   *)
(* author's revisions gives the file, in every session.                    *)
RejectGivesTheFile ==
  Tracked => \A s \in DOMAIN sessions :
    Reject(sessions[s].doc, ByAuthor(sessions[s].doc, AI)) = File

(* A batch that passed its checks and that nobody disturbed does all its   *)
(* steps, and gives the text with all ranges replaced at the same time,    *)
(* although each step is looked up in what the steps before it left.       *)
BatchIsSimultaneous ==
  \A c \in Callers :
    calls[c].pc = "idle" /\ calls[c].req.batch /\ calls[c].out \in {"ok", "partial"}
      /\ calls[c].moved = {}
    => calls[c].out = "ok" /\ View(Doc(c)) = calls[c].goal

(* The tools implement edits that happen at once where they were named,    *)
(* except those that others' edits of the paragraph overtook between match *)
(* and mutation.                                                           *)
Atomic == INSTANCE AtomicEdits WITH
  FileText <- View(File),
  views <- [s \in DOMAIN sessions |-> View(sessions[s].doc)],
  misses <- missed

EditsAreAtomic == Atomic!Spec
===============================================================================
