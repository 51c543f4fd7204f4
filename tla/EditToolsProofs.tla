--------------------------- MODULE EditToolsProofs ---------------------------
(***************************************************************************)
(* Proofs about the editing tools.  Shape and Counting are inductive       *)
(* together: an edit takes its ids from a counter that Counting keeps      *)
(* above the ids of the document, and Shape says that it has one.          *)
(* Looking, that text is still where a call found it unless the call knows *)
(* of an edit since, then gives that the tools implement AtomicEdits.      *)
(* Restoring, that every document is the file with edits of AI whose ids   *)
(* are above those of the file, gives that rejecting them gives the file.  *)
(* InOrder, that a batch nobody disturbed has made of the text it was      *)
(* checked against what its steps so far mean, gives that it is done as if *)
(* at once.                                                                *)
(***************************************************************************)
EXTENDS EditTools, RedlinesProofs

(***************************************************************************)
(* Types                                                                   *)
(***************************************************************************)

All == Markup(Authors)

(* The revisions with a used id, and those of the file; hyperlinks have no *)
(* id of their own.                                                        *)
Below(n) == {e \in All : e.kind = "link" \/ e.id < n}
OfFile == {e \in All : e.kind = "link" \/ e \in Revisions(File)}

Sessions == [doc : Documents(All), next : Nat, scan : Nat, crossed : BOOLEAN]

PCs == {"idle", "resolve", "validate", "context", "scan", "match", "preview", "mutate", "steps", "step"}
Outs == {"none", "ok", "refused", "partial"}
CallsWith(moved, goal) ==
  [pc : PCs, req : Requests \cup {Idle.req}, home : Nat, at : Nat, seed : Nat, range : Nat \X Nat,
   done : Nat, out : Outs, moved : {moved}, goal : {goal}]
IsCall(x) == x \in CallsWith(x.moved, x.goal)

(* The range of a standalone replacement has the length of its old text. *)
RangeFits(step, range) == step.op = "replace" => range[2] = range[1] + Len(step.old)

(* Where a call is, it has what it needs there. *)
Placed(x, ss) ==
  /\ x.pc # "idle" => x.req \in Requests
  /\ x.pc \notin {"idle", "resolve"} => x.home \in DOMAIN ss
  /\ x.pc \in {"validate", "steps", "step"} => x.req.batch
  /\ x.pc \in {"match", "mutate"} => ~x.req.batch
  /\ x.pc \in {"context", "scan", "preview"} => Tracked
  /\ x.pc \notin {"idle", "steps", "step"} => x.done = 0
  /\ x.pc \in {"steps", "step"} => x.done < Len(x.req.steps)
  /\ x.done <= Len(x.req.steps)
  /\ x.pc = "step" => x.at \in DOMAIN ss
  /\ x.pc = "scan" => x.seed # 0
  /\ Tracked /\ x.pc \in {"match", "preview", "mutate", "steps", "step"} => ss[x.home].next # 0
  /\ x.pc \in {"preview", "mutate"} /\ ~x.req.batch => RangeFits(x.req.steps[1], x.range)

Running == {c \in Callers : calls[c].pc # "idle"}

Shape ==
  /\ sessions \in Seq(Sessions) /\ current \in 0..Len(sessions)
  /\ left \in 0..MaxCalls /\ closes \in 0..MaxCloses /\ missed \in Nat
  /\ DOMAIN calls = Callers
  /\ \A c \in Callers : IsCall(calls[c]) /\ Placed(calls[c], sessions)
  /\ missed + left + Cardinality(Running) <= MaxCalls
  /\ ~Tracked => \A s \in DOMAIN sessions : sessions[s].next = 0

(* Until the counter is set a session's document has only the revisions of *)
(* the file; a seed that is on its way, and then the counter, is above     *)
(* every id.                                                               *)
Ahead(s) ==
  ~s.crossed =>
    /\ s.next = 0 => s.doc \in Documents(OfFile)
    /\ s.next # 0 => s.doc \in Documents(Below(s.next))
    /\ s.next = 0 /\ s.scan # 0 => s.doc \in Documents(Below(s.scan))
SeedIsAhead(x, ss) ==
  x.pc = "scan" /\ ~ss[x.home].crossed /\ ss[x.home].next = 0
    => ss[x.home].doc \in Documents(Below(x.seed))

Counting ==
  /\ \A s \in DOMAIN sessions : Ahead(sessions[s])
  /\ \A c \in Callers : SeedIsAhead(calls[c], sessions)

(***************************************************************************)
(* Ids and places                                                          *)
(***************************************************************************)

(* The file has only its own revisions. *)
LEMMA FileIsOfFile == File \in Documents(OfFile)
<1>1. File \in Documents(All)
  BY FileAssumption DEF All
<1> DEFINE E == All
           F == OfFile
<1>2. \A e \in E : e.kind = "link" \/ e \in Revisions(File) => e \in F
  BY DEF OfFile
<1> HIDE DEF E, F
<1>3. File \in Documents(E)
  BY <1>1 DEF E
<1>4. File \in Documents(F)
  BY <1>2, <1>3, HoldsItsRevisions
<1> QED BY <1>4 DEF F

(* The revisions of the file, and those below an id, are revisions.        *)
LEMMA NamedSets ==
  /\ OfFile \subseteq All
  /\ \A n \in Nat : Below(n) \subseteq All
  /\ \A m, n \in Nat : m <= n => Below(m) \subseteq Below(n)
BY DEF OfFile, Below, All, Markup

(* findMaxRevisionId: the fresh id is above every id of the document.      *)
LEMMA FreshIdIsFresh ==
  ASSUME NEW d \in Documents(All)
  PROVE  FreshId(d) \in Nat /\ FreshId(d) # 0 /\ d \in Documents(Below(FreshId(d)))
<1> DEFINE ids == Ids(Revisions(d))
<1>1. Revisions(d) \subseteq {e \in All : e.kind # "link"}
  BY RevisionsAreIn
<1>2. ids \in SUBSET Nat
  BY <1>1 DEF Ids, All, Markup
<1>3. IsFiniteSet(ids)
  <2>1. IsFiniteSet(Revisions(d))
    BY RevisionsAreFinite
  <2> DEFINE f == [r \in Revisions(d) |-> r.id]
  <2>2. f \in Surjection(Revisions(d), ids)
    BY DEF Surjection, Ids
  <2> QED BY <2>1, <2>2, FS_Surjection
<1>4. FreshId(d) \in Nat /\ FreshId(d) # 0 /\ \A r \in Revisions(d) : r.id < FreshId(d)
  <2>1. CASE Revisions(d) = {}
    BY <2>1 DEF FreshId
  <2>2. CASE Revisions(d) # {}
    <3>1. ids # {}
      BY <2>2 DEF Ids
    <3> HIDE DEF ids
    <3>2. PICK m \in ids : \A n \in ids : n <= m
      BY <1>2, <1>3, <3>1, GreatestNatural
    <3>3. Max(ids) \in ids /\ \A n \in ids : Max(ids) >= n
      BY <1>2, <3>2 DEF Max
    <3>4. FreshId(d) = Max(ids) + 1
      BY <2>2 DEF FreshId, ids
    <3>5. PICK top \in Nat : top = Max(ids)
      BY <1>2, <3>3
    <3>6. FreshId(d) = top + 1
      BY <3>4, <3>5
    <3>7. \A n \in ids : n \in Nat /\ n <= top
      BY <1>2, <3>3, <3>5
    <3>8. \A n \in ids : n < FreshId(d)
      BY <3>6, <3>7
    <3>9. \A r \in Revisions(d) : r.id \in ids
      BY DEF ids, Ids
    <3> QED BY <3>6, <3>8, <3>9
  <2> QED BY <2>1, <2>2
<1> DEFINE E == All
           F == Below(FreshId(d))
<1>5. \A e \in E : e.kind = "link" \/ e \in Revisions(d) => e \in F
  BY <1>4 DEF Below
<1> HIDE DEF E, F
<1>6. d \in Documents(E)
  BY DEF E
<1>7. d \in Documents(F)
  BY <1>5, <1>6, HoldsItsRevisions
<1> QED BY <1>4, <1>7 DEF F

(* The revisions an edit gives are below the counter after it. *)
LEMMA GivenIsBelow ==
  ASSUME NEW m \in Nat, NEW n \in Nat
  PROVE  Given(AI, m, n) \subseteq Below(n)
BY DEF Given, Below, All, Markup, Authors, Element

(* A new paragraph gets an id. *)
LEMMA FreshPidIsNat ==
  ASSUME NEW E, NEW d \in Documents(E), DOMAIN d # {}
  PROVE  FreshPid(d) \in Nat
<1> DEFINE pids == {p.id : p \in Range(d)}
<1>1. \A j \in DOMAIN d : d[j] \in ParagraphsIn(E) /\ DOMAIN d = 1..Len(d) /\ Len(d) \in Nat
  BY ParagraphOf
<1>2. pids \in SUBSET Nat
  BY <1>1 DEF Range, ParagraphsIn
<1>3. pids # {}
  BY DEF Range
<1>4. IsFiniteSet(pids)
  <2> DEFINE f == [j \in DOMAIN d |-> d[j].id]
  <2>1. f \in Surjection(DOMAIN d, pids)
    BY DEF Surjection, Range
  <2>2. IsFiniteSet(DOMAIN d)
    BY <1>1, FS_Interval
  <2> QED BY <2>1, <2>2, FS_Surjection
<1> HIDE DEF pids
<1>5. PICK m \in pids : \A n \in pids : n <= m
  BY <1>2, <1>3, <1>4, GreatestNatural
<1>6. Max(pids) \in pids
  BY <1>2, <1>5 DEF Max
<1> QED BY <1>2, <1>6 DEF FreshPid, pids

(* A paragraph that is there is found by its id. *)
LEMMA IndexIsThere ==
  ASSUME NEW d, NEW pid, HasParagraph(d, pid)
  PROVE  IndexOf(d, pid) \in DOMAIN d
BY DEF HasParagraph, IndexOf

(***************************************************************************)
(* One step in a document                                                  *)
(***************************************************************************)

(* What a step is. *)
LEMMA StepIs ==
  ASSUME NEW step \in StepRecords
  PROVE  /\ step.pid \in Nat /\ step.new \in Seq(Tokens) /\ step.op \in {"replace", "insert"}
         /\ step.op = "replace" => step.old \in Seq(Tokens)
BY DEF StepRecords

(* The visible text of a paragraph is a sequence. *)
LEMMA TextIsASequence ==
  ASSUME NEW E, NEW p \in ParagraphsIn(E)
  PROVE  Len(TextOf(p)) \in Nat
<1> DEFINE at == ShownAt(p.body)
<1>1. p.body \in Bodies(E)
  BY DEF ParagraphsIn
<1>2. at \in Seq(DOMAIN p.body)
  BY <1>1, ShownIsListed
<1>3. DOMAIN at = 1..Len(at) /\ Len(at) \in Nat
  BY <1>2, LenProperties
<1>4. TextOf(p) = [k \in 1..Len(at) |-> p.body[at[k]].tok]
  BY <1>3 DEF TextOf
<1> HIDE DEF at
<1> DEFINE f(k) == p.body[at[k]].tok
<1>5. TextOf(p) \in Seq({f(k) : k \in 1..Len(at)})
  BY <1>3, <1>4
<1> QED BY <1>5, LenProperties

(* Text that is found once is found at a range of its length. *)
LEMMA FoundInside ==
  ASSUME NEW E, NEW d \in Documents(E), NEW step \in StepRecords, Finds(d, step)
  PROVE  Found(d, step) \in Nat \X Nat /\ RangeFits(step, Found(d, step))
<1>1. CASE step.op = "insert"
  BY <1>1 DEF Found, RangeFits
<1>2. CASE step.op = "replace"
  <2> DEFINE text == TextOf(Paragraph(d, step.pid))
             M == Matches(text, step.old)
  <2>1. Cardinality(M) = 1
    BY <1>2 DEF Finds
  <2>2. M # {}
    <3> HIDE DEF M
    <3> QED BY <2>1, FS_EmptySet
  <2>3. Len(step.old) \in Nat
    BY <1>2, StepIs, LenProperties
  <2>4. M \subseteq Nat
    <3>1. Paragraph(d, step.pid) \in ParagraphsIn(E)
      BY IndexIsThere, ParagraphOf DEF Finds, Paragraph
    <3>2. Len(text) \in Nat
      BY <3>1, TextIsASequence
    <3> HIDE DEF text
    <3> QED BY <2>3, <3>2 DEF Matches
  <2>5. PICK s \in Nat : s = CHOOSE x \in M : TRUE
    <3> HIDE DEF M
    <3> QED BY <2>2, <2>4
  <2>6. Found(d, step) = <<s, s + Len(step.old)>>
    BY <1>2, <2>5 DEF Found
  <2> QED BY <2>3, <2>6 DEF RangeFits
<1> QED BY <1>1, <1>2, StepIs

(* The greatest number of a bounded set that holds 0. *)
LEMMA MaxUpTo ==
  ASSUME NEW n \in Nat, NEW S \in SUBSET (0..n), 0 \in S
  PROVE  Max(S) \in S /\ Max(S) \in 0..n
<1>1. IsFiniteSet(0..n)
  BY FS_Interval
<1>2. IsFiniteSet(S)
  BY <1>1, FS_Subset
<1> S \in SUBSET Nat
  OBVIOUS
<1>3. PICK m \in S : \A x \in S : x <= m
  BY <1>2, GreatestNatural
<1>4. Max(S) \in S
  BY <1>2, <1>3 DEF Max
<1> QED BY <1>4

(* What t leaves out of a range of the old text: the first pre and the     *)
(* last post tokens, which the new text has too.                           *)
LeavesOut(t, step, range, pre, post) ==
  LET old == step.old
      new == step.new
      rest == Len(new) - pre - post
  IN /\ t.s = range[1] + pre /\ t.e = range[2] - post
     /\ pre + post <= Len(old) /\ pre + post <= Len(new)
     /\ \A i \in 1..pre : old[i] = new[i]
     /\ \A i \in 1..post : old[Len(old) - post + i] = new[Len(new) - post + i]
     /\ t.new \in Seq(Tokens) /\ Len(t.new) = rest /\ \A i \in 1..rest : t.new[i] = new[pre + i]

(* What old and new text share is left out of a range that fits. *)
LEMMA TrimmedParts ==
  ASSUME NEW step \in StepRecords, step.op = "replace", NEW range \in Nat \X Nat,
         RangeFits(step, range)
  PROVE  \E pre, post \in Nat : LeavesOut(Trimmed(step, range), step, range, pre, post)
<1> DEFINE old == step.old
           new == step.new
           shorter == Min({Len(old), Len(new)})
           heads == {n \in 0..shorter : SubSeq(old, 1, n) = SubSeq(new, 1, n)}
           pre == Max(heads)
           ends(n) == SubSeq(old, Len(old) - n + 1, Len(old)) = SubSeq(new, Len(new) - n + 1, Len(new))
           tails == {n \in 0..(shorter - pre) : ends(n)}
           post == Max(tails)
           rest == SubSeq(new, pre + 1, Len(new) - post)
<1>1. old \in Seq(Tokens) /\ new \in Seq(Tokens)
  BY StepIs
<1>2. Len(old) \in Nat /\ Len(new) \in Nat
  BY <1>1, LenProperties
<1>3. shorter \in Nat /\ shorter <= Len(old) /\ shorter <= Len(new)
  <2> DEFINE S == {Len(old), Len(new)}
  <2>1. \E m \in S : \A n \in S : m <= n
    BY <1>2
  <2>2. Min(S) \in S /\ \A n \in S : Min(S) <= n
    BY <2>1 DEF Min
  <2> QED BY <1>2, <2>2
<1>4. pre \in 0..shorter /\ SubSeq(old, 1, pre) = SubSeq(new, 1, pre)
  <2>1. SubSeq(old, 1, 0) = <<>> /\ SubSeq(new, 1, 0) = <<>>
    BY SubSeqEmpty
  <2>2. heads \in SUBSET (0..shorter)
    OBVIOUS
  <2>3. 0 \in heads
    BY <1>3, <2>1
  <2>4. pre \in heads /\ pre \in 0..shorter
    <3> HIDE DEF heads, shorter
    <3> QED BY <1>3, <2>2, <2>3, MaxUpTo
  <2> HIDE DEF pre, shorter
  <2> QED BY <2>4
<1>5. post \in 0..(shorter - pre) /\ ends(post)
  <2>1. ends(0)
    <3>1. /\ SubSeq(old, Len(old) - 0 + 1, Len(old)) = <<>>
          /\ SubSeq(new, Len(new) - 0 + 1, Len(new)) = <<>>
      BY <1>2, SubSeqEmpty
    <3> QED BY <3>1
  <2>2. tails \in SUBSET (0..(shorter - pre))
    OBVIOUS
  <2>3. shorter - pre \in Nat
    <3> HIDE DEF shorter, pre
    <3> QED BY <1>3, <1>4
  <2>4. 0 \in tails
    <3> HIDE DEF shorter, pre, ends
    <3> QED BY <2>1, <2>3
  <2>5. post \in tails /\ post \in 0..(shorter - pre)
    <3> HIDE DEF tails, shorter, pre
    <3> QED BY <2>2, <2>3, <2>4, MaxUpTo
  <2> HIDE DEF post, shorter, pre
  <2> QED BY <2>5
<1>6. Trimmed(step, range) = [s |-> range[1] + pre, e |-> range[2] - post, new |-> rest]
  BY DEF Trimmed
<1>7. range[1] \in Nat /\ range[2] = range[1] + Len(old)
  BY DEF RangeFits
<1> HIDE DEF shorter, pre, post, rest, old, new
<1>8. PICK o \in Nat, n \in Nat, k \in Nat, l \in Nat :
        /\ o = Len(old) /\ n = Len(new) /\ k = pre /\ l = post
        /\ k + l <= o /\ k + l <= n
  <2>1. pre \in Nat /\ post \in Nat /\ pre + post <= Len(old) /\ pre + post <= Len(new)
    BY <1>2, <1>3, <1>4, <1>5
  <2> QED BY <1>2, <2>1
<1>9. ASSUME NEW i \in 1..k PROVE old[i] = new[i]
  <2>1. SubSeq(old, 1, k)[i] = old[1 + i - 1] /\ SubSeq(new, 1, k)[i] = new[1 + i - 1]
    <3>1. 1 \in Nat \ {0} /\ 1 <= k + 1 /\ k <= o /\ k <= n /\ i \in 1..(k - 1 + 1)
      BY <1>8
    <3> QED BY <1>1, <1>8, <3>1, SubSeqAt DEF old, new
  <2>2. 1 + i - 1 = i
    OBVIOUS
  <2> QED BY <1>4, <1>8, <2>1, <2>2
<1>10. ASSUME NEW i \in 1..l PROVE old[o - l + i] = new[n - l + i]
  <2>1. SubSeq(old, o - l + 1, o)[i] = old[(o - l + 1) + i - 1]
    <3>1. o - l + 1 \in Nat \ {0} /\ o - l + 1 <= o + 1 /\ o <= o /\ i \in 1..(o - (o - l + 1) + 1)
      BY <1>8
    <3> QED BY <1>1, <1>8, <3>1, SubSeqAt DEF old
  <2>2. SubSeq(new, n - l + 1, n)[i] = new[(n - l + 1) + i - 1]
    <3>1. n - l + 1 \in Nat \ {0} /\ n - l + 1 <= n + 1 /\ n <= n /\ i \in 1..(n - (n - l + 1) + 1)
      BY <1>8
    <3> QED BY <1>1, <1>8, <3>1, SubSeqAt DEF new
  <2>3. (o - l + 1) + i - 1 = o - l + i /\ (n - l + 1) + i - 1 = n - l + i
    BY <1>8
  <2>4. SubSeq(old, o - l + 1, o) = SubSeq(new, n - l + 1, n)
    BY <1>5, <1>8
  <2> QED BY <2>1, <2>2, <2>3, <2>4
<1>11. rest \in Seq(Tokens) /\ Len(rest) = n - k - l /\ \A i \in 1..(n - k - l) : rest[i] = new[k + i]
  <2>1. PICK from \in Nat \ {0}, to \in Nat : /\ from = k + 1 /\ to = n - l
                                             /\ from <= to + 1 /\ to <= n
    <3>1. k + 1 \in Nat \ {0} /\ n - l \in Nat /\ k + 1 <= (n - l) + 1 /\ n - l <= n
      BY <1>8
    <3> QED BY <3>1
  <2>2. rest = SubSeq(new, from, to)
    BY <1>8, <2>1 DEF rest
  <2>3. /\ rest \in Seq(Tokens) /\ Len(rest) = to - from + 1
        /\ \A i \in 1..(to - from + 1) : rest[i] = new[from + i - 1]
    BY <1>1, <1>8, <2>1, <2>2, SubSeqAt
  <2>4. to - from + 1 = n - k - l /\ \A i \in 1..(n - k - l) : from + i - 1 = k + i
    BY <1>8, <2>1
  <2> QED BY <2>3, <2>4
<1>12. LeavesOut(Trimmed(step, range), step, range, k, l)
  <2>1. PICK t : t = Trimmed(step, range)
    OBVIOUS
  <2>2. t.s = range[1] + k /\ t.e = range[2] - l /\ t.new = rest
    BY <1>6, <1>8, <2>1
  <2> QED BY <1>8, <1>9, <1>10, <1>11, <2>1, <2>2 DEF LeavesOut, old, new
<1> QED BY <1>12

(* The part of a range that is replaced lies in it. *)
LEMMA TrimmedInside ==
  ASSUME NEW step \in StepRecords, step.op = "replace", NEW range \in Nat \X Nat,
         RangeFits(step, range)
  PROVE  LET t == Trimmed(step, range)
         IN /\ t.s \in Nat /\ t.e \in Nat /\ t.new \in Seq(Tokens)
            /\ t.s <= t.e /\ t.e <= range[2]
<1>1. PICK pre, post, t : /\ pre \in Nat /\ post \in Nat /\ t = Trimmed(step, range)
                          /\ LeavesOut(t, step, range, pre, post)
  BY TrimmedParts
<1>2. PICK o \in Nat, a \in Nat, b \in Nat : o = Len(step.old) /\ a = range[1] /\ b = range[2]
        /\ b = a + o
  BY StepIs, LenProperties DEF RangeFits
<1>3. t.s = a + pre /\ t.e = b - post /\ pre + post <= o /\ t.new \in Seq(Tokens)
  BY <1>1, <1>2 DEF LeavesOut
<1>4. t.s \in Nat /\ t.e \in Nat /\ t.s <= t.e /\ t.e <= b
  <2>1. PICK k \in Nat, l \in Nat : k = pre /\ l = post
    BY <1>1
  <2>2. k + l <= o /\ b = a + o
    BY <1>2, <1>3, <2>1
  <2>3. a + k \in Nat /\ b - l \in Nat /\ a + k <= b - l /\ b - l <= b
    BY <2>2
  <2> QED BY <1>3, <2>1, <2>3
<1> QED BY <1>1, <1>2, <1>3, <1>4

(* An edit gives only ids that the counter passes; without an author it    *)
(* gives none.                                                             *)
LEMMA AppliedAdds ==
  ASSUME NEW E, NEW d \in Documents(E), NEW next \in Nat, NEW step \in StepRecords, NEW t,
         Applies(d, step, t),
         step.op = "replace" => t.s \in Nat /\ t.e \in Nat /\ t.new \in Seq(Tokens)
  PROVE  LET r == Applied(d, next, step, t)
         IN /\ r.next \in Nat /\ next <= r.next
            /\ Tracked => r.doc \in Documents(E \cup Given(AI, next, r.next))
            /\ ~Tracked => r.doc \in Documents(E) /\ r.next = next
<1> DEFINE j == IndexOf(d, step.pid)
           r == Applied(d, next, step, t)
<1>1. j \in DOMAIN d
  BY IndexIsThere DEF Applies
<1>2. d[j] \in ParagraphsIn(E)
  BY <1>1, ParagraphOf
<1>3. step.op = "replace" => ~Refused(d[j], t.s, t.e)
  BY DEF Applies, Paragraph
<1>4. FreshPid(d) \in Nat /\ step.new \in Seq(Tokens)
  BY <1>1, FreshPidIsNat, StepIs
<1>5. CASE step.op = "replace" /\ Tracked
  <2> DEFINE q == TrackedReplace(d[j], t.s, t.e, t.new, AI, next)
             F == E \cup Given(AI, next, q.next)
  <2>1. r = [doc |-> [d EXCEPT ![j] = q.p], next |-> q.next]
    BY <1>5 DEF Applied
  <2> HIDE DEF j, r
  <2>2. q.next \in Nat /\ next <= q.next /\ q.p \in ParagraphsIn(F)
    BY <1>2, <1>3, <1>5, TrackedReplaceAdds
  <2> HIDE DEF q
  <2>3. E \subseteq F
    OBVIOUS
  <2> HIDE DEF F
  <2>4. d \in Documents(F)
    BY <2>3, DocumentsGrow
  <2>5. [d EXCEPT ![j] = q.p] \in Documents(F)
    BY <1>1, <2>2, <2>4, ParagraphReplaced
  <2> USE DEF F
  <2> QED BY <1>5, <2>1, <2>2, <2>5 DEF r
<1>6. CASE step.op = "replace" /\ ~Tracked
  <2>1. r = [doc |-> PlainReplace(d, j, t.s, t.e, t.new), next |-> next]
    BY <1>6 DEF Applied
  <2> HIDE DEF j, r
  <2>2. PlainReplace(d, j, t.s, t.e, t.new) \in Documents(E)
    BY <1>1, <1>3, <1>6, PlainReplaceAddsNone
  <2> QED BY <1>6, <2>1, <2>2 DEF r
<1>7. CASE step.op = "insert" /\ Tracked
  <2> DEFINE doc == TrackedInsert(d, j, step.pos, FreshPid(d), step.new, AI, next)
  <2>1. r = [doc |-> doc, next |-> next + 2]
    BY <1>7 DEF Applied
  <2> HIDE DEF j, r
  <2>2. doc \in Documents(E \cup Given(AI, next, next + 2))
    BY <1>1, <1>4, TrackedInsertAdds
  <2> HIDE DEF doc
  <2> QED BY <1>7, <2>1, <2>2 DEF r
<1>8. CASE step.op = "insert" /\ ~Tracked
  <2> DEFINE doc == PlainInsert(d, j, step.pos, FreshPid(d), step.new)
  <2>1. r = [doc |-> doc, next |-> next]
    BY <1>8 DEF Applied
  <2> HIDE DEF j, r
  <2>2. doc \in Documents(E)
    BY <1>1, <1>4, PlainInsertAddsNone
  <2> HIDE DEF doc
  <2> QED BY <1>8, <2>1, <2>2 DEF r
<1> QED BY <1>5, <1>6, <1>7, <1>8, StepIs, EditToolsAssumption

(***************************************************************************)
(* What an action may do to a session                                      *)
(***************************************************************************)

(* A seed that was above the ids of the document still is, unless the      *)
(* counter is set by now.                                                  *)
Quiet(s, x) ==
  ~x.crossed /\ x.next = 0
    => /\ ~s.crossed /\ s.next = 0
       /\ \A seed \in Nat : s.doc \in Documents(Below(seed)) => x.doc \in Documents(Below(seed))

Follows(s, x) ==
  /\ x \in Sessions
  /\ Ahead(s) => Ahead(x)
  /\ Quiet(s, x)
  /\ s.next # 0 => x.next # 0
  /\ ~Tracked /\ s.next = 0 => x.next = 0

(* An edit with the counter of its session. *)
LEMMA OwnEdit ==
  ASSUME NEW s \in Sessions, NEW step \in StepRecords, NEW t, Applies(s.doc, step, t),
         step.op = "replace" => t.s \in Nat /\ t.e \in Nat /\ t.new \in Seq(Tokens),
         Tracked => s.next # 0,
         NEW r, r = Applied(s.doc, s.next, step, t),
         NEW x \in [doc : {r.doc}, next : {r.next}, scan : {s.scan}, crossed : {s.crossed}]
  PROVE  Follows(s, x)
<1>1. s.doc \in Documents(All) /\ s.next \in Nat /\ s.scan \in Nat /\ s.crossed \in BOOLEAN
  BY DEF Sessions
<1>2. \A E : s.doc \in Documents(E) =>
        /\ r.next \in Nat /\ s.next <= r.next
        /\ Tracked => r.doc \in Documents(E \cup Given(AI, s.next, r.next))
        /\ ~Tracked => r.doc \in Documents(E) /\ r.next = s.next
  <2> SUFFICES ASSUME NEW E, s.doc \in Documents(E)
               PROVE  /\ r.next \in Nat /\ s.next <= r.next
                      /\ Tracked => r.doc \in Documents(E \cup Given(AI, s.next, r.next))
                      /\ ~Tracked => r.doc \in Documents(E) /\ r.next = s.next
    OBVIOUS
  <2>1. PICK d \in Documents(E), n \in Nat : d = s.doc /\ n = s.next
    BY <1>1
  <2>2. Applies(d, step, t)
    BY <2>1
  <2> DEFINE q == Applied(d, n, step, t)
  <2>3. q.next \in Nat /\ n <= q.next
    BY <2>2, AppliedAdds
  <2>4. Tracked => q.doc \in Documents(E \cup Given(AI, n, q.next))
    BY <2>2, AppliedAdds
  <2>5. ~Tracked => q.doc \in Documents(E)
    BY <2>2, AppliedAdds
  <2>6. ~Tracked => q.next = n
    BY StepIs DEF Applied
  <2> QED BY <2>1, <2>3, <2>4, <2>5, <2>6
<1>3. x.doc = r.doc /\ x.next = r.next /\ x.scan = s.scan /\ x.crossed = s.crossed
  OBVIOUS
<1>4. r.next \in Nat /\ s.next <= r.next
  BY <1>1, <1>2
<1>5. Tracked /\ s.doc \in Documents(Below(s.next)) => r.doc \in Documents(Below(r.next))
  <2> SUFFICES ASSUME Tracked, s.doc \in Documents(Below(s.next))
               PROVE  r.doc \in Documents(Below(r.next))
    OBVIOUS
  <2> DEFINE E == Below(s.next) \cup Given(AI, s.next, r.next)
             F == Below(r.next)
  <2>1. r.doc \in Documents(E)
    BY <1>2
  <2>2. E \subseteq F
    BY <1>1, <1>4, NamedSets, GivenIsBelow
  <2> HIDE DEF E, F
  <2>3. r.doc \in Documents(F)
    BY <2>1, <2>2, DocumentsGrow
  <2> QED BY <2>3 DEF F
<1>6. r.doc \in Documents(All)
  <2>1. CASE Tracked
    <3> DEFINE E == All \cup Given(AI, s.next, r.next)
    <3>1. r.doc \in Documents(E)
      BY <1>1, <1>2, <2>1
    <3>2. E = All
      BY <1>1, <1>4, NamedSets, GivenIsBelow
    <3> QED BY <3>1, <3>2
  <2>2. CASE ~Tracked
    BY <1>1, <1>2, <2>2
  <2> QED BY <2>1, <2>2
<1>7. x \in Sessions
  BY <1>1, <1>4, <1>6 DEF Sessions
<1>8. ASSUME Tracked PROVE Follows(s, x)
  <2>1. s.next # 0 /\ r.next # 0
    BY <1>1, <1>4, <1>8
  <2>2. Ahead(s) => Ahead(x)
    BY <1>3, <1>5, <1>8, <2>1 DEF Ahead
  <2>3. Quiet(s, x)
    BY <1>3, <2>1 DEF Quiet
  <2>4. s.next # 0 => x.next # 0
    BY <1>3, <2>1
  <2>5. ~Tracked /\ s.next = 0 => x.next = 0
    BY <1>8
  <2> QED BY <1>7, <2>2, <2>3, <2>4, <2>5, Zenon DEF Follows
<1>9. ASSUME ~Tracked PROVE Follows(s, x)
  <2>1. r.next = s.next /\ \A E : s.doc \in Documents(E) => r.doc \in Documents(E)
    BY <1>1, <1>2, <1>9
  <2>2. Ahead(s) => Ahead(x)
    BY <1>3, <2>1 DEF Ahead
  <2>3. Quiet(s, x)
    BY <1>3, <2>1 DEF Quiet
  <2>4. x.next = s.next
    BY <1>3, <2>1
  <2>5. s.next # 0 => x.next # 0
    BY <2>4
  <2>6. ~Tracked /\ s.next = 0 => x.next = 0
    BY <2>4
  <2> QED BY <1>7, <2>2, <2>3, <2>5, <2>6, Zenon DEF Follows
<1> QED BY <1>8, <1>9

(* An edit with the counter of another session crosses over. *)
LEMMA CrossingEdit ==
  ASSUME NEW s \in Sessions, NEW next \in Nat, NEW step \in StepRecords, NEW t,
         Applies(s.doc, step, t),
         step.op = "replace" => t.s \in Nat /\ t.e \in Nat /\ t.new \in Seq(Tokens),
         NEW r, r = Applied(s.doc, next, step, t),
         NEW x \in [doc : {r.doc}, next : {s.next}, scan : {s.scan}, crossed : BOOLEAN], x.crossed
  PROVE  Follows(s, x)
<1>1. s.doc \in Documents(All) /\ s.next \in Nat /\ s.scan \in Nat
  BY DEF Sessions
<1>2. /\ r.next \in Nat
      /\ Tracked => r.doc \in Documents(All \cup Given(AI, next, r.next))
      /\ ~Tracked => r.doc \in Documents(All)
  BY <1>1, AppliedAdds
<1>3. All \cup Given(AI, next, r.next) = All
  BY <1>2, NamedSets, GivenIsBelow
<1>4. r.doc \in Documents(All)
  BY <1>2, <1>3
<1>5. x \in Sessions
  BY <1>1, <1>4 DEF Sessions
<1> QED BY <1>5 DEF Follows, Quiet, Ahead

(* The session whose counter was used has a greater one. *)
LEMMA CounterLent ==
  ASSUME NEW s \in Sessions, NEW next \in Nat, s.next <= next,
         Tracked => s.next # 0, ~Tracked => next = s.next,
         NEW x \in [doc : {s.doc}, next : {next}, scan : {s.scan}, crossed : {s.crossed}]
  PROVE  Follows(s, x)
<1>1. s.doc \in Documents(All) /\ s.next \in Nat /\ s.scan \in Nat /\ s.crossed \in BOOLEAN
  BY DEF Sessions
<1>2. x \in Sessions
  BY <1>1 DEF Sessions
<1>3. s.doc \in Documents(Below(s.next)) => s.doc \in Documents(Below(next))
  BY <1>1, NamedSets, DocumentsGrow
<1>4. Ahead(s) => Ahead(x)
  BY <1>1, <1>3 DEF Ahead
<1>5. Quiet(s, x)
  BY <1>1 DEF Quiet
<1> QED BY <1>1, <1>2, <1>4, <1>5 DEF Follows

(* A session that is left alone follows itself. *)
LEMMA Unchanged ==
  ASSUME NEW s \in Sessions
  PROVE  Follows(s, s)
BY DEF Follows, Quiet

(* A scan begins: its seed is above every id, or the one that is expected. *)
LEMMA ScanStarted ==
  ASSUME NEW s \in Sessions, Ahead(s), s.next = 0,
         NEW seed, seed = IF s.scan # 0 THEN s.scan ELSE FreshId(s.doc)
  PROVE  /\ seed \in Nat /\ seed # 0 /\ (~s.crossed => s.doc \in Documents(Below(seed)))
         /\ Follows(s, [s EXCEPT !.scan = seed])
<1>1. s.doc \in Documents(All) /\ s.scan \in Nat
  BY DEF Sessions
<1>2. FreshId(s.doc) \in Nat /\ FreshId(s.doc) # 0 /\ s.doc \in Documents(Below(FreshId(s.doc)))
  BY <1>1, FreshIdIsFresh
<1>3. seed \in Nat /\ seed # 0 /\ (~s.crossed => s.doc \in Documents(Below(seed)))
  BY <1>1, <1>2 DEF Ahead
<1> DEFINE x == [s EXCEPT !.scan = seed]
<1>4. x \in Sessions /\ x.doc = s.doc /\ x.next = s.next /\ x.crossed = s.crossed /\ x.scan = seed
  BY <1>3 DEF Sessions
<1> HIDE DEF x
<1>5. Ahead(x)
  BY <1>3, <1>4 DEF Ahead
<1>6. Quiet(s, x)
  BY <1>4 DEF Quiet
<1>7. Follows(s, x)
  BY <1>4, <1>5, <1>6 DEF Follows
<1> QED BY <1>3, <1>7 DEF x

(* A scan ends: the counter is set, once. *)
LEMMA ScanEnded ==
  ASSUME NEW s \in Sessions, Tracked, NEW seed \in Nat, seed # 0,
         ~s.crossed /\ s.next = 0 => s.doc \in Documents(Below(seed))
  PROVE  /\ Follows(s, [s EXCEPT !.next = Seeded(@, seed), !.scan = 0])
         /\ Seeded(s.next, seed) # 0
<1> DEFINE x == [s EXCEPT !.next = Seeded(@, seed), !.scan = 0]
<1>1. s.doc \in Documents(All) /\ s.next \in Nat /\ s.crossed \in BOOLEAN
  BY DEF Sessions
<1>2. Seeded(s.next, seed) \in Nat /\ Seeded(s.next, seed) # 0
  BY <1>1 DEF Seeded
<1>3. /\ x \in Sessions /\ x.doc = s.doc /\ x.next = Seeded(s.next, seed) /\ x.crossed = s.crossed
      /\ x.scan = 0
  BY <1>2 DEF Sessions
<1> HIDE DEF x
<1>4. Ahead(s) => Ahead(x)
  BY <1>2, <1>3 DEF Ahead, Seeded
<1>5. Quiet(s, x)
  BY <1>2, <1>3 DEF Quiet
<1>6. Follows(s, x)
  BY <1>2, <1>3, <1>4, <1>5 DEF Follows
<1> QED BY <1>2, <1>6 DEF x

(* A session that opens has the file. *)
LEMMA NewSessionIsAhead == NewSession \in Sessions /\ Ahead(NewSession) /\ NewSession.next = 0
<1>1. File \in Documents(All)
  BY FileAssumption DEF All
<1> QED BY <1>1, FileIsOfFile DEF NewSession, Sessions, Ahead

(***************************************************************************)
(* What an action may do to the calls                                      *)
(***************************************************************************)

(* Sessions stay, follow what they were, and come with an unset counter.   *)
Onward ==
  /\ sessions' \in Seq(Sessions)
  /\ \A s \in DOMAIN sessions : s \in DOMAIN sessions' /\ Follows(sessions[s], sessions'[s])
  /\ \A s \in DOMAIN sessions' \ DOMAIN sessions : Ahead(sessions'[s]) /\ sessions'[s].next = 0

Moved(x, y) == \E m : y = [x EXCEPT !.moved = m]

(* The other calls at most learn which paragraphs were edited. *)
Moves(c) ==
  /\ DOMAIN calls' = Callers
  /\ \A x \in Callers \ {c} : Moved(calls[x], calls'[x])

(* A call that learns nothing is one that learns what it knows. *)
LEMMA MovedNot ==
  ASSUME NEW x, IsCall(x)
  PROVE  Moved(x, x)
<1>1. x = [x EXCEPT !.moved = x.moved]
  BY DEF IsCall, CallsWith
<1> QED BY <1>1 DEF Moved

(* What a call learns changes nothing else of it. *)
LEMMA MovedIsCall ==
  ASSUME NEW x, IsCall(x), NEW y, Moved(x, y)
  PROVE  /\ IsCall(y)
         /\ y.pc = x.pc /\ y.req = x.req /\ y.home = x.home /\ y.at = x.at /\ y.seed = x.seed
         /\ y.range = x.range /\ y.done = x.done
<1>1. PICK m : y = [x EXCEPT !.moved = m]
  BY DEF Moved
<1>2. y \in CallsWith(m, x.goal) /\ y.moved = m /\ y.goal = x.goal
  BY <1>1 DEF IsCall, CallsWith
<1>3. IsCall(y)
  BY <1>2 DEF IsCall
<1> QED BY <1>1, <1>3 DEF IsCall, CallsWith

(* A call keeps what it needs while the sessions go on. *)
LEMMA PlacedOn ==
  ASSUME Onward, NEW x, Placed(x, sessions), NEW y,
         y.pc = x.pc, y.req = x.req, y.home = x.home, y.at = x.at, y.seed = x.seed,
         y.range = x.range, y.done = x.done
  PROVE  Placed(y, sessions')
<1>1. \A s \in DOMAIN sessions :
        s \in DOMAIN sessions' /\ (sessions[s].next # 0 => sessions'[s].next # 0)
  BY DEF Onward, Follows
<1>2. Tracked /\ y.pc \in {"match", "preview", "mutate", "steps", "step"} => sessions'[y.home].next # 0
  <2> SUFFICES ASSUME Tracked, y.pc \in {"match", "preview", "mutate", "steps", "step"}
               PROVE  sessions'[y.home].next # 0
    OBVIOUS
  <2>1. x.home \in DOMAIN sessions /\ sessions[x.home].next # 0
    BY DEF Placed
  <2> QED BY <1>1, <2>1
<1>3. y.pc = "step" => y.at \in DOMAIN sessions'
  BY <1>1 DEF Placed
<1>4. y.pc \notin {"idle", "resolve"} => y.home \in DOMAIN sessions'
  BY <1>1 DEF Placed
<1>5. /\ y.pc # "idle" => y.req \in Requests
      /\ y.pc \in {"validate", "steps", "step"} => y.req.batch
      /\ y.pc \in {"match", "mutate"} => ~y.req.batch
      /\ y.pc \in {"context", "scan", "preview"} => Tracked
      /\ y.pc \notin {"idle", "steps", "step"} => y.done = 0
      /\ y.pc \in {"steps", "step"} => y.done < Len(y.req.steps)
      /\ y.done <= Len(y.req.steps)
      /\ y.pc = "scan" => y.seed # 0
      /\ y.pc \in {"preview", "mutate"} /\ ~y.req.batch => RangeFits(y.req.steps[1], y.range)
  BY Zenon DEF Placed
<1> QED BY <1>2, <1>3, <1>4, <1>5, Zenon DEF Placed

(* A seed stays ahead while the sessions go on. *)
LEMMA SeedOn ==
  ASSUME Onward, NEW x, IsCall(x), Placed(x, sessions), SeedIsAhead(x, sessions), NEW y,
         y.pc = x.pc, y.home = x.home, y.seed = x.seed
  PROVE  SeedIsAhead(y, sessions')
<1> SUFFICES ASSUME y.pc = "scan", ~sessions'[y.home].crossed, sessions'[y.home].next = 0
             PROVE  sessions'[y.home].doc \in Documents(Below(y.seed))
  BY DEF SeedIsAhead
<1>1. x.home \in DOMAIN sessions
  BY DEF Placed
<1>2. Quiet(sessions[x.home], sessions'[x.home])
  BY <1>1 DEF Onward, Follows
<1>3. ~sessions[x.home].crossed /\ sessions[x.home].next = 0
  BY <1>2 DEF Quiet
<1>4. sessions[x.home].doc \in Documents(Below(x.seed))
  BY <1>3 DEF SeedIsAhead
<1>5. x.seed \in Nat
  BY DEF IsCall, CallsWith
<1> QED BY <1>2, <1>4, <1>5 DEF Quiet

(* So does every call, whose caller does nothing. *)
LEMMA CallStays ==
  ASSUME Shape, Counting, Onward, NEW x \in Callers, Moved(calls[x], calls'[x])
  PROVE  /\ IsCall(calls'[x]) /\ Placed(calls'[x], sessions') /\ SeedIsAhead(calls'[x], sessions')
         /\ calls'[x].pc = calls[x].pc
<1>1. IsCall(calls[x]) /\ Placed(calls[x], sessions) /\ SeedIsAhead(calls[x], sessions)
  BY DEF Shape, Counting
<1>2. /\ IsCall(calls'[x])
      /\ calls'[x].pc = calls[x].pc /\ calls'[x].req = calls[x].req /\ calls'[x].home = calls[x].home
      /\ calls'[x].at = calls[x].at /\ calls'[x].seed = calls[x].seed
      /\ calls'[x].range = calls[x].range /\ calls'[x].done = calls[x].done
  BY <1>1, MovedIsCall
<1>3. Placed(calls'[x], sessions')
  BY <1>1, <1>2, PlacedOn
<1>4. SeedIsAhead(calls'[x], sessions')
  BY <1>1, <1>2, SeedOn
<1> QED BY <1>2, <1>3, <1>4

(* The sessions are ahead after every action. *)
LEMMA SessionsStayAhead ==
  ASSUME Shape, Counting, Onward
  PROVE  /\ \A s \in DOMAIN sessions' : Ahead(sessions'[s])
         /\ ~Tracked => \A s \in DOMAIN sessions' : sessions'[s].next = 0
<1> SUFFICES ASSUME NEW s \in DOMAIN sessions'
             PROVE  Ahead(sessions'[s]) /\ (~Tracked => sessions'[s].next = 0)
  OBVIOUS
<1>1. CASE s \in DOMAIN sessions
  <2>1. Follows(sessions[s], sessions'[s]) /\ Ahead(sessions[s])
    BY <1>1 DEF Onward, Counting
  <2>2. ~Tracked => sessions[s].next = 0
    BY <1>1 DEF Shape
  <2>3. Ahead(sessions'[s])
    BY <2>1, Zenon DEF Follows
  <2>4. ~Tracked => sessions'[s].next = 0
    BY <2>1, <2>2, Zenon DEF Follows
  <2> QED BY <2>3, <2>4
<1>2. CASE s \notin DOMAIN sessions
  BY <1>2, Zenon DEF Onward
<1> QED BY <1>1, <1>2

(* The running calls are finitely many. *)
LEMMA RunningIsFinite ==
  ASSUME NEW c \in Callers
  PROVE  /\ IsFiniteSet(Running) /\ Cardinality(Running) \in Nat
         /\ Cardinality(Running \cup {c}) =
              IF c \in Running THEN Cardinality(Running) ELSE Cardinality(Running) + 1
         /\ Cardinality(Running \ {c}) =
              IF c \in Running THEN Cardinality(Running) - 1 ELSE Cardinality(Running)
<1>1. IsFiniteSet(Running)
  BY EditToolsAssumption, FS_Subset DEF Running
<1> QED BY <1>1, FS_CardinalityType, FS_AddElement, FS_RemoveElement

Busy(x) == IF x.pc = "idle" THEN 0 ELSE 1

(* One caller does something: what is to be shown of it. *)
LEMMA StepKeeps ==
  ASSUME Shape, Counting, Onward, NEW c \in Callers, Moves(c),
         IsCall(calls'[c]), Placed(calls'[c], sessions'), SeedIsAhead(calls'[c], sessions'),
         current' \in 0..Len(sessions'), left' \in 0..MaxCalls, closes' \in 0..MaxCloses,
         missed' \in Nat,
         missed' + left' + Busy(calls'[c]) <= missed + left + Busy(calls[c])
  PROVE  Shape' /\ Counting'
<1>1. \A x \in Callers :
        IsCall(calls'[x]) /\ Placed(calls'[x], sessions') /\ SeedIsAhead(calls'[x], sessions')
  BY CallStays DEF Moves
<1>2. \A x \in Callers \ {c} : calls'[x].pc = calls[x].pc
  BY CallStays DEF Moves
<1>3. missed' + left' + Cardinality(Running') <= MaxCalls
  <2> DEFINE after == {x \in Callers : calls'[x].pc # "idle"}
  <2>1. after = IF calls'[c].pc = "idle" THEN Running \ {c} ELSE Running \cup {c}
    BY <1>2 DEF Running
  <2>2. c \in Running <=> calls[c].pc # "idle"
    BY DEF Running
  <2>3. /\ missed + left + Cardinality(Running) <= MaxCalls
        /\ missed \in Nat /\ left \in Nat /\ MaxCalls \in Nat /\ missed' \in Nat /\ left' \in Nat
    BY EditToolsAssumption DEF Shape
  <2>4. after = Running'
    BY DEF Running
  <2> HIDE DEF after
  <2>5. PICK n \in Nat, m \in Nat : n = Cardinality(Running) /\ m = Cardinality(after)
    <3>1. Cardinality(Running \cup {c}) \in Nat /\ Cardinality(Running \ {c}) \in Nat
      BY RunningIsFinite, FS_AddElement, FS_RemoveElement, FS_CardinalityType
    <3>2. Cardinality(after) \in Nat
      BY <2>1, <3>1
    <3> QED BY <3>2, RunningIsFinite
  <2>6. m + Busy(calls[c]) = n + Busy(calls'[c])
    <3>1. CASE calls'[c].pc = "idle"
      <4>1. m = IF c \in Running THEN n - 1 ELSE n
        BY <2>1, <2>5, <3>1, RunningIsFinite
      <4> QED BY <2>2, <2>5, <3>1, <4>1 DEF Busy
    <3>2. CASE calls'[c].pc # "idle"
      <4>1. m = IF c \in Running THEN n ELSE n + 1
        BY <2>1, <2>5, <3>2, RunningIsFinite
      <4> QED BY <2>2, <2>5, <3>2, <4>1 DEF Busy
    <3> QED BY <3>1, <3>2
  <2>7. PICK a \in {0, 1}, b \in {0, 1} : a = Busy(calls[c]) /\ b = Busy(calls'[c])
    BY DEF Busy
  <2>8. missed' + left' + b <= missed + left + a
    BY <2>7
  <2>9. missed + left + n <= MaxCalls /\ m + a = n + b
    BY <2>3, <2>5, <2>6, <2>7
  <2>10. missed' + left' + m <= MaxCalls
    <3>1. PICK x \in Nat, y \in Nat : x = missed' + left' /\ y = missed + left
      BY <2>3
    <3>2. x + b <= y + a
      BY <2>8, <3>1
    <3>3. y + n <= MaxCalls
      BY <2>9, <3>1
    <3>4. x + m <= MaxCalls
      BY <2>3, <2>9, <3>2, <3>3
    <3> QED BY <3>1, <3>4
  <2> QED BY <2>4, <2>5, <2>10
<1>4. Shape'
  BY <1>1, <1>3, SessionsStayAhead DEF Shape, Onward, Moves
<1>5. Counting'
  BY <1>1, SessionsStayAhead DEF Counting
<1> QED BY <1>4, <1>5

(* Sessions nobody touches go on. *)
LEMMA SameSessions ==
  ASSUME Shape, UNCHANGED sessions
  PROVE  Onward
<1>1. \A s \in DOMAIN sessions : sessions[s] \in Sessions
  BY LenProperties, ElementOfSeq DEF Shape
<1>2. \A s \in DOMAIN sessions : Follows(sessions[s], sessions[s])
  BY <1>1, Unchanged
<1> QED BY <1>2 DEF Onward, Shape

(* The session of the file is there once it is resolved. *)
LEMMA OpenedOn ==
  ASSUME Shape, sessions' = Opened, current' = OpenAt
  PROVE  /\ Onward /\ current' \in 0..Len(sessions')
         /\ OpenAt \in Nat /\ OpenAt \in DOMAIN sessions'
<1>1. CASE current # 0
  <2>1. UNCHANGED sessions /\ current' = current /\ OpenAt = current
    BY <1>1 DEF Opened, OpenAt
  <2>2. DOMAIN sessions = 1..Len(sessions) /\ Len(sessions) \in Nat /\ current \in 0..Len(sessions)
    BY LenProperties DEF Shape
  <2>3. Onward
    BY <2>1, SameSessions
  <2> QED BY <1>1, <2>1, <2>2, <2>3
<1>2. CASE current = 0
  <2> DEFINE n == Len(sessions)
  <2>1. sessions' = Append(sessions, NewSession) /\ current' = n + 1 /\ OpenAt = n + 1
    BY <1>2 DEF Opened, OpenAt
  <2>2. sessions \in Seq(Sessions) /\ NewSession \in Sessions
    BY NewSessionIsAhead DEF Shape
  <2>3. /\ DOMAIN sessions = 1..n /\ n \in Nat
        /\ \A s \in 1..n : sessions[s] \in Sessions
    BY <2>2, LenProperties, ElementOfSeq
  <2>4. /\ sessions' \in Seq(Sessions) /\ Len(sessions') = n + 1
        /\ \A s \in 1..n : sessions'[s] = sessions[s]
        /\ sessions'[n + 1] = NewSession
    BY <2>1, <2>2, AppendProperties
  <2>5. DOMAIN sessions' = 1..(n + 1)
    BY <2>4, LenProperties
  <2>6. ASSUME NEW s \in DOMAIN sessions
        PROVE  s \in DOMAIN sessions' /\ Follows(sessions[s], sessions'[s])
    <3>1. Follows(sessions[s], sessions[s])
      BY <2>3, Unchanged
    <3>2. sessions'[s] = sessions[s] /\ s \in DOMAIN sessions'
      BY <2>3, <2>4, <2>5
    <3> QED BY <3>1, <3>2
  <2>7. ASSUME NEW s \in DOMAIN sessions' \ DOMAIN sessions
        PROVE  Ahead(sessions'[s]) /\ sessions'[s].next = 0
    <3>1. s = n + 1
      BY <2>3, <2>5
    <3> QED BY <2>4, <3>1, NewSessionIsAhead
  <2>8. Onward
    BY <2>4, <2>6, <2>7 DEF Onward
  <2> QED BY <2>1, <2>3, <2>4, <2>5, <2>8
<1> QED BY <1>1, <1>2

(* A change of one session. *)
LEMMA OneSession ==
  ASSUME Shape, NEW h \in DOMAIN sessions, NEW x, sessions' = [sessions EXCEPT ![h] = x],
         Follows(sessions[h], x)
  PROVE  Onward /\ Len(sessions') = Len(sessions) /\ sessions'[h] = x
<1>1. sessions \in Seq(Sessions) /\ x \in Sessions
  BY DEF Shape, Follows
<1>2. DOMAIN sessions = 1..Len(sessions) /\ Len(sessions) \in Nat
      /\ \A s \in 1..Len(sessions) : sessions[s] \in Sessions
  BY <1>1, LenProperties, ElementOfSeq
<1>3. sessions' \in Seq(Sessions) /\ Len(sessions') = Len(sessions)
  BY <1>1, <1>2, ExceptSeq
<1>4. DOMAIN sessions' = DOMAIN sessions /\ sessions'[h] = x
      /\ \A s \in DOMAIN sessions \ {h} : sessions'[s] = sessions[s]
  OBVIOUS
<1>5. \A s \in DOMAIN sessions : Follows(sessions[s], sessions'[s])
  BY <1>2, <1>4, Unchanged
<1> QED BY <1>3, <1>4, <1>5 DEF Onward

(* One call goes on, the others stay as they are. *)
LEMMA OneCall ==
  ASSUME Shape, NEW c \in Callers, NEW y, calls' = [calls EXCEPT ![c] = y]
  PROVE  Moves(c) /\ calls'[c] = y
<1>1. DOMAIN calls = Callers /\ \A x \in Callers : IsCall(calls[x])
  BY DEF Shape
<1>2. DOMAIN calls' = Callers /\ calls'[c] = y /\ \A x \in Callers \ {c} : calls'[x] = calls[x]
  BY <1>1
<1>3. \A x \in Callers \ {c} : Moved(calls[x], calls[x])
  BY <1>1, MovedNot
<1> QED BY <1>2, <1>3 DEF Moves

(* An answer needs no place. *)
LEMMA Answered ==
  ASSUME NEW x, IsCall(x), NEW ss, Placed(x, ss), NEW out \in Outs, NEW tt
  PROVE  LET y == [x EXCEPT !.pc = "idle", !.out = out]
         IN IsCall(y) /\ Placed(y, tt) /\ SeedIsAhead(y, tt) /\ y.pc = "idle" /\ y.home = x.home
<1> DEFINE y == [x EXCEPT !.pc = "idle", !.out = out]
<1>1. y \in CallsWith(x.moved, x.goal) /\ y.moved = x.moved /\ y.goal = x.goal /\ y.pc = "idle"
      /\ y.req = x.req /\ y.done = x.done /\ y.home = x.home
  BY DEF IsCall, CallsWith, PCs
<1> HIDE DEF y
<1>2. y.done <= Len(y.req.steps)
  BY <1>1 DEF Placed
<1>3. Placed(y, tt)
  BY <1>1, <1>2 DEF Placed
<1>4. SeedIsAhead(y, tt) /\ IsCall(y)
  BY <1>1 DEF SeedIsAhead, IsCall
<1> QED BY <1>1, <1>3, <1>4 DEF y

(* A running call asks for something that may be asked. *)
LEMMA RequestIs ==
  ASSUME NEW r \in Requests
  PROVE  /\ r.batch \in BOOLEAN /\ r.steps \in Seq(StepRecords)
         /\ Len(r.steps) \in Nat /\ Len(r.steps) # 0 /\ (~r.batch => Len(r.steps) = 1)
         /\ \A i \in 1..Len(r.steps) : r.steps[i] \in StepRecords
<1>1. /\ r \in [batch : BOOLEAN, steps : Seq(StepRecords)]
      /\ r.steps # <<>> /\ (~r.batch => Len(r.steps) = 1)
  BY RequestsAssumption
<1>2. r.steps \in Seq(StepRecords)
  BY <1>1
<1> QED BY <1>1, <1>2, LenProperties, ElementOfSeq, EmptySeq

(* A step of a running call that changes nothing but the call. *)
LEMMA CallOnly ==
  ASSUME Shape, Counting, NEW c \in Callers, calls[c].pc # "idle",
         UNCHANGED <<sessions, current, left, closes, missed>>,
         NEW y, calls' = [calls EXCEPT ![c] = y],
         IsCall(y), Placed(y, sessions), SeedIsAhead(y, sessions)
  PROVE  Shape' /\ Counting'
<1>1. Onward
  BY SameSessions
<1>2. Moves(c) /\ calls'[c] = y
  BY OneCall
<1>3. IsCall(calls'[c]) /\ Placed(calls'[c], sessions') /\ SeedIsAhead(calls'[c], sessions')
  BY <1>2
<1>4. /\ current' \in 0..Len(sessions') /\ left' \in 0..MaxCalls /\ closes' \in 0..MaxCloses
      /\ missed' \in Nat
  BY DEF Shape
<1>5. missed' + left' + Busy(calls'[c]) <= missed + left + Busy(calls[c])
  BY EditToolsAssumption DEF Shape, Busy
<1> QED BY <1>1, <1>2, <1>3, <1>4, <1>5, StepKeeps

(***************************************************************************)
(* The actions                                                             *)
(***************************************************************************)

(* A call begins: it asks for something, and has no session yet. *)
LEMMA BeginKeeps ==
  ASSUME Shape, Counting, NEW c \in Callers, NEW r \in Requests, Begin(c, r)
  PROVE  Shape' /\ Counting'
<1> DEFINE y == [Idle EXCEPT !.pc = "resolve", !.req = r]
<1>1. y.pc = "resolve" /\ y.req = r /\ y.done = 0 /\ y.moved = {} /\ y.goal = <<>>
  BY DEF Idle
<1>2. y \in CallsWith(y.moved, y.goal)
  BY DEF Idle, CallsWith, PCs, Outs
<1>3. calls[c].pc = "idle" /\ left > 0 /\ calls' = [calls EXCEPT ![c] = y] /\ left' = left - 1
      /\ UNCHANGED <<sessions, current, closes, missed>>
  BY DEF Begin
<1> HIDE DEF y
<1>4. Onward /\ Moves(c) /\ calls'[c] = y
  BY <1>3, SameSessions, OneCall
<1>5. IsCall(y) /\ Placed(y, sessions') /\ SeedIsAhead(y, sessions')
  BY <1>1, <1>2, RequestIs DEF IsCall, Placed, SeedIsAhead
<1>6. /\ current' \in 0..Len(sessions') /\ left' \in 0..MaxCalls /\ closes' \in 0..MaxCloses
      /\ missed' \in Nat
  BY <1>3, EditToolsAssumption DEF Shape
<1>7. missed' + left' + Busy(calls'[c]) <= missed + left + Busy(calls[c])
  BY <1>1, <1>3, <1>4, EditToolsAssumption DEF Shape, Busy
<1> QED BY <1>4, <1>5, <1>6, <1>7, StepKeeps

(* A call gets the session of the file, which may be a new one. *)
LEMMA GetSessionKeeps ==
  ASSUME Shape, Counting, NEW c \in Callers, GetSession(c)
  PROVE  Shape' /\ Counting'
<1> DEFINE x == calls[c]
           pc == IF x.req.batch THEN "validate" ELSE IF Tracked THEN "context" ELSE "match"
           y == [x EXCEPT !.home = OpenAt, !.pc = pc]
<1>1. IsCall(x) /\ Placed(x, sessions) /\ DOMAIN calls = Callers
  BY DEF Shape
<1>2. x.pc = "resolve" /\ sessions' = Opened /\ current' = OpenAt /\ UNCHANGED <<left, closes, missed>>
  BY DEF GetSession
<1>3. calls' = [calls EXCEPT ![c] = y]
  BY <1>1 DEF GetSession
<1>4. Onward /\ current' \in 0..Len(sessions') /\ OpenAt \in Nat /\ OpenAt \in DOMAIN sessions'
  BY <1>2, OpenedOn
<1>5. /\ y \in CallsWith(x.moved, x.goal) /\ y.moved = x.moved /\ y.goal = x.goal
      /\ y.pc = pc /\ y.req = x.req /\ y.done = x.done /\ y.home = OpenAt
  BY <1>1, <1>4 DEF IsCall, CallsWith, PCs
<1>6. x.req \in Requests /\ x.done = 0
  BY <1>1, <1>2 DEF Placed
<1>7. x.req.batch \in BOOLEAN /\ Len(x.req.steps) \in Nat
  BY <1>6, RequestIs
<1> HIDE DEF y
<1>8. Moves(c) /\ calls'[c] = y
  BY <1>3, OneCall
<1>9. IsCall(y) /\ SeedIsAhead(y, sessions')
  BY <1>5 DEF IsCall, SeedIsAhead
<1>10. Placed(y, sessions')
  <2>1. CASE x.req.batch
    BY <1>4, <1>5, <1>6, <1>7, <2>1 DEF Placed
  <2>2. CASE ~x.req.batch /\ Tracked
    BY <1>4, <1>5, <1>6, <1>7, <2>2 DEF Placed
  <2>3. CASE ~x.req.batch /\ ~Tracked
    BY <1>4, <1>5, <1>6, <1>7, <2>3 DEF Placed
  <2> QED BY <2>1, <2>2, <2>3
<1>11. left' \in 0..MaxCalls /\ closes' \in 0..MaxCloses /\ missed' \in Nat
  BY <1>2 DEF Shape
<1>12. missed' + left' + Busy(calls'[c]) <= missed + left + Busy(calls[c])
  BY <1>2, <1>8, EditToolsAssumption DEF Shape, Busy
<1> QED BY <1>4, <1>8, <1>9, <1>10, <1>11, <1>12, StepKeeps

(* A call finds the counter set. *)
LEMMA HaveContextKeeps ==
  ASSUME Shape, Counting, NEW c \in Callers, HaveContext(c)
  PROVE  Shape' /\ Counting'
<1> DEFINE x == calls[c]
           y == [x EXCEPT !.pc = AfterContext(c)]
<1>1. IsCall(x) /\ Placed(x, sessions) /\ DOMAIN calls = Callers
  BY DEF Shape
<1>2. x.pc = "context" /\ sessions[x.home].next # 0 /\ calls' = [calls EXCEPT ![c] = y]
      /\ UNCHANGED <<sessions, current, left, closes, missed>>
  BY <1>1 DEF HaveContext
<1>3. x.req \in Requests /\ x.done = 0 /\ x.home \in DOMAIN sessions /\ Tracked
  BY <1>1, <1>2 DEF Placed
<1>4. x.req.batch \in BOOLEAN /\ Len(x.req.steps) \in Nat
  BY <1>3, RequestIs
<1>5. /\ y \in CallsWith(x.moved, x.goal) /\ y.moved = x.moved /\ y.goal = x.goal
      /\ y.pc = AfterContext(c) /\ y.req = x.req /\ y.done = x.done /\ y.home = x.home
  BY <1>1 DEF IsCall, CallsWith, PCs, AfterContext
<1> HIDE DEF y
<1>6. IsCall(y) /\ SeedIsAhead(y, sessions)
  BY <1>5 DEF IsCall, SeedIsAhead, AfterContext
<1>7. Placed(y, sessions)
  <2>1. CASE x.req.batch
    BY <1>2, <1>3, <1>4, <1>5, <2>1 DEF Placed, AfterContext
  <2>2. CASE ~x.req.batch
    BY <1>2, <1>3, <1>4, <1>5, <2>2 DEF Placed, AfterContext
  <2> QED BY <2>1, <2>2
<1>8. x.pc # "idle"
  BY <1>2
<1> QED BY <1>2, <1>6, <1>7, <1>8, CallOnly

(* A call starts a scan for used ids, or waits for the one that runs. *)
LEMMA StartScanKeeps ==
  ASSUME Shape, Counting, NEW c \in Callers, StartScan(c)
  PROVE  Shape' /\ Counting'
<1> DEFINE x == calls[c]
           h == x.home
           s == sessions[h]
           seed == IF s.scan # 0 THEN s.scan ELSE FreshId(s.doc)
           y == [x EXCEPT !.pc = "scan", !.seed = seed]
           z == [s EXCEPT !.scan = seed]
<1>1. IsCall(x) /\ Placed(x, sessions) /\ DOMAIN calls = Callers
  BY DEF Shape
<1>2. x.pc = "context" /\ s.next = 0
  BY DEF StartScan
<1>3. x.req \in Requests /\ x.done = 0 /\ h \in DOMAIN sessions /\ Tracked
  BY <1>1, <1>2 DEF Placed
<1>4. s \in Sessions /\ Ahead(s)
  BY <1>3, LenProperties, ElementOfSeq DEF Shape, Counting
<1>5. seed \in Nat /\ seed # 0 /\ (~s.crossed => s.doc \in Documents(Below(seed))) /\ Follows(s, z)
  <2> HIDE DEF s
  <2> QED BY <1>2, <1>4, ScanStarted
<1>6. sessions' = [sessions EXCEPT ![h] = z] /\ calls' = [calls EXCEPT ![c] = y]
      /\ UNCHANGED <<current, left, closes, missed>>
  BY <1>1, <1>3 DEF StartScan
<1>7. /\ y \in CallsWith(x.moved, x.goal) /\ y.moved = x.moved /\ y.goal = x.goal
      /\ y.pc = "scan" /\ y.req = x.req /\ y.done = x.done /\ y.home = h /\ y.seed = seed
  <2> HIDE DEF seed
  <2> QED BY <1>1, <1>5 DEF IsCall, CallsWith, PCs
<1>8. z.doc = s.doc /\ z.crossed = s.crossed
  <2> HIDE DEF seed, s
  <2> QED BY <1>4 DEF Sessions
<1> HIDE DEF y, z, seed
<1>9. Onward /\ Len(sessions') = Len(sessions) /\ sessions'[h] = z
  BY <1>3, <1>5, <1>6, OneSession
<1>10. Moves(c) /\ calls'[c] = y
  BY <1>6, OneCall
<1>11. IsCall(y)
  BY <1>7 DEF IsCall
<1>12. SeedIsAhead(y, sessions')
  BY <1>5, <1>7, <1>8, <1>9 DEF SeedIsAhead
<1>13. h \in DOMAIN sessions'
  BY <1>3, <1>9 DEF Onward
<1>14. Len(x.req.steps) \in Nat
  BY <1>3, RequestIs
<1>15. Placed(y, sessions')
  BY <1>3, <1>5, <1>7, <1>13, <1>14 DEF Placed
<1>16. /\ current' \in 0..Len(sessions') /\ left' \in 0..MaxCalls /\ closes' \in 0..MaxCloses
       /\ missed' \in Nat
  BY <1>6, <1>9 DEF Shape
<1>17. missed' + left' + Busy(calls'[c]) <= missed + left + Busy(calls[c])
  BY <1>2, <1>6, <1>10, EditToolsAssumption DEF Shape, Busy
<1> QED BY <1>9, <1>10, <1>11, <1>12, <1>15, <1>16, <1>17, StepKeeps

(* A scan ends. *)
LEMMA EndScanKeeps ==
  ASSUME Shape, Counting, NEW c \in Callers, EndScan(c)
  PROVE  Shape' /\ Counting'
<1> DEFINE x == calls[c]
           h == x.home
           s == sessions[h]
           y == [x EXCEPT !.pc = AfterContext(c)]
           z == [s EXCEPT !.next = Seeded(@, x.seed), !.scan = 0]
<1>1. IsCall(x) /\ Placed(x, sessions) /\ SeedIsAhead(x, sessions) /\ DOMAIN calls = Callers
  BY DEF Shape, Counting
<1>2. x.pc = "scan"
  BY DEF EndScan
<1>3. x.req \in Requests /\ x.done = 0 /\ h \in DOMAIN sessions /\ Tracked /\ x.seed # 0
  BY <1>1, <1>2 DEF Placed
<1>4. s \in Sessions
  BY <1>3, LenProperties, ElementOfSeq DEF Shape
<1>5. x.seed \in Nat
  BY <1>1 DEF IsCall, CallsWith
<1>6. ~s.crossed /\ s.next = 0 => s.doc \in Documents(Below(x.seed))
  BY <1>1, <1>2 DEF SeedIsAhead
<1>7. Follows(s, z) /\ Seeded(s.next, x.seed) # 0
  <2> HIDE DEF s, x
  <2> QED BY <1>3, <1>4, <1>5, <1>6, ScanEnded
<1>8. z.next # 0
  <2>1. z.next = Seeded(s.next, x.seed)
    <3> HIDE DEF s
    <3> QED BY <1>4 DEF Sessions
  <2> QED BY <1>7, <2>1
<1>9. sessions' = [sessions EXCEPT ![h] = z] /\ calls' = [calls EXCEPT ![c] = y]
      /\ UNCHANGED <<current, left, closes, missed>>
  BY <1>1, <1>3 DEF EndScan
<1>10. x.req.batch \in BOOLEAN /\ Len(x.req.steps) \in Nat
  BY <1>3, RequestIs
<1>11. /\ y \in CallsWith(x.moved, x.goal) /\ y.moved = x.moved /\ y.goal = x.goal
       /\ y.pc = AfterContext(c) /\ y.req = x.req /\ y.done = x.done /\ y.home = h
  BY <1>1 DEF IsCall, CallsWith, PCs, AfterContext
<1> HIDE DEF y, z
<1>12. Onward /\ Len(sessions') = Len(sessions) /\ sessions'[h] = z
  BY <1>3, <1>7, <1>9, OneSession
<1>13. Moves(c) /\ calls'[c] = y
  BY <1>9, OneCall
<1>14. IsCall(y) /\ SeedIsAhead(y, sessions')
  BY <1>11 DEF IsCall, SeedIsAhead, AfterContext
<1>15. h \in DOMAIN sessions' /\ sessions'[h].next # 0
  BY <1>3, <1>8, <1>12 DEF Onward
<1>16. Placed(y, sessions')
  <2>1. CASE x.req.batch
    BY <1>3, <1>10, <1>11, <1>15, <2>1 DEF Placed, AfterContext
  <2>2. CASE ~x.req.batch
    BY <1>3, <1>10, <1>11, <1>15, <2>2 DEF Placed, AfterContext
  <2> QED BY <2>1, <2>2
<1>17. /\ current' \in 0..Len(sessions') /\ left' \in 0..MaxCalls /\ closes' \in 0..MaxCloses
       /\ missed' \in Nat
  BY <1>9, <1>12 DEF Shape
<1>18. missed' + left' + Busy(calls'[c]) <= missed + left + Busy(calls[c])
  BY <1>2, <1>9, <1>13, EditToolsAssumption DEF Shape, Busy
<1> QED BY <1>12, <1>13, <1>14, <1>16, <1>17, <1>18, StepKeeps

(* A call that is refused, or has done its part, rests. *)
LEMMA AnswerKeeps ==
  ASSUME Shape, Counting, NEW c \in Callers, calls[c].pc # "idle",
         UNCHANGED <<sessions, current, left, closes, missed>>,
         NEW out \in Outs, calls' = Answer(c, out)
  PROVE  Shape' /\ Counting'
<1> DEFINE x == calls[c]
           y == [x EXCEPT !.pc = "idle", !.out = out]
<1>1. IsCall(x) /\ Placed(x, sessions) /\ DOMAIN calls = Callers
  BY DEF Shape
<1>2. calls' = [calls EXCEPT ![c] = y]
  BY <1>1 DEF Answer
<1>3. IsCall(y) /\ Placed(y, sessions) /\ SeedIsAhead(y, sessions)
  <2> HIDE DEF x
  <2> QED BY <1>1, Answered
<1> HIDE DEF y
<1> QED BY <1>2, <1>3, CallOnly

(* A standalone edit looks its text up. *)
LEMMA MatchKeeps ==
  ASSUME Shape, Counting, NEW c \in Callers, Match(c)
  PROVE  Shape' /\ Counting'
<1> DEFINE x == calls[c]
           range == Found(Doc(c), OnlyStep(c))
           y == [x EXCEPT !.range = range, !.moved = Apart(c),
                          !.pc = IF Tracked THEN "preview" ELSE "mutate"]
<1>1. IsCall(x) /\ Placed(x, sessions) /\ DOMAIN calls = Callers
  BY DEF Shape
<1>2. x.pc = "match" /\ UNCHANGED <<sessions, current, left, closes, missed>>
  BY DEF Match
<1>3. CASE ~Finds(Doc(c), OnlyStep(c))
  <2>1. calls' = Answer(c, "refused")
    BY <1>3 DEF Match
  <2>2. "refused" \in Outs /\ calls[c].pc # "idle"
    BY <1>2 DEF Outs
  <2> QED BY <1>2, <2>1, <2>2, AnswerKeeps
<1>4. CASE Finds(Doc(c), OnlyStep(c))
  <2>1. calls' = [calls EXCEPT ![c] = y]
    BY <1>1, <1>4 DEF Match
  <2>2. x.req \in Requests /\ x.done = 0 /\ x.home \in DOMAIN sessions /\ ~x.req.batch
        /\ (Tracked => sessions[x.home].next # 0)
    BY <1>1, <1>2 DEF Placed
  <2>3. Len(x.req.steps) = 1 /\ OnlyStep(c) \in StepRecords
    BY <2>2, RequestIs DEF OnlyStep
  <2>4. Doc(c) \in Documents(All)
    <3>1. sessions[x.home] \in Sessions
      BY <2>2, LenProperties, ElementOfSeq DEF Shape
    <3> QED BY <3>1 DEF Sessions, Doc
  <2>5. range \in Nat \X Nat /\ RangeFits(OnlyStep(c), range)
    BY <1>4, <2>3, <2>4, FoundInside
  <2> HIDE DEF range
  <2>6. /\ y \in CallsWith(Apart(c), x.goal) /\ y.moved = Apart(c) /\ y.goal = x.goal
        /\ y.pc = (IF Tracked THEN "preview" ELSE "mutate") /\ y.req = x.req /\ y.done = x.done
        /\ y.home = x.home /\ y.range = range
    BY <1>1, <2>5 DEF IsCall, CallsWith, PCs
  <2> HIDE DEF y
  <2>7. IsCall(y) /\ SeedIsAhead(y, sessions)
    BY <2>6 DEF IsCall, SeedIsAhead
  <2>8. RangeFits(y.req.steps[1], y.range)
    BY <2>5, <2>6 DEF OnlyStep
  <2>9. Placed(y, sessions)
    <3>1. CASE Tracked
      BY <2>2, <2>3, <2>6, <2>8, <3>1 DEF Placed
    <3>2. CASE ~Tracked
      BY <2>2, <2>3, <2>6, <2>8, <3>2 DEF Placed
    <3> QED BY <3>1, <3>2
  <2>10. x.pc # "idle"
    BY <1>2
  <2> QED BY <1>2, <2>1, <2>7, <2>9, <2>10, CallOnly
<1> QED BY <1>3, <1>4

(* A batch is checked against the text. *)
LEMMA ValidateKeeps ==
  ASSUME Shape, Counting, NEW c \in Callers, Validate(c)
  PROVE  Shape' /\ Counting'
<1> DEFINE x == calls[c]
           goal == Goal(Doc(c), x.req.steps)
           y == [x EXCEPT !.moved = Apart(c), !.goal = goal,
                          !.pc = IF Tracked THEN "context" ELSE "steps"]
<1>1. IsCall(x) /\ Placed(x, sessions) /\ DOMAIN calls = Callers
  BY DEF Shape
<1>2. x.pc = "validate" /\ UNCHANGED <<sessions, current, left, closes, missed>>
  BY DEF Validate
<1>3. CASE ~Acceptable(Doc(c), x.req.steps)
  <2>1. calls' = Answer(c, "refused")
    BY <1>3 DEF Validate
  <2>2. "refused" \in Outs /\ calls[c].pc # "idle"
    BY <1>2 DEF Outs
  <2> QED BY <1>2, <2>1, <2>2, AnswerKeeps
<1>4. CASE Acceptable(Doc(c), x.req.steps)
  <2>1. calls' = [calls EXCEPT ![c] = y]
    BY <1>1, <1>4 DEF Validate
  <2>2. x.req \in Requests /\ x.done = 0 /\ x.home \in DOMAIN sessions /\ x.req.batch
    BY <1>1, <1>2 DEF Placed
  <2>3. Len(x.req.steps) \in Nat /\ Len(x.req.steps) # 0
    BY <2>2, RequestIs
  <2> HIDE DEF goal
  <2>4. /\ y \in CallsWith(Apart(c), goal) /\ y.moved = Apart(c) /\ y.goal = goal
        /\ y.pc = (IF Tracked THEN "context" ELSE "steps") /\ y.req = x.req /\ y.done = x.done
        /\ y.home = x.home
    BY <1>1 DEF IsCall, CallsWith, PCs
  <2> HIDE DEF y
  <2>5. IsCall(y) /\ SeedIsAhead(y, sessions)
    BY <2>4 DEF IsCall, SeedIsAhead
  <2>6. Placed(y, sessions)
    <3>1. CASE Tracked
      BY <2>2, <2>3, <2>4, <3>1 DEF Placed
    <3>2. CASE ~Tracked
      BY <2>2, <2>3, <2>4, <3>2 DEF Placed
    <3> QED BY <3>1, <3>2
  <2>7. x.pc # "idle"
    BY <1>2
  <2> QED BY <1>2, <2>1, <2>5, <2>6, <2>7, CallOnly
<1> QED BY <1>3, <1>4

(* An edit is tried on a copy. *)
LEMMA PreviewKeeps ==
  ASSUME Shape, Counting, NEW c \in Callers, Preview(c)
  PROVE  Shape' /\ Counting'
<1> DEFINE x == calls[c]
           y == [x EXCEPT !.pc = IF x.req.batch THEN "steps" ELSE "mutate"]
<1>1. IsCall(x) /\ Placed(x, sessions) /\ DOMAIN calls = Callers
  BY DEF Shape
<1>2. x.pc = "preview" /\ UNCHANGED <<sessions, current, left, closes, missed>>
  BY DEF Preview
<1>3. CASE ~Passes(c)
  <2>1. calls' = Answer(c, "refused")
    BY <1>3 DEF Preview
  <2>2. "refused" \in Outs /\ calls[c].pc # "idle"
    BY <1>2 DEF Outs
  <2> QED BY <1>2, <2>1, <2>2, AnswerKeeps
<1>4. CASE Passes(c)
  <2>1. calls' = [calls EXCEPT ![c] = y]
    BY <1>1, <1>4 DEF Preview
  <2>2. x.req \in Requests /\ x.done = 0 /\ x.home \in DOMAIN sessions /\ Tracked
        /\ sessions[x.home].next # 0 /\ (~x.req.batch => RangeFits(x.req.steps[1], x.range))
    BY <1>1, <1>2 DEF Placed
  <2>3. x.req.batch \in BOOLEAN /\ Len(x.req.steps) \in Nat /\ Len(x.req.steps) # 0
    BY <2>2, RequestIs
  <2>4. /\ y \in CallsWith(x.moved, x.goal) /\ y.moved = x.moved /\ y.goal = x.goal
        /\ y.pc = (IF x.req.batch THEN "steps" ELSE "mutate") /\ y.req = x.req /\ y.done = x.done
        /\ y.home = x.home /\ y.range = x.range
    BY <1>1 DEF IsCall, CallsWith, PCs
  <2> HIDE DEF y
  <2>5. IsCall(y) /\ SeedIsAhead(y, sessions)
    BY <2>4 DEF IsCall, SeedIsAhead
  <2>6. Placed(y, sessions)
    <3>1. CASE x.req.batch
      BY <2>2, <2>3, <2>4, <3>1 DEF Placed
    <3>2. CASE ~x.req.batch
      BY <2>2, <2>3, <2>4, <3>2 DEF Placed
    <3> QED BY <3>1, <3>2
  <2>7. x.pc # "idle"
    BY <1>2
  <2> QED BY <1>2, <2>1, <2>5, <2>6, <2>7, CallOnly
<1> QED BY <1>3, <1>4

(* The others learn of an edit. *)
LEMMA NotedMoves ==
  ASSUME Shape, NEW c \in Callers, NEW y, NEW s, NEW pid,
         calls' = Noted([calls EXCEPT ![c] = y], c, s, pid)
  PROVE  Moves(c) /\ calls'[c] = y
<1>1. DOMAIN calls = Callers /\ \A x \in Callers : IsCall(calls[x])
  BY DEF Shape
<1>2. DOMAIN calls' = Callers /\ calls'[c] = y
  BY <1>1 DEF Noted
<1>3. ASSUME NEW x \in Callers \ {c} PROVE Moved(calls[x], calls'[x])
  <2>1. CASE calls[x].home = s
    <3>1. calls'[x] = [calls[x] EXCEPT !.moved = @ \cup {pid}]
      BY <1>1, <2>1 DEF Noted
    <3> QED BY <3>1 DEF Moved
  <2>2. CASE calls[x].home # s
    <3>1. calls'[x] = calls[x]
      BY <1>1, <2>2 DEF Noted
    <3> QED BY <1>1, <3>1, MovedNot
  <2> QED BY <2>1, <2>2
<1> QED BY <1>2, <1>3 DEF Moves

(* A standalone edit is applied. *)
LEMMA MutateKeeps ==
  ASSUME Shape, Counting, NEW c \in Callers, Mutate(c)
  PROVE  Shape' /\ Counting'
<1> DEFINE x == calls[c]
           h == x.home
           s == sessions[h]
           step == OnlyStep(c)
           t == Trimmed(step, x.range)
           r == Applied(s.doc, s.next, step, t)
           y == [x EXCEPT !.pc = "idle", !.out = "ok"]
           z == [s EXCEPT !.doc = r.doc, !.next = r.next]
<1>1. IsCall(x) /\ Placed(x, sessions) /\ DOMAIN calls = Callers
  BY DEF Shape
<1>2. x.pc = "mutate" /\ UNCHANGED <<current, left, closes>>
  BY DEF Mutate
<1>3. CASE ~Applies(s.doc, step, t)
  <2>1. calls' = Answer(c, "refused") /\ UNCHANGED <<sessions, missed>>
    BY <1>3 DEF Mutate, Doc
  <2>2. "refused" \in Outs /\ calls[c].pc # "idle"
    BY <1>2 DEF Outs
  <2> QED BY <1>2, <2>1, <2>2, AnswerKeeps
<1>4. CASE Applies(s.doc, step, t)
  <2>1. x.req \in Requests /\ h \in DOMAIN sessions /\ (Tracked => s.next # 0)
        /\ (~x.req.batch => RangeFits(x.req.steps[1], x.range)) /\ ~x.req.batch
    BY <1>1, <1>2 DEF Placed
  <2>2. step \in StepRecords
    BY <2>1, RequestIs DEF OnlyStep
  <2>3. s \in Sessions
    BY <2>1, LenProperties, ElementOfSeq DEF Shape
  <2>4. x.range \in Nat \X Nat
    BY <1>1 DEF IsCall, CallsWith
  <2>5. step.op = "replace" => t.s \in Nat /\ t.e \in Nat /\ t.new \in Seq(Tokens)
    <3>1. RangeFits(step, x.range)
      BY <2>1 DEF OnlyStep
    <3> HIDE DEF step, x
    <3> QED BY <2>2, <2>4, <3>1, TrimmedInside
  <2>6. Follows(s, z)
    <3>1. z \in [doc : {r.doc}, next : {r.next}, scan : {s.scan}, crossed : {s.crossed}]
      <4> HIDE DEF s, r
      <4> QED BY <2>3 DEF Sessions
    <3> HIDE DEF s, step, t, z
    <3> QED BY <1>4, <2>1, <2>2, <2>3, <2>5, <3>1, OwnEdit
  <2>8. sessions' = [sessions EXCEPT ![h] = z]
    <3>1. sessions' = [sessions EXCEPT ![h].doc = r.doc, ![h].next = r.next]
      BY <1>4 DEF Mutate, Doc
    <3> HIDE DEF r
    <3> QED BY <2>1, <3>1
  <2>9. calls' = Noted([calls EXCEPT ![c] = y], c, h, Touched(s.doc, step))
    <3>1. Answer(c, "ok") = [calls EXCEPT ![c] = y]
      BY <1>1 DEF Answer
    <3> QED BY <1>4, <3>1 DEF Mutate, Doc
  <2>10. IsCall(y) /\ Placed(y, sessions') /\ SeedIsAhead(y, sessions') /\ y.pc = "idle"
    <3>1. "ok" \in Outs
      BY DEF Outs
    <3> HIDE DEF x
    <3> QED BY <1>1, <3>1, Answered
  <2>11. missed \in Nat /\ missed' \in {missed, missed + 1}
    BY <1>4 DEF Mutate, Doc, Shape
  <2> HIDE DEF y, z
  <2>12. Onward /\ Len(sessions') = Len(sessions)
    BY <2>1, <2>6, <2>8, OneSession
  <2>13. Moves(c) /\ calls'[c] = y
    BY <2>9, NotedMoves
  <2>14. /\ current' \in 0..Len(sessions') /\ left' \in 0..MaxCalls /\ closes' \in 0..MaxCloses
         /\ missed' \in Nat
    BY <1>2, <2>11, <2>12 DEF Shape
  <2>15. missed' + left' + Busy(calls'[c]) <= missed + left + Busy(calls[c])
    <3>1. Busy(calls'[c]) = 0 /\ Busy(calls[c]) = 1
      BY <1>2, <2>10, <2>13 DEF Busy
    <3>2. left' = left /\ left \in Nat
      BY <1>2, EditToolsAssumption DEF Shape
    <3> HIDE DEF x
    <3>3. CASE missed' = missed
      BY <2>11, <3>1, <3>2, <3>3
    <3>4. CASE missed' = missed + 1
      BY <2>11, <3>1, <3>2, <3>4
    <3> QED BY <2>11, <3>3, <3>4
  <2> QED BY <2>10, <2>12, <2>13, <2>14, <2>15, StepKeeps
<1> QED BY <1>3, <1>4

(* A batch step gets the session of the file. *)
LEMMA StepSessionKeeps ==
  ASSUME Shape, Counting, NEW c \in Callers, StepSession(c)
  PROVE  Shape' /\ Counting'
<1> DEFINE x == calls[c]
           y == [x EXCEPT !.pc = "step", !.at = OpenAt]
<1>1. IsCall(x) /\ Placed(x, sessions) /\ DOMAIN calls = Callers
  BY DEF Shape
<1>2. x.pc = "steps" /\ sessions' = Opened /\ current' = OpenAt /\ UNCHANGED <<left, closes, missed>>
      /\ calls' = [calls EXCEPT ![c] = y]
  BY <1>1 DEF StepSession
<1>3. Onward /\ current' \in 0..Len(sessions') /\ OpenAt \in Nat /\ OpenAt \in DOMAIN sessions'
  BY <1>2, OpenedOn
<1>4. /\ y \in CallsWith(x.moved, x.goal) /\ y.moved = x.moved /\ y.goal = x.goal
      /\ y.pc = "step" /\ y.req = x.req /\ y.done = x.done /\ y.home = x.home /\ y.at = OpenAt
  BY <1>1, <1>3 DEF IsCall, CallsWith, PCs
<1>5. x.req \in Requests /\ x.req.batch /\ x.home \in DOMAIN sessions /\ x.done < Len(x.req.steps)
      /\ (Tracked => sessions[x.home].next # 0)
  BY <1>1, <1>2 DEF Placed
<1>6. Len(x.req.steps) \in Nat /\ x.done \in Nat
  BY <1>1, <1>5, RequestIs DEF IsCall, CallsWith
<1>7. x.home \in DOMAIN sessions' /\ (Tracked => sessions'[x.home].next # 0)
  BY <1>3, <1>5 DEF Onward, Follows
<1> HIDE DEF y
<1>8. Moves(c) /\ calls'[c] = y
  BY <1>2, OneCall
<1>9. IsCall(y) /\ SeedIsAhead(y, sessions')
  BY <1>4 DEF IsCall, SeedIsAhead
<1>10. Placed(y, sessions')
  BY <1>3, <1>4, <1>5, <1>6, <1>7 DEF Placed
<1>11. left' \in 0..MaxCalls /\ closes' \in 0..MaxCloses /\ missed' \in Nat
  BY <1>2 DEF Shape
<1>12. missed' + left' + Busy(calls'[c]) <= missed + left + Busy(calls[c])
  BY <1>2, <1>4, <1>8, EditToolsAssumption DEF Shape, Busy
<1> QED BY <1>3, <1>8, <1>9, <1>10, <1>11, <1>12, StepKeeps

(* The sessions after a batch step: the counter of one session gives the   *)
(* ids of an edit of another, or of its own.                               *)
LEMMA StepSessions ==
  ASSUME Shape, NEW h \in DOMAIN sessions, NEW a \in DOMAIN sessions,
         Tracked => sessions[h].next # 0,
         NEW step \in StepRecords, NEW t, Applies(sessions[a].doc, step, t),
         step.op = "replace" => t.s \in Nat /\ t.e \in Nat /\ t.new \in Seq(Tokens),
         NEW r, r = Applied(sessions[a].doc, sessions[h].next, step, t),
         sessions' = [sessions EXCEPT ![h].next = r.next, ![a].doc = r.doc,
                                      ![a].crossed = @ \/ a # h]
  PROVE  Onward /\ Len(sessions') = Len(sessions)
<1> DEFINE g == sessions[h]
           s == sessions[a]
<1>1. sessions \in Seq(Sessions)
  BY DEF Shape
<1>2. /\ DOMAIN sessions = 1..Len(sessions) /\ Len(sessions) \in Nat
      /\ \A i \in DOMAIN sessions : sessions[i] \in Sessions
  BY <1>1, LenProperties, ElementOfSeq
<1>3. g \in Sessions /\ s \in Sessions /\ g.next \in Nat
  BY <1>2 DEF Sessions
<1>4. CASE a = h
  <2> DEFINE z == [s EXCEPT !.next = r.next, !.doc = r.doc, !.crossed = @ \/ a # h]
  <2>1. sessions' = [sessions EXCEPT ![a] = z]
    BY <1>4
  <2>2. z \in [doc : {r.doc}, next : {r.next}, scan : {s.scan}, crossed : {s.crossed}]
    <3>1. (s.crossed \/ a # h) = s.crossed
      BY <1>3, <1>4 DEF Sessions
    <3> HIDE DEF s
    <3> QED BY <1>3, <3>1 DEF Sessions
  <2> HIDE DEF z
  <2>3. Follows(s, z)
    <3>1. r = Applied(s.doc, s.next, step, t)
      BY <1>4
    <3>2. Applies(s.doc, step, t) /\ (Tracked => s.next # 0)
      BY <1>4
    <3> HIDE DEF s
    <3> QED BY <1>3, <2>2, <3>1, <3>2, OwnEdit
  <2> QED BY <2>1, <2>3, OneSession
<1>5. CASE a # h
  <2> DEFINE w == [g EXCEPT !.next = r.next]
             z == [s EXCEPT !.doc = r.doc, !.crossed = @ \/ a # h]
  <2>1. /\ DOMAIN sessions' = DOMAIN sessions
        /\ sessions'[h] = w /\ sessions'[a] = z
        /\ \A i \in DOMAIN sessions \ {a, h} : sessions'[i] = sessions[i]
    BY <1>5
  <2>2. w \in [doc : {g.doc}, next : {r.next}, scan : {g.scan}, crossed : {g.crossed}]
    <3> HIDE DEF g
    <3> QED BY <1>3 DEF Sessions
  <2>3. z \in [doc : {r.doc}, next : {s.next}, scan : {s.scan}, crossed : BOOLEAN] /\ z.crossed
    <3> HIDE DEF s
    <3> QED BY <1>3, <1>5 DEF Sessions
  <2> HIDE DEF w, z
  <2>4. r.next \in Nat /\ g.next <= r.next /\ (~Tracked => r.next = g.next)
    <3>1. s.doc \in Documents(All) /\ Applies(s.doc, step, t)
      BY <1>3 DEF Sessions
    <3>2. PICK d \in Documents(All), n \in Nat : d = s.doc /\ n = g.next
      BY <1>3, <3>1
    <3>3. r = Applied(d, n, step, t) /\ Applies(d, step, t)
      BY <3>1, <3>2
    <3>4. Applied(d, n, step, t).next \in Nat /\ n <= Applied(d, n, step, t).next
      BY <3>3, AppliedAdds
    <3>5. ~Tracked => r.next = n
      BY <3>3, StepIs DEF Applied
    <3> QED BY <3>2, <3>3, <3>4, <3>5
  <2>5. Follows(g, w)
    <3>1. Tracked => g.next # 0
      OBVIOUS
    <3> HIDE DEF g
    <3> QED BY <1>3, <2>2, <2>4, <3>1, CounterLent
  <2>6. Follows(s, z)
    <3>1. PICK n \in Nat : n = g.next
      BY <1>3
    <3>2. Applies(s.doc, step, t) /\ r = Applied(s.doc, n, step, t)
      BY <3>1
    <3> HIDE DEF s, g
    <3> QED BY <1>3, <2>3, <3>2, CrossingEdit
  <2>7. \A i \in DOMAIN sessions : Follows(sessions[i], sessions'[i])
    BY <1>2, <2>1, <2>5, <2>6, Unchanged
  <2>8. sessions' \in Seq(Sessions) /\ Len(sessions') = Len(sessions)
    <3>1. \A i \in DOMAIN sessions : sessions'[i] \in Sessions
      BY <2>7, Zenon DEF Follows
    <3>2. PICK n \in Nat : n = Len(sessions)
      BY <1>2
    <3>3. sessions' = [i \in 1..n |-> sessions'[i]]
      BY <1>2, <2>1, <3>2
    <3>4. sessions' \in [1..n -> Sessions]
      BY <1>2, <3>1, <3>2, <3>3
    <3>5. \A f : f \in [1..n -> Sessions] => f \in Seq(Sessions) /\ Len(f) = n
      OBVIOUS
    <3> QED BY <3>2, <3>4, <3>5
  <2> QED BY <2>1, <2>7, <2>8 DEF Onward
<1> QED BY <1>4, <1>5

(* A batch step is applied. *)
LEMMA StepActionKeeps ==
  ASSUME Shape, Counting, NEW c \in Callers, Step(c)
  PROVE  Shape' /\ Counting'
<1> DEFINE x == calls[c]
           h == x.home
           a == x.at
           d == sessions[a].doc
           step == x.req.steps[x.done + 1]
           t == Trimmed(step, Found(d, step))
           r == Applied(d, sessions[h].next, step, t)
           last == x.done + 1 = Len(x.req.steps)
           y == IF last THEN [x EXCEPT !.pc = "idle", !.out = "ok", !.done = @ + 1]
                ELSE [x EXCEPT !.pc = "steps", !.done = @ + 1]
<1>1. IsCall(x) /\ Placed(x, sessions) /\ DOMAIN calls = Callers
  BY DEF Shape
<1>2. x.pc = "step" /\ UNCHANGED <<current, left, closes, missed>>
  BY DEF Step
<1>3. CASE ~(Finds(d, step) /\ Applies(d, step, t))
  <2>1. calls' = Answer(c, "partial") /\ UNCHANGED sessions
    BY <1>3 DEF Step
  <2>2. "partial" \in Outs /\ calls[c].pc # "idle"
    BY <1>2 DEF Outs
  <2> QED BY <1>2, <2>1, <2>2, AnswerKeeps
<1>4. CASE Finds(d, step) /\ Applies(d, step, t)
  <2>1. x.req \in Requests /\ h \in DOMAIN sessions /\ a \in DOMAIN sessions /\ x.req.batch
        /\ (Tracked => sessions[h].next # 0) /\ x.done < Len(x.req.steps)
    BY <1>1, <1>2 DEF Placed
  <2>2. Len(x.req.steps) \in Nat /\ x.done \in Nat
    BY <1>1, <2>1, RequestIs DEF IsCall, CallsWith
  <2>3. step \in StepRecords
    BY <2>1, <2>2, RequestIs
  <2>4. d \in Documents(All)
    <3>1. sessions[a] \in Sessions
      BY <2>1, LenProperties, ElementOfSeq DEF Shape
    <3> QED BY <3>1 DEF Sessions
  <2>5. Found(d, step) \in Nat \X Nat /\ RangeFits(step, Found(d, step))
    <3> HIDE DEF d, step
    <3> QED BY <1>4, <2>3, <2>4, FoundInside
  <2>6. step.op = "replace" => t.s \in Nat /\ t.e \in Nat /\ t.new \in Seq(Tokens)
    <3> HIDE DEF d, step
    <3> QED BY <2>3, <2>5, TrimmedInside
  <2>7. sessions' = [sessions EXCEPT ![h].next = r.next, ![a].doc = r.doc, ![a].crossed = @ \/ a # h]
    BY <1>4 DEF Step
  <2>8. calls' = Noted([calls EXCEPT ![c] = y], c, a, Touched(d, step))
    <3>1. CASE last
      <4>1. [Answer(c, "ok") EXCEPT ![c].done = @ + 1] = [calls EXCEPT ![c] = y]
        BY <1>1, <3>1 DEF Answer
      <4>2. calls' = Noted([Answer(c, "ok") EXCEPT ![c].done = @ + 1], c, a, Touched(d, step))
        BY <1>4, <3>1 DEF Step
      <4> QED BY <4>1, <4>2
    <3>2. CASE ~last
      <4>1. [[calls EXCEPT ![c].pc = "steps"] EXCEPT ![c].done = @ + 1] = [calls EXCEPT ![c] = y]
        BY <1>1, <3>2
      <4>2. calls' = Noted([[calls EXCEPT ![c].pc = "steps"] EXCEPT ![c].done = @ + 1],
                           c, a, Touched(d, step))
        BY <1>4, <3>2 DEF Step
      <4> QED BY <4>1, <4>2
    <3> QED BY <3>1, <3>2
  <2>9. Onward /\ Len(sessions') = Len(sessions)
    <3>1. Applies(sessions[a].doc, step, t) /\ r = Applied(sessions[a].doc, sessions[h].next, step, t)
      BY <1>4
    <3> HIDE DEF h, a, step, t, r
    <3> QED BY <2>1, <2>3, <2>6, <2>7, <3>1, StepSessions
  <2>10. /\ y \in CallsWith(x.moved, x.goal) /\ y.moved = x.moved /\ y.goal = x.goal
         /\ y.pc = (IF last THEN "idle" ELSE "steps") /\ y.req = x.req /\ y.done = x.done + 1
         /\ y.home = h
    <3>1. CASE last
      BY <1>1, <2>2, <3>1 DEF IsCall, CallsWith, PCs, Outs
    <3>2. CASE ~last
      <4>0. PICK n \in Nat : n = x.done + 1
        BY <2>2
      <4>1. y = [x EXCEPT !.pc = "steps", !.done = n]
        BY <3>2, <4>0
      <4>2. y \in CallsWith(x.moved, x.goal)
        <5> HIDE DEF x, y
        <5> QED BY <1>1, <4>1 DEF IsCall, CallsWith, PCs
      <4>3. y.pc = "steps" /\ y.req = x.req /\ y.done = n /\ y.home = x.home
            /\ y.moved = x.moved /\ y.goal = x.goal
        <5> HIDE DEF x, y
        <5> QED BY <1>1, <4>1 DEF IsCall, CallsWith
      <4> QED BY <3>2, <4>0, <4>2, <4>3
    <3> QED BY <3>1, <3>2
  <2> HIDE DEF y
  <2>11. Moves(c) /\ calls'[c] = y
    BY <2>8, NotedMoves
  <2>12. IsCall(y) /\ SeedIsAhead(y, sessions')
    BY <2>10 DEF IsCall, SeedIsAhead
  <2>13. h \in DOMAIN sessions' /\ (Tracked => sessions'[h].next # 0)
    BY <2>1, <2>9 DEF Onward, Follows
  <2>14. Placed(y, sessions')
    <3>1. CASE last
      BY <2>1, <2>2, <2>10, <3>1 DEF Placed
    <3>2. CASE ~last
      BY <2>1, <2>2, <2>10, <2>13, <3>2 DEF Placed
    <3> QED BY <3>1, <3>2
  <2>15. /\ current' \in 0..Len(sessions') /\ left' \in 0..MaxCalls /\ closes' \in 0..MaxCloses
         /\ missed' \in Nat
    BY <1>2, <2>9 DEF Shape
  <2>16. missed' + left' + Busy(calls'[c]) <= missed + left + Busy(calls[c])
    <3>1. Busy(calls'[c]) \in {0, 1} /\ Busy(calls[c]) = 1
      BY <1>2 DEF Busy
    <3>2. missed' = missed /\ left' = left /\ missed \in Nat /\ left \in Nat
      BY <1>2, EditToolsAssumption DEF Shape
    <3> QED BY <3>1, <3>2
  <2> QED BY <2>9, <2>11, <2>12, <2>14, <2>15, <2>16, StepKeeps
<1> QED BY <1>3, <1>4

(* The file is closed. *)
LEMMA CloseFileKeeps ==
  ASSUME Shape, Counting, CloseFile
  PROVE  Shape' /\ Counting'
<1>1. Onward /\ UNCHANGED <<sessions, left, missed>>
  BY SameSessions DEF CloseFile
<1>2. DOMAIN calls' = Callers
  BY DEF CloseFile
<1>3. ASSUME NEW x \in Callers PROVE Moved(calls[x], calls'[x])
  <2>1. IsCall(calls[x])
    BY DEF Shape
  <2>2. CASE calls[x].home = current
    <3>1. calls'[x] = [calls[x] EXCEPT !.moved = @ \cup {0}]
      BY <2>2 DEF CloseFile
    <3> QED BY <3>1 DEF Moved
  <2>3. CASE calls[x].home # current
    <3>1. calls'[x] = calls[x]
      BY <2>3 DEF CloseFile
    <3> QED BY <2>1, <3>1, MovedNot
  <2> QED BY <2>2, <2>3
<1>4. \A x \in Callers :
        /\ IsCall(calls'[x]) /\ Placed(calls'[x], sessions') /\ SeedIsAhead(calls'[x], sessions')
        /\ calls'[x].pc = calls[x].pc
  BY <1>1, <1>3, CallStays
<1>5. Running' = Running
  BY <1>4 DEF Running
<1>6. current' \in 0..Len(sessions') /\ closes' \in 0..MaxCloses
  BY <1>1, LenProperties, EditToolsAssumption DEF CloseFile, Shape
<1>7. missed' + left' + Cardinality(Running') <= MaxCalls
  BY <1>1, <1>5 DEF Shape
<1>8. Shape'
  BY <1>1, <1>2, <1>4, <1>6, <1>7, SessionsStayAhead DEF Shape, Onward
<1>9. Counting'
  BY <1>1, <1>4, SessionsStayAhead DEF Counting
<1> QED BY <1>8, <1>9

(* Nothing is open and nothing runs at first. *)
LEMMA InitKeeps ==
  ASSUME Init
  PROVE  Shape /\ Counting
<1>1. sessions = <<>> /\ current = 0 /\ left = MaxCalls /\ closes = 0 /\ missed = 0
      /\ calls = [c \in Callers |-> Idle]
  BY DEF Init
<1>2. \A c \in Callers : calls[c] = Idle
  BY <1>1
<1>3. IsCall(Idle) /\ Placed(Idle, sessions) /\ SeedIsAhead(Idle, sessions)
  BY EmptySeq DEF IsCall, CallsWith, Idle, PCs, Outs, Placed, SeedIsAhead
<1>4. sessions \in Seq(Sessions) /\ Len(sessions) = 0 /\ DOMAIN sessions = {}
  BY <1>1, EmptySeq
<1>5. Running = {}
  BY <1>2 DEF Running, Idle
<1>6. Cardinality(Running) = 0
  BY <1>5, FS_EmptySet
<1>7. Shape
  BY <1>1, <1>2, <1>3, <1>4, <1>6, EditToolsAssumption DEF Shape
<1>8. Counting
  BY <1>2, <1>3, <1>4 DEF Counting
<1> QED BY <1>7, <1>8

(* Every step keeps both. *)
LEMMA NextKeeps ==
  ASSUME Shape, Counting, [Next]_vars
  PROVE  Shape' /\ Counting'
<1>1. CASE UNCHANGED vars
  BY <1>1 DEF vars, Shape, Counting, Running
<1>2. ASSUME NEW c \in Callers, NEW r \in Requests, Begin(c, r) PROVE Shape' /\ Counting'
  BY <1>2, BeginKeeps
<1>3. ASSUME NEW c \in Callers, GetSession(c) PROVE Shape' /\ Counting'
  BY <1>3, GetSessionKeeps
<1>4. ASSUME NEW c \in Callers, HaveContext(c) PROVE Shape' /\ Counting'
  BY <1>4, HaveContextKeeps
<1>5. ASSUME NEW c \in Callers, StartScan(c) PROVE Shape' /\ Counting'
  BY <1>5, StartScanKeeps
<1>6. ASSUME NEW c \in Callers, EndScan(c) PROVE Shape' /\ Counting'
  BY <1>6, EndScanKeeps
<1>7. ASSUME NEW c \in Callers, Match(c) PROVE Shape' /\ Counting'
  BY <1>7, MatchKeeps
<1>8. ASSUME NEW c \in Callers, Validate(c) PROVE Shape' /\ Counting'
  BY <1>8, ValidateKeeps
<1>9. ASSUME NEW c \in Callers, Preview(c) PROVE Shape' /\ Counting'
  BY <1>9, PreviewKeeps
<1>10. ASSUME NEW c \in Callers, Mutate(c) PROVE Shape' /\ Counting'
  BY <1>10, MutateKeeps
<1>11. ASSUME NEW c \in Callers, StepSession(c) PROVE Shape' /\ Counting'
  BY <1>11, StepSessionKeeps
<1>12. ASSUME NEW c \in Callers, Step(c) PROVE Shape' /\ Counting'
  BY <1>12, StepActionKeeps
<1>13. CASE CloseFile
  BY <1>13, CloseFileKeeps
<1> QED
  BY <1>1, <1>2, <1>3, <1>4, <1>5, <1>6, <1>7, <1>8, <1>9, <1>10, <1>11, <1>12, <1>13 DEF Next

(* What the shape of the state says of its types. *)
LEMMA ShapeIsTyped ==
  ASSUME Shape
  PROVE  TypeOK
<1>1. ASSUME NEW c \in Callers
      PROVE  /\ calls[c].pc \notin {"idle", "resolve"} => calls[c].home \in DOMAIN sessions
             /\ calls[c].pc \in {"preview", "mutate", "steps", "step"} /\ Tracked
                  => sessions[calls[c].home].next # 0
             /\ calls[c].done \in 0..Len(calls[c].req.steps)
  <2>1. IsCall(calls[c]) /\ Placed(calls[c], sessions)
    BY DEF Shape
  <2>2. calls[c].pc \notin {"idle", "resolve"} => calls[c].home \in DOMAIN sessions
    BY <2>1 DEF Placed
  <2>3. calls[c].pc \in {"preview", "mutate", "steps", "step"} /\ Tracked
          => sessions[calls[c].home].next # 0
    BY <2>1, Zenon DEF Placed
  <2>4. calls[c].done \in Nat /\ calls[c].done <= Len(calls[c].req.steps)
    BY <2>1 DEF IsCall, CallsWith, Placed
  <2>5. Len(calls[c].req.steps) \in Nat
    <3>1. calls[c].req \in Requests \cup {Idle.req}
      BY <2>1 DEF IsCall, CallsWith
    <3>2. Idle.req.steps = <<>> /\ Len(<<>>) = 0
      BY EmptySeq DEF Idle
    <3> QED BY <3>1, <3>2, RequestIs
  <2>6. calls[c].done \in 0..Len(calls[c].req.steps)
    BY <2>4, <2>5
  <2> QED BY <2>2, <2>3, <2>6
<1>2. IsFiniteSet(Running)
  BY EditToolsAssumption, FS_Subset DEF Running
<1>3. Cardinality(Running) \in Nat
  BY <1>2, FS_CardinalityType
<1>4. missed \in 0..MaxCalls
  BY <1>3, EditToolsAssumption DEF Shape
<1> QED BY <1>1, <1>4 DEF TypeOK, Shape

(* Sessions that are ahead have counters above the ids of their documents. *)
LEMMA AheadIsAhead ==
  ASSUME Shape, Counting
  PROVE  CounterIsAhead
<1> SUFFICES ASSUME NEW s \in DOMAIN sessions, ~sessions[s].crossed,
                    NEW r \in Revisions(sessions[s].doc),
                    r \notin Revisions(File) \/ sessions[s].next # 0
             PROVE  r.id < sessions[s].next
  BY DEF CounterIsAhead
<1> DEFINE d == sessions[s].doc
           n == sessions[s].next
<1>1. Ahead(sessions[s])
  BY DEF Counting
<1>2. CASE n = 0
  <2>1. d \in Documents(OfFile)
    BY <1>1, <1>2 DEF Ahead
  <2>2. r \in OfFile /\ r.kind # "link"
    <3> HIDE DEF d
    <3> QED BY <2>1, RevisionsAreIn DEF d
  <2> QED BY <1>2, <2>2 DEF OfFile
<1>3. CASE n # 0
  <2>1. d \in Documents(Below(n))
    BY <1>1, <1>3 DEF Ahead
  <2>2. r \in Below(n) /\ r.kind # "link"
    <3> HIDE DEF d
    <3> QED BY <2>1, RevisionsAreIn DEF d
  <2> QED BY <2>2 DEF Below
<1> QED BY <1>2, <1>3

(* At every moment the two invariants hold together. *)
LEMMA SpecKeeps == Spec => [](Shape /\ Counting)
<1>1. Init => Shape /\ Counting
  BY InitKeeps
<1>2. (Shape /\ Counting) /\ [Next]_vars => (Shape /\ Counting)'
  BY NextKeeps
<1> QED BY <1>1, <1>2, PTL DEF Spec

(* A running call has its session, a tracked one has a counter to count    *)
(* with, and no batch does more steps than it has.                         *)
THEOREM TypeCorrect == Spec => []TypeOK
<1>1. Shape /\ Counting => TypeOK
  BY ShapeIsTyped
<1> QED BY <1>1, SpecKeeps, PTL

(* However the first scans, standalone edits and batches overlap, and      *)
(* whatever is closed and opened again, the counter of a session stays     *)
(* ahead of every revision id in its document (getRevisionContextFor-      *)
(* Session), unless a batch of another session wrote there.                *)
THEOREM CounterIsAheadHolds == Spec => []CounterIsAhead
<1>1. Shape /\ Counting => CounterIsAhead
  BY AheadIsAhead
<1> QED BY <1>1, SpecKeeps, PTL

-------------------------------------------------------------------------------
(***************************************************************************)
(* The tools implement edits that happen at once                           *)
(***************************************************************************)

Views == [id : Nat, text : Seq(Tokens)]

(* What a document shows: its paragraphs with their ids and visible text. *)
LEMMA ViewIs ==
  ASSUME NEW E, NEW d \in Documents(E)
  PROVE  /\ View(d) \in Seq(Views) /\ Len(View(d)) = Len(d)
         /\ DOMAIN View(d) = DOMAIN d /\ DOMAIN d = 1..Len(d) /\ Len(d) \in Nat
         /\ \A j \in DOMAIN d : /\ View(d)[j] = [id |-> d[j].id, text |-> TextOf(d[j])]
                                /\ View(d)[j].id = d[j].id /\ View(d)[j].text = TextOf(d[j])
                                /\ d[j].id \in Nat /\ TextOf(d[j]) \in Seq(Tokens)
<1>1. PICK n \in Nat : n = Len(d) /\ DOMAIN d = 1..n
  BY LenProperties DEF Documents
<1>2. ASSUME NEW j \in 1..n
      PROVE  /\ View(d)[j] = [id |-> d[j].id, text |-> TextOf(d[j])]
             /\ d[j].id \in Nat /\ TextOf(d[j]) \in Seq(Tokens)
  <2>1. d[j] \in ParagraphsIn(E)
    BY <1>1, ParagraphOf
  <2>2. PICK p : p = d[j] /\ p.id \in Nat /\ p.body \in Bodies(E)
    BY <2>1 DEF ParagraphsIn
  <2>3. TextOf(p) \in Seq(Tokens)
    BY <2>2, TextOfBody
  <2> QED BY <1>1, <2>2, <2>3 DEF View
<1>3. View(d) \in [1..n -> Views]
  <2>1. View(d) = [j \in 1..n |-> View(d)[j]]
    BY <1>1 DEF View
  <2>2. ASSUME NEW j \in 1..n PROVE View(d)[j] \in Views
    <3>1. PICK id \in Nat, text \in Seq(Tokens) : id = d[j].id /\ text = TextOf(d[j])
      BY <1>2
    <3>2. View(d)[j] = [id |-> id, text |-> text]
      BY <1>2, <3>1
    <3> QED BY <3>2 DEF Views
  <2> QED BY <2>1, <2>2
<1>4. View(d) \in Seq(Views) /\ Len(View(d)) = n
  BY <1>1, <1>3, FunctionIsSeq
<1>5. DOMAIN View(d) = 1..n
  BY <1>3
<1> QED BY <1>1, <1>2, <1>4, <1>5

(* The range of text that is found once.                                   *)
Covers(range, text, old) ==
  /\ range \in Nat \X Nat /\ range[2] = range[1] + Len(old) /\ range[2] <= Len(text)
  /\ SubSeq(text, range[1] + 1, range[2]) = old

(* Text that occurs once is found where it occurs. *)
LEMMA FoundOnce ==
  ASSUME NEW E, NEW d \in Documents(E), NEW step \in StepRecords, step.op = "replace", Finds(d, step),
         NEW text, text = TextOf(Paragraph(d, step.pid)), NEW range, range = Found(d, step)
  PROVE  /\ Covers(range, text, step.old)
         /\ Atomic!Occurrences(text, step.old) = {range[1]}
<1> DEFINE old == step.old
           M == Matches(text, old)
<1>1. Cardinality(M) = 1
  BY DEF Finds
<1>2. PICK o \in Nat : o = Len(old)
  BY StepIs, LenProperties
<1>3. PICK n \in Nat : n = Len(text)
  <2>1. Paragraph(d, step.pid) \in ParagraphsIn(E)
    BY IndexIsThere, ParagraphOf DEF Finds, Paragraph
  <2> QED BY <2>1, TextIsASequence
<1>4. M = {s \in 0..(n - o) : old # <<>> /\ SubSeq(text, s + 1, s + o) = old}
  BY <1>2, <1>3 DEF Matches
<1>5. IsFiniteSet(M)
  <2>1. IsFiniteSet(0..(n - o))
    BY FS_Interval
  <2>2. M \subseteq 0..(n - o)
    BY <1>4
  <2> HIDE DEF M
  <2> QED BY <2>1, <2>2, FS_Subset
<1> HIDE DEF M, old
<1>6. PICK at : M = {at}
  BY <1>1, <1>5, FS_Singleton
<1>7. at \in 0..(n - o) /\ old # <<>> /\ SubSeq(text, at + 1, at + o) = old
  BY <1>4, <1>6
<1>8. range = <<at, at + o>>
  <2>1. (CHOOSE s \in M : TRUE) = at
    BY <1>6
  <2>2. range = LET s == CHOOSE s \in M : TRUE IN <<s, s + Len(old)>>
    BY DEF Found, M, old
  <2> QED BY <1>2, <2>1, <2>2
<1>9. Atomic!Occurrences(text, old) = {s \in 0..(n - o) : SubSeq(text, s + 1, s + o) = old}
  BY <1>2, <1>3 DEF Atomic!Occurrences
<1>10. Atomic!Occurrences(text, old) = M
  BY <1>4, <1>7, <1>9
<1>11. at \in Nat /\ at + o \in Nat /\ at + o <= n
  BY <1>7
<1>12. range[1] = at /\ range[2] = at + o /\ range \in Nat \X Nat
  BY <1>8, <1>11
<1> QED BY <1>2, <1>3, <1>6, <1>7, <1>10, <1>11, <1>12 DEF Covers, old

(* Leaving out what old and new text share does not change the outcome.    *)
LEMMA TrimmedPut ==
  ASSUME NEW text \in Seq(Tokens), NEW step \in StepRecords, step.op = "replace",
         NEW range, Covers(range, text, step.old)
  PROVE  LET t == Trimmed(step, range)
         IN /\ t.s \in Nat /\ t.e \in Nat /\ t.s <= t.e /\ t.e <= Len(text) /\ t.new \in Seq(Tokens)
            /\ PutInto(text, t.s, t.e, t.new) = PutInto(text, range[1], range[2], step.new)
<1>1. range \in Nat \X Nat /\ RangeFits(step, range)
  BY DEF Covers, RangeFits
<1>2. PICK pre, post, t : /\ pre \in Nat /\ post \in Nat /\ t = Trimmed(step, range)
                          /\ LeavesOut(t, step, range, pre, post)
  BY <1>1, TrimmedParts
<1>3. PICK k \in Nat, l \in Nat : k = pre /\ l = post
  BY <1>2
<1>4. PICK old \in Seq(Tokens), new \in Seq(Tokens) : old = step.old /\ new = step.new
  BY StepIs
<1>5. PICK n \in Nat, o \in Nat, m \in Nat : n = Len(text) /\ o = Len(old) /\ m = Len(new)
  BY LenProperties
<1>6. PICK a \in Nat, b \in Nat : a = range[1] /\ b = range[2]
  BY <1>1
<1>7. b = a + o /\ b <= n /\ SubSeq(text, a + 1, b) = old
  BY <1>4, <1>5, <1>6 DEF Covers
<1>8. /\ k + l <= o /\ k + l <= m
      /\ \A i \in 1..k : old[i] = new[i]
      /\ \A i \in 1..l : old[o - l + i] = new[m - l + i]
      /\ \A i \in 1..(m - k - l) : t.new[i] = new[k + i]
      /\ t.s = a + k /\ t.e = b - l /\ t.new \in Seq(Tokens) /\ Len(t.new) = m - k - l
  BY <1>2, <1>3, <1>4, <1>5, <1>6 DEF LeavesOut
<1>9. PICK s \in Nat, e \in Nat : s = a + k /\ e = b - l
  <2>1. a + k \in Nat /\ b - l \in Nat
    BY <1>7, <1>8
  <2> QED BY <2>1
<1>10. t.s = s /\ t.e = e /\ s <= e /\ e <= n /\ a <= b
  BY <1>7, <1>8, <1>9
<1>11. \A i \in 1..o : text[a + i] = old[i]
  <2> SUFFICES ASSUME NEW i \in 1..o PROVE text[a + i] = old[i]
    OBVIOUS
  <2>1. PICK from \in Nat \ {0} : from = a + 1 /\ from <= b + 1 /\ i \in 1..(b - from + 1)
    <3>1. a + 1 \in Nat \ {0} /\ a + 1 <= b + 1 /\ i \in 1..(b - (a + 1) + 1)
      BY <1>7
    <3> QED BY <3>1
  <2>2. SubSeq(text, from, b)[i] = text[from + i - 1]
    BY <1>5, <1>7, <2>1, SubSeqAt
  <2>3. from + i - 1 = a + i
    BY <2>1
  <2> QED BY <1>7, <2>1, <2>2, <2>3
<1>12. PICK z : z = PutInto(text, a, b, new) /\ z \in Seq(Tokens) /\ IsPut(z, text, a, b, new)
  BY <1>5, <1>7, <1>10, Joined
<1>13. /\ Len(z) = n - (b - a) + m
       /\ \A i \in 1..a : z[i] = text[i]
       /\ \A i \in (a + 1)..(a + m) : z[i] = new[i - a]
       /\ \A i \in (a + m + 1)..(n - (b - a) + m) : z[i] = text[i - m + (b - a)]
  BY <1>5, <1>12 DEF IsPut
<1>14. PICK x \in Seq(Tokens), r \in Nat : x = t.new /\ r = Len(x) /\ r = m - k - l
  BY <1>8, LenProperties
<1>15. Len(z) = n - (e - s) + r
  BY <1>7, <1>8, <1>9, <1>13, <1>14
<1>16. ASSUME NEW i \in 1..s PROVE z[i] = text[i]
  <2>1. CASE i <= a
    BY <1>13, <2>1
  <2>2. CASE ~(i <= a)
    <3>1. PICK h \in 1..k : h = i - a /\ a + h = i
      BY <1>9, <2>2
    <3>2. i \in (a + 1)..(a + m) /\ h \in 1..o
      BY <1>8, <3>1
    <3>3. z[i] = new[h]
      BY <1>13, <3>1, <3>2
    <3>4. new[h] = old[h] /\ old[h] = text[a + h]
      BY <1>8, <1>11, <3>1, <3>2
    <3> QED BY <3>1, <3>3, <3>4
  <2> QED BY <2>1, <2>2
<1>17. ASSUME NEW i \in (s + 1)..(s + r) PROVE z[i] = x[i - s]
  <2>1. PICK h \in 1..r : h = i - s
    OBVIOUS
  <2>2. i \in (a + 1)..(a + m) /\ i - a = k + h
    <3>1. i \in Int /\ i = s + h /\ h <= r /\ 1 <= h
      BY <2>1
    <3>2. k + l <= m /\ r = m - k - l /\ s = a + k
      BY <1>8, <1>9, <1>14
    <3>3. k + h <= m /\ 1 <= k + h /\ i = a + (k + h)
      BY <3>1, <3>2
    <3> QED BY <3>1, <3>3
  <2>3. z[i] = new[k + h]
    BY <1>13, <2>2
  <2>4. x[h] = new[k + h]
    BY <1>8, <1>14, <2>1
  <2> QED BY <2>1, <2>3, <2>4
<1>18. ASSUME NEW i \in (s + r + 1)..(n - (e - s) + r) PROVE z[i] = text[i - r + (e - s)]
  <2>0. i \in Int /\ s + r + 1 <= i /\ i <= n - (e - s) + r
    BY <1>9
  <2>1. CASE i <= a + m
    <3>1. PICK h \in 1..l : h = i - (a + m - l)
      <4>1. i - (a + m - l) \in 1..l
        BY <1>8, <1>9, <1>14, <2>0, <2>1
      <4> QED BY <4>1
    <3>2. i \in (a + 1)..(a + m) /\ i - a = m - l + h
      BY <1>8, <1>9, <1>14, <2>0, <2>1, <3>1
    <3>3. z[i] = new[m - l + h]
      BY <1>13, <3>2
    <3>4. PICK g \in 1..o : g = o - l + h
      <4>1. o - l + h \in 1..o
        BY <1>8, <3>1
      <4> QED BY <4>1
    <3>5. new[m - l + h] = old[g] /\ old[g] = text[a + g]
      BY <1>8, <1>11, <3>1, <3>4
    <3>6. a + g = i - r + (e - s)
      BY <1>7, <1>8, <1>9, <1>14, <2>0, <3>1, <3>4
    <3> QED BY <3>3, <3>5, <3>6
  <2>2. CASE ~(i <= a + m)
    <3>1. i \in (a + m + 1)..(n - (b - a) + m)
      BY <1>7, <1>8, <1>9, <1>14, <2>0, <2>2
    <3>2. i - m + (b - a) = i - r + (e - s)
      BY <1>7, <1>8, <1>9, <1>14, <2>0
    <3> QED BY <1>13, <3>1, <3>2
  <2> QED BY <2>1, <2>2
<1>19. IsPut(z, text, s, e, x)
  BY <1>5, <1>14, <1>15, <1>16, <1>17, <1>18 DEF IsPut
<1>20. PutInto(text, s, e, x) = z
  <2>1. PutInto(text, s, e, x) \in Seq(Tokens) /\ IsPut(PutInto(text, s, e, x), text, s, e, x)
    BY <1>5, <1>10, Joined
  <2> QED BY <1>5, <1>10, <1>12, <1>19, <2>1, PutIsUnique
<1> QED BY <1>2, <1>4, <1>5, <1>6, <1>8, <1>9, <1>10, <1>12, <1>14, <1>20

(* The place of an id is that of a paragraph with it. *)
LEMMA PlaceOf ==
  ASSUME NEW d, NEW pid, HasParagraph(d, pid)
  PROVE  IndexOf(d, pid) \in DOMAIN d /\ d[IndexOf(d, pid)].id = pid
BY DEF HasParagraph, IndexOf

(* A paragraph changes, and keeps its id.                                  *)
Retold(view, j, text) == [view EXCEPT ![j].text = text]

(* What is shown changes at that paragraph only. *)
LEMMA ViewOfReplaced ==
  ASSUME NEW d, NEW j \in DOMAIN d, NEW q, q.id = d[j].id, NEW text, text = TextOf(q)
  PROVE  View([d EXCEPT ![j] = q]) = Retold(View(d), j, text)
<1> DEFINE e == [d EXCEPT ![j] = q]
           v == View(d)
           w == [v EXCEPT ![j].text = text]
<1>1. DOMAIN e = DOMAIN d /\ DOMAIN View(e) = DOMAIN d /\ DOMAIN v = DOMAIN d /\ DOMAIN w = DOMAIN d
  BY DEF View
<1>2. ASSUME NEW i \in DOMAIN d PROVE View(e)[i] = w[i]
  <2>1. CASE i = j
    <3>1. View(e)[i] = [id |-> q.id, text |-> text]
      BY <2>1 DEF View
    <3>2. v[j] = [id |-> d[j].id, text |-> TextOf(d[j])]
      BY DEF View
    <3>3. w[i] = [v[j] EXCEPT !.text = text]
      BY <1>1, <2>1
    <3> HIDE DEF v
    <3>4. w[i] = [id |-> d[j].id, text |-> text]
      BY <3>2, <3>3
    <3> QED BY <3>1, <3>4
  <2>2. CASE i # j
    BY <1>1, <2>2 DEF View
  <2> QED BY <2>1, <2>2
<1>3. View(e) = [i \in DOMAIN d |-> View(e)[i]] /\ w = [i \in DOMAIN d |-> w[i]]
  BY <1>1 DEF View
<1> HIDE DEF w, e
<1>4. View(e) = w
  BY <1>2, <1>3
<1> QED BY <1>4 DEF w, e, Retold

(* The promise counts as the tools do.                                     *)
LEMMA SameCardinality ==
  ASSUME NEW S
  PROVE  Atomic!Cardinality(S) = Cardinality(S)
BY Zenon DEF Atomic!Cardinality, Cardinality

(* A replacement where its text is found is the atomic one.                *)
LEMMA ReplaceIsAtomic ==
  ASSUME Tracked, NEW E, NEW d \in Documents(E), NEW next \in Nat, NEW step \in StepRecords,
         step.op = "replace", Finds(d, step), NEW t, t = Trimmed(step, Found(d, step)),
         Applies(d, step, t)
  PROVE  View(Applied(d, next, step, t).doc) \in Atomic!Outcomes(View(d), step)
<1>1. PICK j \in DOMAIN d : j = IndexOf(d, step.pid) /\ d[j].id = step.pid
  BY PlaceOf DEF Finds
<1>2. PICK p \in ParagraphsIn(E) : p = d[j] /\ p = Paragraph(d, step.pid)
  BY <1>1, ParagraphOf DEF Paragraph
<1>3. PICK text \in Seq(Tokens) : text = TextOf(p)
  BY <1>1, <1>2, ViewIs
<1>4. PICK range : /\ range = Found(d, step) /\ Covers(range, text, step.old)
                   /\ Atomic!Occurrences(text, step.old) = {range[1]}
  BY <1>2, <1>3, FoundOnce
<1>5. /\ t.s \in Nat /\ t.e \in Nat /\ t.s <= t.e /\ t.e <= Len(text) /\ t.new \in Seq(Tokens)
      /\ PutInto(text, t.s, t.e, t.new) = PutInto(text, range[1], range[2], step.new)
  BY <1>4, TrimmedPut
<1>6. ~Refused(p, t.s, t.e)
  BY <1>2 DEF Applies
<1>7. PICK q : /\ q = TrackedReplace(p, t.s, t.e, t.new, AI, next).p /\ q.id = p.id
               /\ TextOf(q) = PutInto(text, t.s, t.e, t.new)
  BY <1>3, <1>5, <1>6, TrackedReplaceShows
<1>8. Applied(d, next, step, t).doc = [d EXCEPT ![j] = q]
  BY <1>1, <1>2, <1>7 DEF Applied
<1>9. PICK z : z = PutInto(text, range[1], range[2], step.new) /\ TextOf(q) = z
  BY <1>5, <1>7
<1>10. View(Applied(d, next, step, t).doc) = Retold(View(d), j, z)
  <2>1. q.id = d[j].id /\ z = TextOf(q)
    BY <1>2, <1>7, <1>9
  <2>2. View([d EXCEPT ![j] = q]) = Retold(View(d), j, z)
    BY <2>1, ViewOfReplaced
  <2> QED BY <1>8, <2>2
<1>11. PICK v : v = View(d) /\ j \in DOMAIN v /\ v[j].id = step.pid /\ v[j].text = text
  <2>1. PICK v : v = View(d)
    OBVIOUS
  <2>2. j \in DOMAIN v /\ v[j].id = d[j].id /\ v[j].text = TextOf(d[j])
    BY <2>1, ViewIs
  <2> QED BY <1>1, <1>2, <1>3, <2>1, <2>2
<1> DEFINE at(k) == CHOOSE s \in Atomic!Occurrences(v[k].text, step.old) : TRUE
           put(k) == SubSeq(v[k].text, 1, at(k)) \o step.new
                     \o SubSeq(v[k].text, at(k) + Len(step.old) + 1, Len(v[k].text))
<1>12. at(j) = range[1]
  BY <1>4, <1>11
<1>13. range[1] + Len(step.old) = range[2]
  BY <1>4 DEF Covers
<1>14. put(j) = z
  BY <1>9, <1>11, <1>12, <1>13 DEF PutInto
<1>15. Atomic!Cardinality(Atomic!Occurrences(v[j].text, step.old)) = 1
  BY <1>4, <1>11, SameCardinality, FS_Singleton
<1>16. j \in {k \in Atomic!Positions(v, step.pid) :
                Atomic!Cardinality(Atomic!Occurrences(v[k].text, step.old)) = 1}
  BY <1>11, <1>15 DEF Atomic!Positions
<1>17. Atomic!Replaced(v, step) =
         {Retold(v, k, put(k)) :
            k \in {k \in Atomic!Positions(v, step.pid) :
                     Atomic!Cardinality(Atomic!Occurrences(v[k].text, step.old)) = 1}}
  BY Zenon DEF Atomic!Replaced, Retold
<1> HIDE DEF put
<1>18. Retold(v, j, put(j)) \in Atomic!Replaced(v, step)
  BY <1>16, <1>17
<1> QED BY <1>10, <1>11, <1>14, <1>18 DEF Atomic!Outcomes

(* A sequence with one element more.                                       *)
IsInsert(z, a, k, x) ==
  /\ Len(z) = Len(a) + 1 /\ z[k + 1] = x
  /\ \A i \in 1..k : z[i] = a[i]
  /\ \A i \in (k + 2)..(Len(a) + 1) : z[i] = a[i - 1]

(* InsertAt adds one element at its place. *)
LEMMA InsertAtInserts ==
  ASSUME NEW T, NEW a \in Seq(T), NEW k \in Nat, k <= Len(a), NEW x \in T
  PROVE  /\ InsertAt(a, k + 1, x) \in Seq(T) /\ IsInsert(InsertAt(a, k + 1, x), a, k, x)
         /\ Atomic!InsertAt(a, k + 1, x) = InsertAt(a, k + 1, x)
<1>1. PICK n \in Nat : n = Len(a) /\ k <= n
  BY LenProperties
<1>2. PICK q : q = <<x>>
  OBVIOUS
<1>2a. q \in Seq(T) /\ Len(q) = 1 /\ q[1] = x
  BY <1>2
<1>3. PICK z : z = PutInto(a, k, k, q)
  OBVIOUS
<1>3a. z \in Seq(T) /\ IsPut(z, a, k, k, q)
  <2>1. k <= k /\ k <= Len(a)
    OBVIOUS
  <2> QED BY <1>2a, <1>3, <2>1, Joined
<1>4. (k + 1) - 1 = k
  OBVIOUS
<1>5. InsertAt(a, k + 1, x) = z
  <2>1. InsertAt(a, k + 1, x) = SubSeq(a, 1, (k + 1) - 1) \o q \o SubSeq(a, k + 1, Len(a))
    BY <1>2 DEF InsertAt
  <2>2. z = SubSeq(a, 1, k) \o q \o SubSeq(a, k + 1, Len(a))
    BY <1>3 DEF PutInto
  <2> QED BY <1>4, <2>1, <2>2
<1>6. /\ Len(z) = n - (k - k) + 1
      /\ \A i \in 1..k : z[i] = a[i]
      /\ \A i \in (k + 1)..(k + 1) : z[i] = q[i - k]
      /\ \A i \in (k + 1 + 1)..(n - (k - k) + 1) : z[i] = a[i - 1 + (k - k)]
  BY <1>1, <1>2a, <1>3a DEF IsPut
<1>7. Len(z) = n + 1
  BY <1>1, <1>6
<1>8. z[k + 1] = x
  <2>1. k + 1 \in (k + 1)..(k + 1) /\ (k + 1) - k = 1
    OBVIOUS
  <2> QED BY <1>2a, <1>6, <2>1
<1>9. ASSUME NEW i \in (k + 2)..(n + 1) PROVE z[i] = a[i - 1]
  <2>1. i \in (k + 1 + 1)..(n - (k - k) + 1) /\ i - 1 + (k - k) = i - 1
    BY <1>1
  <2> QED BY <1>6, <2>1
<1>10. Atomic!InsertAt(a, k + 1, x) = InsertAt(a, k + 1, x)
  BY DEF Atomic!InsertAt, InsertAt
<1> QED BY <1>1, <1>3a, <1>5, <1>6, <1>7, <1>8, <1>9, <1>10 DEF IsInsert

(* A paragraph is added.                                                   *)
LEMMA ViewOfInserted ==
  ASSUME NEW E, NEW d \in Documents(E), NEW k \in Nat, k <= Len(d), NEW p \in ParagraphsIn(E),
         NEW v, v = [id |-> p.id, text |-> TextOf(p)]
  PROVE  /\ View(InsertAt(d, k + 1, p)) = Atomic!InsertAt(View(d), k + 1, v)
         /\ InsertAt(d, k + 1, p) \in Documents(E) /\ IsInsert(InsertAt(d, k + 1, p), d, k, p)
<1> DEFINE P == ParagraphsIn(E)
<1>1. d \in Seq(P) /\ p \in P
  BY DEF Documents, ParagraphsIn
<1>2. PICK z : z = InsertAt(d, k + 1, p) /\ z \in Seq(P) /\ IsInsert(z, d, k, p)
  <2> HIDE DEF P
  <2> QED BY <1>1, InsertAtInserts
<1>3. z \in Documents(E)
  BY <1>2 DEF Documents, ParagraphsIn
<1>4. PICK n \in Nat : n = Len(d) /\ k <= n /\ DOMAIN d = 1..n /\ DOMAIN z = 1..(n + 1)
  <2> HIDE DEF P
  <2>1. PICK n \in Nat : n = Len(d) /\ DOMAIN d = 1..n
    BY <1>1, LenProperties
  <2>2. DOMAIN z = 1..(n + 1)
    BY <1>2, <2>1, LenProperties DEF IsInsert
  <2> QED BY <2>1, <2>2
<1>5. v \in Views
  <2>1. p.id \in Nat /\ TextOf(p) \in Seq(Tokens)
    BY TextOfBody DEF ParagraphsIn
  <2> QED BY <2>1 DEF Views
<1>6. PICK a : a = View(d) /\ a \in Seq(Views) /\ Len(a) = n
               /\ \A j \in 1..n : a[j] = [id |-> d[j].id, text |-> TextOf(d[j])]
  <2>1. PICK a : a = View(d)
    OBVIOUS
  <2>2. a \in Seq(Views) /\ Len(a) = Len(d)
    BY <2>1, ViewIs
  <2>3. \A j \in 1..n : a[j] = [id |-> d[j].id, text |-> TextOf(d[j])]
    BY <1>4, <2>1 DEF View
  <2> QED BY <1>4, <2>1, <2>2, <2>3
<1>7. PICK y : y = InsertAt(a, k + 1, v) /\ y = Atomic!InsertAt(a, k + 1, v) /\ y \in Seq(Views)
               /\ IsInsert(y, a, k, v)
  BY <1>4, <1>5, <1>6, InsertAtInserts
<1>8. DOMAIN y = 1..(n + 1)
  BY <1>4, <1>6, <1>7, LenProperties DEF IsInsert
<1>9. ASSUME NEW i \in 1..(n + 1) PROVE View(z)[i] = y[i]
  <2>0. View(z)[i] = [id |-> z[i].id, text |-> TextOf(z[i])]
    BY <1>4 DEF View
  <2>1. CASE i \in 1..k
    <3>1. z[i] = d[i] /\ y[i] = a[i] /\ i \in 1..n
      BY <1>2, <1>4, <1>7, <2>1 DEF IsInsert
    <3> QED BY <1>6, <2>0, <3>1
  <2>2. CASE i = k + 1
    <3>1. z[i] = p /\ y[i] = v
      BY <1>2, <1>7, <2>2 DEF IsInsert
    <3> QED BY <2>0, <3>1
  <2>3. CASE i \in (k + 2)..(n + 1)
    <3>1. PICK j \in 1..n : j = i - 1
      <4>1. i - 1 \in 1..n
        BY <1>4, <2>3
      <4> QED BY <4>1
    <3>2. z[i] = d[j] /\ y[i] = a[j]
      BY <1>2, <1>4, <1>6, <1>7, <2>3, <3>1 DEF IsInsert
    <3> QED BY <1>6, <2>0, <3>2
  <2>4. i \in 1..k \/ i = k + 1 \/ i \in (k + 2)..(n + 1)
    OBVIOUS
  <2> QED BY <2>1, <2>2, <2>3, <2>4
<1>10. View(z) = y
  <2>1. View(z) = [i \in 1..(n + 1) |-> View(z)[i]]
    BY <1>4 DEF View
  <2>2. y \in [1..(n + 1) -> Views]
    BY <1>7, <1>8, LenProperties
  <2> QED BY <1>9, <2>1, <2>2
<1> QED BY <1>2, <1>3, <1>6, <1>7, <1>10

(* The new paragraph has an id of its own.                                 *)
LEMMA FreshPidIsNew ==
  ASSUME NEW E, NEW d \in Documents(E), DOMAIN d # {}
  PROVE  /\ FreshPid(d) \in Nat /\ \A j \in DOMAIN d : d[j].id # FreshPid(d)
         /\ Atomic!FreshPid(View(d)) = FreshPid(d)
<1> DEFINE pids == {p.id : p \in Range(d)}
           seen == {v.id : v \in Atomic!Range(View(d))}
<1>1. \A j \in DOMAIN d : d[j].id \in Nat /\ DOMAIN d = 1..Len(d) /\ Len(d) \in Nat
  BY ViewIs
<1>2. pids = {d[j].id : j \in DOMAIN d}
  BY DEF Range
<1>3. seen = {d[j].id : j \in DOMAIN d}
  <2>1. DOMAIN View(d) = DOMAIN d /\ \A j \in DOMAIN d : View(d)[j].id = d[j].id
    BY DEF View
  <2>2. seen = {View(d)[j].id : j \in DOMAIN View(d)}
    BY DEF Atomic!Range
  <2> QED BY <2>1, <2>2
<1>4. pids \in SUBSET Nat /\ pids # {}
  BY <1>1, <1>2
<1>5. IsFiniteSet(pids)
  <2> DEFINE f == [j \in DOMAIN d |-> d[j].id]
  <2>1. f \in Surjection(DOMAIN d, pids)
    BY <1>2 DEF Surjection
  <2>2. IsFiniteSet(DOMAIN d)
    BY <1>1, FS_Interval
  <2> HIDE DEF pids, f
  <2> QED BY <2>1, <2>2, FS_Surjection
<1>6. FreshPid(d) = Max(pids) + 1
  BY DEF FreshPid
<1>7. Atomic!FreshPid(View(d)) = Atomic!Max(seen) + 1
  BY DEF Atomic!FreshPid
<1>8. seen = pids
  BY <1>2, <1>3
<1>9. \A j \in DOMAIN d : d[j].id \in pids
  BY <1>2
<1> HIDE DEF pids, seen
<1>10. Atomic!Max(seen) = Max(pids)
  BY <1>8 DEF Atomic!Max, Max
<1>11. PICK m \in pids : \A n \in pids : n <= m
  BY <1>4, <1>5, GreatestNatural
<1>12. Max(pids) \in pids /\ \A n \in pids : Max(pids) >= n
  BY <1>4, <1>11 DEF Max
<1>13. PICK top \in Nat : top = Max(pids) /\ \A n \in pids : n \in Nat /\ n <= top
  BY <1>4, <1>12
<1>14. FreshPid(d) = top + 1 /\ \A n \in pids : n # top + 1
  BY <1>6, <1>13
<1> QED BY <1>6, <1>7, <1>9, <1>10, <1>13, <1>14

(* What an insertion puts where.                                           *)
LEMMA InsertedIs ==
  ASSUME Tracked, NEW E, NEW d \in Documents(E), NEW next \in Nat, NEW step \in StepRecords,
         step.op # "replace", HasParagraph(d, step.pid), NEW t
  PROVE  \E k, p, F :
           /\ k \in Nat /\ k <= Len(d)
           /\ k + 1 = (IF step.pos = "AFTER" THEN IndexOf(d, step.pid) + 1 ELSE IndexOf(d, step.pid))
           /\ d \in Documents(F) /\ p \in ParagraphsIn(F)
           /\ p.id = FreshPid(d) /\ TextOf(p) = step.new
           /\ Applied(d, next, step, t).doc = InsertAt(d, k + 1, p)
<1>1. step.op = "insert" /\ step.new \in Seq(Tokens)
  BY StepIs
<1>2. PICK j \in DOMAIN d : j = IndexOf(d, step.pid)
  BY PlaceOf
<1>3. j \in 1..Len(d) /\ Len(d) \in Nat /\ DOMAIN d # {}
  BY ViewIs
<1>4. PICK pid \in Nat : pid = FreshPid(d)
  BY <1>3, FreshPidIsNew
<1>5. PICK n \in Nat : n = next + 1
  OBVIOUS
<1>6. PICK m, x : m = Element("ins", AI, next) /\ x = Element("ins", AI, n)
  OBVIOUS
<1>7. m.kind = "ins" /\ x.kind = "ins"
  BY <1>6 DEF Element
<1>8. PICK F : F = E \cup {m, x}
  OBVIOUS
<1>9. PICK p : p = [id |-> pid, mark |-> {m}, body |-> Items(step.new, <<x>>)]
  OBVIOUS
<1>10. p \in ParagraphsIn(F) /\ p.id = pid
  <2>1. {m} \in Marks(F)
    <3>1. IsFiniteSet({m})
      BY FS_Singleton
    <3> QED BY <1>7, <1>8, <3>1 DEF Marks
  <2>2. Items(step.new, <<x>>) \in Bodies(F)
    <3>1. x \in F
      BY <1>8
    <3>2. <<x>> \in Seq(F)
      BY <3>1
    <3> QED BY <1>1, <3>2, ItemsBody
  <2> QED BY <1>9, <2>1, <2>2 DEF ParagraphsIn
<1>11. TextOf(p) = step.new
  <2>1. p.body = Items(step.new, <<x>>)
    BY <1>9
  <2>2. \A k \in DOMAIN <<x>> : <<x>>[k].kind # "del"
    BY <1>7
  <2> QED BY <1>1, <2>1, <2>2, NewTextShows
<1>12. d \in Documents(F)
  BY <1>8, DocumentsGrow
<1>13. Applied(d, next, step, t).doc = InsertedAt(d, j, step.pos, p)
  <2>1. Applied(d, next, step, t).doc = TrackedInsert(d, j, step.pos, FreshPid(d), step.new, AI, next)
    BY <1>1, <1>2 DEF Applied
  <2>2. TrackedInsert(d, j, step.pos, FreshPid(d), step.new, AI, next) = InsertedAt(d, j, step.pos, p)
    BY <1>4, <1>5, <1>6, <1>9 DEF TrackedInsert
  <2> QED BY <2>1, <2>2
<1>14. PICK i : i = (IF step.pos = "AFTER" THEN j + 1 ELSE j)
  OBVIOUS
<1>15. Applied(d, next, step, t).doc = InsertAt(d, i, p)
  BY <1>13, <1>14 DEF InsertedAt
<1>16. PICK k \in Nat : k = i - 1 /\ k + 1 = i /\ k <= Len(d)
  <2>1. i - 1 \in Nat /\ (i - 1) + 1 = i /\ i - 1 <= Len(d)
    BY <1>3, <1>14
  <2> QED BY <2>1
<1> QED BY <1>2, <1>4, <1>10, <1>11, <1>12, <1>14, <1>15, <1>16

(* An insertion is the atomic one.                                         *)
LEMMA InsertIsAtomic ==
  ASSUME Tracked, NEW E, NEW d \in Documents(E), NEW next \in Nat, NEW step \in StepRecords,
         step.op # "replace", HasParagraph(d, step.pid), NEW t
  PROVE  View(Applied(d, next, step, t).doc) \in Atomic!Outcomes(View(d), step)
<1>1. PICK k, p, F :
         /\ k \in Nat /\ k <= Len(d)
         /\ k + 1 = (IF step.pos = "AFTER" THEN IndexOf(d, step.pid) + 1 ELSE IndexOf(d, step.pid))
         /\ d \in Documents(F) /\ p \in ParagraphsIn(F)
         /\ p.id = FreshPid(d) /\ TextOf(p) = step.new
         /\ Applied(d, next, step, t).doc = InsertAt(d, k + 1, p)
  BY InsertedIs
<1>2. PICK v : v = View(d)
  OBVIOUS
<1>3. PICK j \in DOMAIN v : j = IndexOf(d, step.pid) /\ v[j].id = step.pid
  <2>1. PICK j \in DOMAIN d : j = IndexOf(d, step.pid) /\ d[j].id = step.pid
    BY PlaceOf
  <2>2. DOMAIN v = DOMAIN d /\ v[j].id = d[j].id
    BY <1>2, ViewIs
  <2> QED BY <2>1, <2>2
<1>4. DOMAIN d # {}
  BY PlaceOf
<1>5. PICK new : new = [id |-> Atomic!FreshPid(v), text |-> step.new]
  OBVIOUS
<1>6. new = [id |-> p.id, text |-> TextOf(p)]
  BY <1>1, <1>2, <1>4, <1>5, FreshPidIsNew
<1>7. View(Applied(d, next, step, t).doc) = Atomic!InsertAt(v, k + 1, new)
  <2>1. View(InsertAt(d, k + 1, p)) = Atomic!InsertAt(View(d), k + 1, new)
    BY <1>1, <1>6, ViewOfInserted
  <2> QED BY <1>1, <1>2, <2>1
<1>8. Atomic!InsertAt(v, IF step.pos = "AFTER" THEN j + 1 ELSE j, new) \in Atomic!Inserted(v, step)
  BY <1>3, <1>5 DEF Atomic!Inserted, Atomic!Positions
<1>9. k + 1 = (IF step.pos = "AFTER" THEN j + 1 ELSE j)
  BY <1>1, <1>3
<1>10. Atomic!InsertAt(v, k + 1, new) \in Atomic!Inserted(v, step)
  BY <1>8, <1>9
<1> QED BY <1>2, <1>7, <1>10 DEF Atomic!Outcomes

(* A paragraph that is there stays as it is.                               *)
Stays(d, e, pid) ==
  HasParagraph(d, pid) => HasParagraph(e, pid) /\ Paragraph(e, pid) = Paragraph(d, pid)

(* Text is found where it was while its paragraph stays. *)
LEMMA StaysFound ==
  ASSUME NEW d, NEW e, NEW step, Finds(d, step), Stays(d, e, step.pid)
  PROVE  Finds(e, step) /\ Found(e, step) = Found(d, step)
<1>1. HasParagraph(e, step.pid) /\ Paragraph(e, step.pid) = Paragraph(d, step.pid)
  BY DEF Finds, Stays
<1> QED BY <1>1 DEF Finds, Found

(* An id leads to its paragraph.                                           *)
LEMMA TheOnlyPlace ==
  ASSUME NEW d, DistinctIds(d), NEW j \in DOMAIN d
  PROVE  HasParagraph(d, d[j].id) /\ Paragraph(d, d[j].id) = d[j]
<1>1. HasParagraph(d, d[j].id)
  BY DEF HasParagraph
<1>2. IndexOf(d, d[j].id) \in DOMAIN d /\ d[IndexOf(d, d[j].id)].id = d[j].id
  BY <1>1, PlaceOf
<1>3. IndexOf(d, d[j].id) = j
  BY <1>2 DEF DistinctIds
<1> QED BY <1>1, <1>3 DEF Paragraph

(* A changed paragraph with the same id leaves the others where they are. *)
LEMMA ReplacedLeavesOthers ==
  ASSUME NEW d, DistinctIds(d), NEW j \in DOMAIN d, NEW q, q.id = d[j].id
  PROVE  /\ DistinctIds([d EXCEPT ![j] = q])
         /\ \A pid : pid # d[j].id => Stays(d, [d EXCEPT ![j] = q], pid)
<1>1. PICK e : e = [d EXCEPT ![j] = q]
  OBVIOUS
<1>2. /\ DOMAIN e = DOMAIN d /\ e[j] = q /\ \A i \in DOMAIN d : i # j => e[i] = d[i]
      /\ \A i \in DOMAIN d : e[i].id = d[i].id
  BY <1>1
<1>3. DistinctIds(e)
  BY <1>2 DEF DistinctIds
<1>4. ASSUME NEW pid, pid # d[j].id, HasParagraph(d, pid)
      PROVE  HasParagraph(e, pid) /\ Paragraph(e, pid) = Paragraph(d, pid)
  <2>1. PICK i \in DOMAIN d : i = IndexOf(d, pid) /\ d[i].id = pid
    BY <1>4, PlaceOf
  <2>2. e[i] = d[i] /\ i \in DOMAIN e /\ e[i].id = pid
    BY <1>2, <1>4, <2>1
  <2>3. HasParagraph(e, e[i].id) /\ Paragraph(e, e[i].id) = e[i]
    BY <1>3, <2>2, TheOnlyPlace
  <2> QED BY <2>1, <2>2, <2>3 DEF Paragraph
<1> QED BY <1>1, <1>3, <1>4 DEF Stays

(* A new paragraph with a new id leaves all others as they are. *)
LEMMA InsertedLeavesOthers ==
  ASSUME NEW E, NEW d \in Documents(E), DistinctIds(d), NEW k \in Nat, k <= Len(d), NEW p,
         \A j \in DOMAIN d : d[j].id # p.id, NEW e \in Documents(E), IsInsert(e, d, k, p)
  PROVE  DistinctIds(e) /\ \A pid : Stays(d, e, pid)
<1>1. PICK n \in Nat : n = Len(d) /\ k <= n /\ DOMAIN d = 1..n
  BY ViewIs
<1>2. DOMAIN e = 1..(n + 1)
  BY <1>1, ViewIs DEF IsInsert
<1>3. /\ e[k + 1] = p
      /\ \A i \in 1..k : e[i] = d[i]
      /\ \A i \in (k + 2)..(n + 1) : e[i] = d[i - 1]
  BY <1>1 DEF IsInsert
<1> DEFINE from(i) == IF i <= k THEN i ELSE i - 1
<1>4. ASSUME NEW i \in 1..(n + 1), i # k + 1 PROVE from(i) \in 1..n /\ e[i] = d[from(i)]
  <2>1. CASE i <= k
    BY <1>1, <1>3, <2>1
  <2>2. CASE ~(i <= k)
    <3>1. i \in (k + 2)..(n + 1) /\ i - 1 \in 1..n
      BY <1>1, <1>4, <2>2
    <3> QED BY <1>3, <2>2, <3>1
  <2> QED BY <2>1, <2>2
<1>5. \A i, j \in 1..(n + 1) : i # k + 1 /\ j # k + 1 /\ from(i) = from(j) => i = j
  BY <1>1
<1> HIDE DEF from
<1>6. DistinctIds(e)
  <2> SUFFICES ASSUME NEW i \in 1..(n + 1), NEW j \in 1..(n + 1), e[i].id = e[j].id PROVE i = j
    BY <1>2 DEF DistinctIds
  <2>1. CASE i = k + 1 /\ j # k + 1
    BY <1>1, <1>3, <1>4, <2>1
  <2>2. CASE i # k + 1 /\ j = k + 1
    BY <1>1, <1>3, <1>4, <2>2
  <2>3. CASE i # k + 1 /\ j # k + 1
    <3>1. from(i) \in DOMAIN d /\ from(j) \in DOMAIN d /\ d[from(i)].id = d[from(j)].id
      BY <1>1, <1>4, <2>3
    <3>2. from(i) = from(j)
      BY <3>1 DEF DistinctIds
    <3> QED BY <1>5, <2>3, <3>2
  <2> QED BY <2>1, <2>2, <2>3
<1>7. ASSUME NEW pid, HasParagraph(d, pid)
      PROVE  HasParagraph(e, pid) /\ Paragraph(e, pid) = Paragraph(d, pid)
  <2>1. PICK i \in DOMAIN d : i = IndexOf(d, pid) /\ d[i].id = pid
    BY <1>7, PlaceOf
  <2>2. \E l \in DOMAIN e : e[l] = d[i]
    <3>1. CASE i <= k
      <4>1. i \in 1..k /\ i \in 1..(n + 1)
        BY <1>1, <3>1
      <4> QED BY <1>2, <1>3, <4>1
    <3>2. CASE ~(i <= k)
      <4>1. i + 1 \in (k + 2)..(n + 1) /\ (i + 1) - 1 = i /\ i + 1 \in 1..(n + 1)
        BY <1>1, <3>2
      <4> QED BY <1>2, <1>3, <4>1
    <3> QED BY <3>1, <3>2
  <2>3. PICK l \in DOMAIN e : e[l] = d[i]
    BY <2>2
  <2>4. HasParagraph(e, e[l].id) /\ Paragraph(e, e[l].id) = e[l]
    BY <1>6, TheOnlyPlace
  <2> QED BY <2>1, <2>3, <2>4 DEF Paragraph
<1> QED BY <1>6, <1>7 DEF Stays

(* A replacement keeps the id of its paragraph.                            *)
LEMMA ReplaceKeepsId ==
  ASSUME NEW E, NEW p \in ParagraphsIn(E), NEW s, NEW e, NEW new, NEW by, NEW next
  PROVE  TrackedReplace(p, s, e, new, by, next).p.id = p.id
BY DEF TrackedReplace, ParagraphsIn

(* What an edit leaves of d: every paragraph but the one it touches.       *)
OthersStay(d, step, e) ==
  /\ DistinctIds(e)
  /\ \A pid : pid # Touched(d, step) => Stays(d, e, pid)
  /\ step.op = "replace" =>
       \E j, q :
         /\ j \in DOMAIN d /\ d[j].id = step.pid /\ q.id = step.pid
         /\ e = [d EXCEPT ![j] = q]

(* An edit, wherever it lands, changes no other paragraph.                 *)
LEMMA EditLeavesOthers ==
  ASSUME Tracked, NEW E, NEW d \in Documents(E), DistinctIds(d), NEW next \in Nat,
         NEW step \in StepRecords, NEW t, Applies(d, step, t),
         step.op = "replace" => t.s \in Nat /\ t.e \in Nat /\ t.new \in Seq(Tokens)
  PROVE  OthersStay(d, step, Applied(d, next, step, t).doc)
<1> SUFFICES /\ DistinctIds(Applied(d, next, step, t).doc)
             /\ \A pid : pid # Touched(d, step) => Stays(d, Applied(d, next, step, t).doc, pid)
             /\ step.op = "replace" =>
                  \E j, q :
                    /\ j \in DOMAIN d /\ d[j].id = step.pid /\ q.id = step.pid
                    /\ Applied(d, next, step, t).doc = [d EXCEPT ![j] = q]
  BY DEF OthersStay
<1>0. HasParagraph(d, step.pid)
  BY DEF Applies
<1>1. CASE step.op = "replace"
  <2>1. PICK j \in DOMAIN d : j = IndexOf(d, step.pid) /\ d[j].id = step.pid
    BY <1>0, PlaceOf
  <2>2. PICK p \in ParagraphsIn(E) : p = d[j] /\ p = Paragraph(d, step.pid)
    BY <2>1, ParagraphOf DEF Paragraph
  <2>4. PICK q : q = TrackedReplace(p, t.s, t.e, t.new, AI, next).p /\ q.id = p.id
    BY <2>2, ReplaceKeepsId
  <2>5. Applied(d, next, step, t).doc = [d EXCEPT ![j] = q]
    BY <1>1, <2>1, <2>2, <2>4 DEF Applied
  <2>6. q.id = d[j].id /\ q.id = step.pid /\ Touched(d, step) = d[j].id
    BY <1>1, <2>1, <2>2, <2>4 DEF Touched
  <2>7. /\ DistinctIds([d EXCEPT ![j] = q])
        /\ \A pid : pid # d[j].id => Stays(d, [d EXCEPT ![j] = q], pid)
    BY <2>6, ReplacedLeavesOthers
  <2> QED BY <2>1, <2>5, <2>6, <2>7
<1>2. CASE step.op # "replace"
  <2>1. PICK k, p, F :
           /\ k \in Nat /\ k <= Len(d) /\ d \in Documents(F) /\ p \in ParagraphsIn(F)
           /\ p.id = FreshPid(d)
           /\ Applied(d, next, step, t).doc = InsertAt(d, k + 1, p)
    BY <1>0, <1>2, InsertedIs
  <2>2. PICK e : e = InsertAt(d, k + 1, p)
    OBVIOUS
  <2>3. e \in Documents(F) /\ IsInsert(e, d, k, p)
    <3>1. PICK v : v = [id |-> p.id, text |-> TextOf(p)]
      OBVIOUS
    <3> QED BY <2>1, <2>2, <3>1, ViewOfInserted
  <2>4. DOMAIN d # {}
    BY <1>0, PlaceOf
  <2>5. \A j \in DOMAIN d : d[j].id # p.id
    BY <2>1, <2>4, FreshPidIsNew
  <2>6. DistinctIds(e) /\ \A pid : Stays(d, e, pid)
    BY <2>1, <2>3, <2>5, InsertedLeavesOthers
  <2> QED BY <1>2, <2>1, <2>2, <2>6
<1> QED BY <1>1, <1>2

(***************************************************************************)
(* What the sessions show, and what happens to it                          *)
(***************************************************************************)

ShownViews(ss) == [s \in DOMAIN ss |-> View(ss[s].doc)]

(* A step of the tools does an atomic step, or shows nothing.              *)
AtomicStep ==
  \/ Atomic!Next
  \/ ShownViews(sessions') = ShownViews(sessions) /\ missed' = missed

(* The documents of the other sessions stay. *)
DocsStay(but) ==
  /\ DOMAIN sessions' = DOMAIN sessions
  /\ \A s \in DOMAIN sessions \ but : sessions'[s].doc = sessions[s].doc

(* The types of a session that is there. *)
LEMMA SessionDoc ==
  ASSUME Shape, NEW s \in DOMAIN sessions
  PROVE  sessions[s].doc \in Documents(All) /\ sessions[s].next \in Nat
<1>1. sessions[s] \in Sessions
  BY LenProperties, ElementOfSeq DEF Shape
<1> QED BY <1>1 DEF Sessions

(* Where no document changes, nothing is shown. *)
LEMMA NothingShown ==
  ASSUME DocsStay({}), missed' = missed
  PROVE  AtomicStep
BY DEF DocsStay, AtomicStep, ShownViews

(* A session is opened. *)
LEMMA OpeningShown ==
  ASSUME Shape, sessions' = Opened, missed' = missed
  PROVE  AtomicStep
<1>1. CASE current # 0
  <2>1. DocsStay({})
    BY <1>1 DEF Opened, DocsStay
  <2> QED BY <2>1, NothingShown
<1>2. CASE current = 0
  <2> DEFINE v == ShownViews(sessions)
             w == ShownViews(sessions')
             x == View(File)
             n == Len(sessions)
             V == Seq(Views)
  <2>1. sessions \in Seq(Sessions) /\ NewSession \in Sessions
          /\ sessions' = Append(sessions, NewSession)
    BY <1>2, NewSessionIsAhead DEF Opened, Shape
  <2>2. DOMAIN sessions = 1..n /\ n \in Nat
    BY <2>1, LenProperties
  <2>3. /\ sessions' \in Seq(Sessions) /\ Len(sessions') = n + 1
        /\ \A s \in 1..n : sessions'[s] = sessions[s]
        /\ sessions'[n + 1] = NewSession
    BY <2>1, AppendProperties
  <2>4. DOMAIN sessions' = 1..(n + 1)
    BY <2>3, LenProperties
  <2>5. v \in [1..n -> V]
    <3>1. \A s \in 1..n : View(sessions[s].doc) \in V
      BY <2>2, SessionDoc, ViewIs
    <3> QED BY <2>2, <3>1 DEF ShownViews
  <2>6. v \in Seq(V) /\ Len(v) = n
    <3> HIDE DEF v, n, V
    <3> QED BY <2>2, <2>5, FunctionIsSeq
  <2>7. x \in V
    <3>1. File \in Documents(All)
      BY FileAssumption DEF All
    <3> QED BY <3>1, ViewIs
  <2> HIDE DEF V
  <2>8. /\ Append(v, x) \in Seq(V) /\ Len(Append(v, x)) = n + 1
        /\ \A s \in 1..n : Append(v, x)[s] = v[s]
        /\ Append(v, x)[n + 1] = x
    <3> HIDE DEF v, x, n
    <3> QED BY <2>6, <2>7, AppendProperties
  <2>9. \A s \in 1..n : v[s] = View(sessions[s].doc)
    BY <2>2 DEF ShownViews
  <2>10. \A s \in 1..(n + 1) : w[s] = View(sessions'[s].doc)
    BY <2>4 DEF ShownViews
  <2>11. NewSession.doc = File
    BY DEF NewSession
  <2>12. ASSUME NEW s \in 1..(n + 1) PROVE w[s] = Append(v, x)[s]
    <3>1. CASE s \in 1..n
      BY <2>3, <2>8, <2>9, <2>10, <3>1
    <3>2. CASE s = n + 1
      BY <2>3, <2>8, <2>10, <2>11, <3>2
    <3>3. s \in 1..n \/ s = n + 1
      <4> HIDE DEF n
      <4> QED BY <2>2
    <3> QED BY <3>1, <3>2, <3>3
  <2>13. w = [s \in 1..(n + 1) |-> w[s]]
    BY <2>4 DEF ShownViews
  <2>14. Append(v, x) = [s \in 1..(n + 1) |-> Append(v, x)[s]]
    <3> HIDE DEF v, x, n
    <3>1. PICK u : u = Append(v, x) /\ u \in Seq(V) /\ Len(u) = n + 1
      BY <2>8
    <3>2. u \in [1..(n + 1) -> V]
      BY <3>1, LenProperties
    <3>3. u = [s \in 1..(n + 1) |-> u[s]]
      BY <3>2
    <3> QED BY <3>1, <3>3
  <2>15. w = Append(v, x)
    <3> HIDE DEF w, v, x, n
    <3> QED BY <2>12, <2>13, <2>14
  <2>16. Atomic!OpenFile
    BY <2>15 DEF Atomic!OpenFile, ShownViews
  <2> QED BY <2>16 DEF AtomicStep, Atomic!Next
<1> QED BY <1>1, <1>2

(* An edit of one session happens where it was named. *)
LEMMA EditShown ==
  ASSUME NEW a \in DOMAIN sessions, DocsStay({a}), missed' = missed, NEW step \in Steps,
         View(sessions'[a].doc) \in Atomic!Outcomes(View(sessions[a].doc), step)
  PROVE  AtomicStep
<1> DEFINE v == ShownViews(sessions)
           w == ShownViews(sessions')
<1>1. DOMAIN v = DOMAIN sessions /\ DOMAIN w = DOMAIN sessions /\ v[a] = View(sessions[a].doc)
      /\ w[a] = View(sessions'[a].doc)
      /\ \A s \in DOMAIN sessions \ {a} : w[s] = v[s]
  BY DEF ShownViews, DocsStay
<1>2. w = [s \in DOMAIN sessions |-> w[s]] /\ v = [s \in DOMAIN sessions |-> v[s]]
  BY DEF ShownViews, DocsStay
<1>3. w = [v EXCEPT ![a] = w[a]]
  <2> HIDE DEF v, w
  <2> QED BY <1>1, <1>2
<1>4. \E view \in Atomic!Outcomes(v[a], step) : w = [v EXCEPT ![a] = view]
  <2> HIDE DEF v, w
  <2> QED BY <1>1, <1>3
<1>5. Atomic!Edit(a, step)
  BY <1>4 DEF Atomic!Edit, ShownViews
<1>6. a \in DOMAIN v
  BY <1>1
<1>7. Atomic!Next
  BY <1>5, <1>6 DEF Atomic!Next, ShownViews
<1> QED BY <1>7 DEF AtomicStep

(* An edit of one session misses its place. *)
LEMMA MissShown ==
  ASSUME NEW a \in DOMAIN sessions, DocsStay({a}), missed' = missed + 1, NEW step \in Steps,
         NEW j \in DOMAIN sessions[a].doc, sessions[a].doc[j].id = step.pid,
         NEW q, q.id = step.pid, sessions'[a].doc = [sessions[a].doc EXCEPT ![j] = q]
  PROVE  AtomicStep
<1> DEFINE v == ShownViews(sessions)
           w == ShownViews(sessions')
           d == sessions[a].doc
           e == sessions'[a].doc
<1>1. DOMAIN v = DOMAIN sessions /\ DOMAIN w = DOMAIN sessions /\ v[a] = View(d) /\ w[a] = View(e)
      /\ \A s \in DOMAIN v \ {a} : w[s] = v[s]
  BY DEF ShownViews, DocsStay
<1>2. DOMAIN View(e) = DOMAIN d /\ DOMAIN View(d) = DOMAIN d
  BY DEF View
<1>3. ASSUME NEW i \in DOMAIN d
      PROVE  IF View(d)[i].id = step.pid THEN View(e)[i].id = step.pid ELSE View(e)[i] = View(d)[i]
  <2>1. View(d)[i] = [id |-> d[i].id, text |-> TextOf(d[i])] /\ View(d)[i].id = d[i].id
    BY DEF View
  <2>2. View(e)[i] = [id |-> e[i].id, text |-> TextOf(e[i])] /\ View(e)[i].id = e[i].id
    BY DEF View
  <2>3. CASE i = j
    <3>1. e[i] = q /\ d[i].id = step.pid
      BY <2>3
    <3> QED BY <2>1, <2>2, <3>1
  <2>4. CASE i # j
    <3>1. e[i] = d[i]
      BY <2>4
    <3> HIDE DEF d, e
    <3> QED BY <2>1, <2>2, <3>1
  <2> QED BY <2>3, <2>4
<1> HIDE DEF d, e
<1>4. /\ missed' = missed + 1 /\ DOMAIN w = DOMAIN v
      /\ \A s \in DOMAIN v \ {a} : w[s] = v[s]
      /\ DOMAIN w[a] = DOMAIN v[a]
      /\ \A i \in DOMAIN v[a] :
           IF v[a][i].id = step.pid THEN w[a][i].id = step.pid ELSE w[a][i] = v[a][i]
  <2> HIDE DEF v, w
  <2> QED BY <1>1, <1>2, <1>3
<1>5. Atomic!Miss(a, step.pid)
  BY <1>4 DEF Atomic!Miss, ShownViews
<1>6. a \in DOMAIN v
  BY <1>1
<1>7. Atomic!Next
  BY <1>5, <1>6 DEF Atomic!Next, ShownViews
<1> QED BY <1>7 DEF AtomicStep

(***************************************************************************)
(* A standalone replacement that no other edit of its paragraph has met    *)
(* still finds its text at its range                                       *)
(***************************************************************************)

Looks(x, ss) ==
  x.pc \in {"preview", "mutate"} /\ ~x.req.batch /\ x.req.steps[1].op = "replace"
    /\ x.req.steps[1].pid \notin x.moved
  => /\ Finds(ss[x.home].doc, x.req.steps[1])
     /\ x.range = Found(ss[x.home].doc, x.req.steps[1])

Looking ==
  /\ \A s \in DOMAIN sessions : DistinctIds(sessions[s].doc)
  /\ \A c \in Callers : Looks(calls[c], sessions)

(* A call goes on to know what it knows.                                   *)
Learns(x, y) ==
  y.pc = x.pc /\ y.req = x.req /\ y.home = x.home /\ y.range = x.range /\ x.moved \subseteq y.moved

OthersLearn(c) == \A x \in Callers \ {c} : Learns(calls[x], calls'[x])

(* Documents stay, and new ones are the file.                              *)
DocsKept ==
  /\ \A s \in DOMAIN sessions : s \in DOMAIN sessions' /\ sessions'[s].doc = sessions[s].doc
  /\ \A s \in DOMAIN sessions' \ DOMAIN sessions : sessions'[s].doc = File

(* A call whose paragraph stays, or that learns of its edit, looks on. *)
LEMMA LooksOn ==
  ASSUME NEW x, NEW y, NEW ss, NEW tt, Looks(x, ss), Learns(x, y),
         x.pc \in {"preview", "mutate"} =>
           \A pid : pid \notin y.moved => Stays(ss[x.home].doc, tt[x.home].doc, pid)
  PROVE  Looks(y, tt)
<1> SUFFICES ASSUME y.pc \in {"preview", "mutate"}, ~y.req.batch, y.req.steps[1].op = "replace",
                    y.req.steps[1].pid \notin y.moved
             PROVE  /\ Finds(tt[y.home].doc, y.req.steps[1])
                    /\ y.range = Found(tt[y.home].doc, y.req.steps[1])
  BY DEF Looks
<1>1. y.pc = x.pc /\ y.req = x.req /\ y.home = x.home /\ y.range = x.range /\ x.moved \subseteq y.moved
  BY DEF Learns
<1>2. PICK step : step = x.req.steps[1] /\ step = y.req.steps[1]
  BY <1>1
<1>3. step.pid \notin x.moved /\ step.pid \notin y.moved
  BY <1>1, <1>2
<1>4. Finds(ss[x.home].doc, step) /\ x.range = Found(ss[x.home].doc, step)
  BY <1>1, <1>2, <1>3 DEF Looks
<1>5. Stays(ss[x.home].doc, tt[x.home].doc, step.pid)
  BY <1>1, <1>3
<1>6. Finds(tt[x.home].doc, step) /\ Found(tt[x.home].doc, step) = Found(ss[x.home].doc, step)
  BY <1>4, <1>5, StaysFound
<1> QED BY <1>1, <1>2, <1>4, <1>6

(* Where no document changes only the call that acts has to look again. *)
LEMMA LookingKept ==
  ASSUME Shape, Looking, DistinctIds(File), DocsKept, NEW c \in Callers, OthersLearn(c),
         Looks(calls'[c], sessions')
  PROVE  Looking'
<1>1. ASSUME NEW s \in DOMAIN sessions' PROVE DistinctIds(sessions'[s].doc)
  BY DEF Looking, DocsKept
<1>2. ASSUME NEW x \in Callers \ {c} PROVE Looks(calls'[x], sessions')
  <2>1. Learns(calls[x], calls'[x]) /\ Looks(calls[x], sessions)
    BY DEF OthersLearn, Looking
  <2>2. Placed(calls[x], sessions)
    BY DEF Shape
  <2>3. ASSUME calls[x].pc \in {"preview", "mutate"}, NEW pid
        PROVE  Stays(sessions[calls[x].home].doc, sessions'[calls[x].home].doc, pid)
    <3>1. calls[x].home \in DOMAIN sessions
      BY <2>2, <2>3 DEF Placed
    <3> QED BY <3>1 DEF DocsKept, Stays
  <2> QED BY <2>1, <2>3, LooksOn
<1> QED BY <1>1, <1>2 DEF Looking

(* What is called before its match, or after its end, looks for nothing.   *)
LEMMA Away ==
  ASSUME NEW x, NEW ss, x.pc \notin {"preview", "mutate"} \/ x.req.batch
  PROVE  Looks(x, ss)
BY DEF Looks

(* The others are left alone. *)
LEMMA OnlyOne ==
  ASSUME Shape, NEW c \in Callers, NEW y, calls' = [calls EXCEPT ![c] = y]
  PROVE  OthersLearn(c) /\ calls'[c] = y
<1>1. DOMAIN calls = Callers
  BY DEF Shape
<1> QED BY <1>1 DEF OthersLearn, Learns

(* Without a change of the sessions no document changes. *)
LEMMA NothingDone ==
  ASSUME UNCHANGED sessions
  PROVE  DocsKept /\ DocsStay({})
BY DEF DocsKept, DocsStay

(* Opening the file leaves the open documents alone. *)
LEMMA OpeningKeeps ==
  ASSUME Shape, sessions' = Opened
  PROVE  DocsKept
<1>1. CASE current # 0
  BY <1>1, NothingDone DEF Opened
<1>2. CASE current = 0
  <2> DEFINE n == Len(sessions)
  <2>1. sessions \in Seq(Sessions) /\ NewSession \in Sessions
          /\ sessions' = Append(sessions, NewSession)
    BY <1>2, NewSessionIsAhead DEF Opened, Shape
  <2>2. DOMAIN sessions = 1..n /\ n \in Nat
    BY <2>1, LenProperties
  <2>3. /\ sessions' \in Seq(Sessions) /\ Len(sessions') = n + 1
        /\ \A s \in 1..n : sessions'[s] = sessions[s]
        /\ sessions'[n + 1] = NewSession
    BY <2>1, AppendProperties
  <2>4. DOMAIN sessions' = 1..(n + 1)
    BY <2>3, LenProperties
  <2> HIDE DEF n
  <2>5. \A s \in DOMAIN sessions : s \in DOMAIN sessions' /\ sessions'[s].doc = sessions[s].doc
    BY <2>2, <2>3, <2>4
  <2>6. \A s \in DOMAIN sessions' \ DOMAIN sessions : s = n + 1
    BY <2>2, <2>4
  <2>7. NewSession.doc = File
    BY DEF NewSession
  <2> QED BY <2>3, <2>5, <2>6, <2>7 DEF DocsKept
<1> QED BY <1>1, <1>2

(* Calls that only look, wait or resolve. *)
LEMMA QuietIsAtomic ==
  ASSUME Shape, Looking, DistinctIds(File), NEW c \in Callers, NEW y,
         calls' = [calls EXCEPT ![c] = y], Looks(y, sessions'),
         UNCHANGED sessions \/ sessions' = Opened, missed' = missed
  PROVE  Looking' /\ AtomicStep
<1>1. OthersLearn(c) /\ calls'[c] = y
  BY OnlyOne
<1>2. DocsKept
  BY NothingDone, OpeningKeeps
<1>3. Looking'
  BY <1>1, <1>2, LookingKept
<1>4. AtomicStep
  BY NothingDone, NothingShown, OpeningShown
<1> QED BY <1>3, <1>4

(* A call begins. *)
LEMMA BeginIsAtomic ==
  ASSUME Shape, Looking, DistinctIds(File), NEW c \in Callers, NEW r \in Requests, Begin(c, r)
  PROVE  Looking' /\ AtomicStep
<1> DEFINE y == [Idle EXCEPT !.pc = "resolve", !.req = r]
<1>1. calls' = [calls EXCEPT ![c] = y] /\ UNCHANGED sessions /\ missed' = missed
  BY DEF Begin
<1>2. y.pc = "resolve"
  BY DEF Idle
<1> HIDE DEF y
<1>3. Looks(y, sessions')
  BY <1>2, Away
<1> QED BY <1>1, <1>3, QuietIsAtomic

(* A call resolves its session, which may open the file. *)
LEMMA GetSessionIsAtomic ==
  ASSUME Shape, Looking, DistinctIds(File), NEW c \in Callers, GetSession(c)
  PROVE  Looking' /\ AtomicStep
<1> DEFINE x == calls[c]
           to == IF x.req.batch THEN "validate" ELSE IF Tracked THEN "context" ELSE "match"
           y == [x EXCEPT !.home = OpenAt, !.pc = to]
<1>1. IsCall(x) /\ DOMAIN calls = Callers
  BY DEF Shape
<1>2. calls' = [calls EXCEPT ![c] = y] /\ sessions' = Opened /\ missed' = missed
  BY <1>1 DEF GetSession
<1>3. y.pc = to
  BY <1>1 DEF IsCall, CallsWith
<1> HIDE DEF y
<1>4. Looks(y, sessions')
  BY <1>3, Away
<1> QED BY <1>2, <1>4, QuietIsAtomic

(* A call finds the counter set. *)
LEMMA HaveContextIsAtomic ==
  ASSUME Shape, Looking, DistinctIds(File), NEW c \in Callers, HaveContext(c)
  PROVE  Looking' /\ AtomicStep
<1> DEFINE x == calls[c]
           y == [x EXCEPT !.pc = AfterContext(c)]
<1>1. IsCall(x) /\ DOMAIN calls = Callers
  BY DEF Shape
<1>2. calls' = [calls EXCEPT ![c] = y] /\ UNCHANGED sessions /\ missed' = missed
  BY <1>1 DEF HaveContext
<1>3. y.pc = AfterContext(c) /\ y.req = x.req
  BY <1>1 DEF IsCall, CallsWith
<1> HIDE DEF y
<1>4. Looks(y, sessions')
  BY <1>3, Away DEF AfterContext
<1> QED BY <1>2, <1>4, QuietIsAtomic

(* A batch is checked, and looks for nothing afterwards. *)
LEMMA ValidateIsAtomic ==
  ASSUME Shape, Looking, DistinctIds(File), NEW c \in Callers, Validate(c)
  PROVE  Looking' /\ AtomicStep
<1> DEFINE x == calls[c]
           refused == [x EXCEPT !.pc = "idle", !.out = "refused"]
           y == [x EXCEPT !.moved = Apart(c), !.goal = Goal(Doc(c), x.req.steps),
                          !.pc = IF Tracked THEN "context" ELSE "steps"]
<1>1. IsCall(x) /\ DOMAIN calls = Callers
  BY DEF Shape
<1>2. UNCHANGED sessions /\ missed' = missed
  BY DEF Validate
<1>3. CASE ~Acceptable(Doc(c), x.req.steps)
  <2>1. calls' = [calls EXCEPT ![c] = refused]
    BY <1>1, <1>3 DEF Validate, Answer
  <2>2. refused.pc = "idle"
    BY <1>1 DEF IsCall, CallsWith
  <2> HIDE DEF refused
  <2>3. Looks(refused, sessions')
    BY <2>2, Away
  <2> QED BY <1>2, <2>1, <2>3, QuietIsAtomic
<1>4. CASE Acceptable(Doc(c), x.req.steps)
  <2>1. calls' = [calls EXCEPT ![c] = y]
    BY <1>1, <1>4 DEF Validate
  <2>2. y.pc = (IF Tracked THEN "context" ELSE "steps")
    BY <1>1 DEF IsCall, CallsWith
  <2> HIDE DEF y
  <2>3. Looks(y, sessions')
    BY <2>2, Away
  <2> QED BY <1>2, <2>1, <2>3, QuietIsAtomic
<1> QED BY <1>3, <1>4

(* A batch step resolves its session, which may open the file again. *)
LEMMA StepSessionIsAtomic ==
  ASSUME Shape, Looking, DistinctIds(File), NEW c \in Callers, StepSession(c)
  PROVE  Looking' /\ AtomicStep
<1> DEFINE x == calls[c]
           y == [x EXCEPT !.pc = "step", !.at = OpenAt]
<1>1. IsCall(x) /\ DOMAIN calls = Callers
  BY DEF Shape
<1>2. calls' = [calls EXCEPT ![c] = y] /\ sessions' = Opened /\ missed' = missed
  BY <1>1 DEF StepSession
<1>3. y.pc = "step"
  BY <1>1 DEF IsCall, CallsWith
<1> HIDE DEF y
<1>4. Looks(y, sessions')
  BY <1>3, Away
<1> QED BY <1>2, <1>4, QuietIsAtomic

(* A scan changes no document. *)
LEMMA ScanIsAtomic ==
  ASSUME Shape, Looking, DistinctIds(File), NEW c \in Callers, StartScan(c) \/ EndScan(c)
  PROVE  Looking' /\ AtomicStep
<1> DEFINE x == calls[c]
           h == x.home
           s == sessions[h]
           to == IF StartScan(c) THEN "scan" ELSE AfterContext(c)
<1>1. IsCall(x) /\ Placed(x, sessions) /\ DOMAIN calls = Callers
  BY DEF Shape
<1>2. x.pc \in {"context", "scan"} /\ missed' = missed
  BY DEF StartScan, EndScan
<1>3. h \in DOMAIN sessions
  BY <1>1, <1>2 DEF Placed
<1>4. s \in Sessions
  BY <1>3, LenProperties, ElementOfSeq DEF Shape
<1>5. DocsStay({}) /\ OthersLearn(c) /\ Looks(calls'[c], sessions')
  <2>1. CASE StartScan(c)
    <3> DEFINE seed == IF s.scan # 0 THEN s.scan ELSE FreshId(s.doc)
               y == [x EXCEPT !.pc = "scan", !.seed = seed]
               z == [s EXCEPT !.scan = seed]
    <3>1. sessions' = [sessions EXCEPT ![h] = z] /\ calls' = [calls EXCEPT ![c] = y]
      BY <1>1, <1>3, <2>1 DEF StartScan
    <3>2. z.doc = s.doc
      BY <1>4 DEF Sessions
    <3>3. y.pc = "scan"
      BY <1>1 DEF IsCall, CallsWith
    <3> HIDE DEF y, z
    <3>4. Looks(y, sessions')
      BY <3>3, Away
    <3>5. DocsStay({})
      BY <1>3, <3>1, <3>2 DEF DocsStay
    <3> QED BY <3>1, <3>4, <3>5, OnlyOne
  <2>2. CASE EndScan(c)
    <3> DEFINE y == [x EXCEPT !.pc = AfterContext(c)]
               z == [s EXCEPT !.next = Seeded(@, x.seed), !.scan = 0]
    <3>1. sessions' = [sessions EXCEPT ![h] = z] /\ calls' = [calls EXCEPT ![c] = y]
      BY <1>1, <1>3, <2>2 DEF EndScan
    <3>2. z.doc = s.doc
      BY <1>4 DEF Sessions
    <3>3. y.pc = AfterContext(c) /\ y.req = x.req
      BY <1>1 DEF IsCall, CallsWith
    <3> HIDE DEF y, z
    <3>4. Looks(y, sessions')
      BY <3>3, Away DEF AfterContext
    <3>5. DocsStay({})
      BY <1>3, <3>1, <3>2 DEF DocsStay
    <3> QED BY <3>1, <3>4, <3>5, OnlyOne
  <2> QED BY <2>1, <2>2
<1>6. DocsKept
  BY <1>5 DEF DocsKept, DocsStay
<1>7. Looking'
  BY <1>5, <1>6, LookingKept
<1>8. AtomicStep
  BY <1>2, <1>5, NothingShown
<1> QED BY <1>7, <1>8

(* The range of a call that has just looked is that of its text. *)
LEMMA MatchIsAtomic ==
  ASSUME Shape, Looking, DistinctIds(File), NEW c \in Callers, Match(c)
  PROVE  Looking' /\ AtomicStep
<1> DEFINE x == calls[c]
           refused == [x EXCEPT !.pc = "idle", !.out = "refused"]
           y == [x EXCEPT !.range = Found(Doc(c), OnlyStep(c)), !.moved = Apart(c),
                          !.pc = IF Tracked THEN "preview" ELSE "mutate"]
<1>1. IsCall(x) /\ DOMAIN calls = Callers
  BY DEF Shape
<1>2. UNCHANGED sessions /\ missed' = missed
  BY DEF Match
<1>3. CASE ~Finds(Doc(c), OnlyStep(c))
  <2>1. calls' = [calls EXCEPT ![c] = refused]
    BY <1>1, <1>3 DEF Match, Answer
  <2>2. refused.pc = "idle"
    BY <1>1 DEF IsCall, CallsWith
  <2> HIDE DEF refused
  <2>3. Looks(refused, sessions')
    BY <2>2, Away
  <2> QED BY <1>2, <2>1, <2>3, QuietIsAtomic
<1>4. CASE Finds(Doc(c), OnlyStep(c))
  <2>1. calls' = [calls EXCEPT ![c] = y]
    BY <1>1, <1>4 DEF Match
  <2>2. y.req = x.req /\ y.home = x.home /\ y.range = Found(Doc(c), OnlyStep(c))
    BY <1>1 DEF IsCall, CallsWith
  <2> HIDE DEF y
  <2>3. Finds(sessions'[y.home].doc, y.req.steps[1])
        /\ y.range = Found(sessions'[y.home].doc, y.req.steps[1])
    BY <1>2, <1>4, <2>2 DEF Doc, OnlyStep
  <2>4. Looks(y, sessions')
    BY <2>3 DEF Looks
  <2> QED BY <1>2, <2>1, <2>4, QuietIsAtomic
<1> QED BY <1>3, <1>4

(* The trial changes nothing but the copy. *)
LEMMA PreviewIsAtomic ==
  ASSUME Shape, Looking, DistinctIds(File), NEW c \in Callers, Preview(c)
  PROVE  Looking' /\ AtomicStep
<1> DEFINE x == calls[c]
           refused == [x EXCEPT !.pc = "idle", !.out = "refused"]
           y == [x EXCEPT !.pc = IF x.req.batch THEN "steps" ELSE "mutate"]
<1>1. IsCall(x) /\ DOMAIN calls = Callers /\ Looks(x, sessions)
  BY DEF Shape, Looking
<1>2. x.pc = "preview" /\ UNCHANGED sessions /\ missed' = missed
  BY DEF Preview
<1>3. CASE ~Passes(c)
  <2>1. calls' = [calls EXCEPT ![c] = refused]
    BY <1>1, <1>3 DEF Preview, Answer
  <2>2. refused.pc = "idle"
    BY <1>1 DEF IsCall, CallsWith
  <2> HIDE DEF refused
  <2>3. Looks(refused, sessions')
    BY <2>2, Away
  <2> QED BY <1>2, <2>1, <2>3, QuietIsAtomic
<1>4. CASE Passes(c)
  <2>1. calls' = [calls EXCEPT ![c] = y]
    BY <1>1, <1>4 DEF Preview
  <2>2. y.req = x.req /\ y.home = x.home /\ y.range = x.range /\ y.moved = x.moved
        /\ y.pc = (IF x.req.batch THEN "steps" ELSE "mutate")
    BY <1>1 DEF IsCall, CallsWith
  <2> HIDE DEF y
  <2>3. Looks(y, sessions)
    <3> HIDE DEF x
    <3> QED BY <1>1, <1>2, <2>2 DEF Looks
  <2>4. Looks(y, sessions')
    BY <1>2, <2>3
  <2> QED BY <1>2, <2>1, <2>4, QuietIsAtomic
<1> QED BY <1>3, <1>4

(* A closed session keeps what it shows. *)
LEMMA CloseIsAtomic ==
  ASSUME Shape, Looking, CloseFile
  PROVE  Looking' /\ AtomicStep
<1>1. UNCHANGED sessions /\ missed' = missed /\ DOMAIN calls' = Callers
  BY DEF CloseFile
<1>2. ASSUME NEW c \in Callers PROVE Looks(calls'[c], sessions')
  <2>1. IsCall(calls[c]) /\ Looks(calls[c], sessions)
    BY DEF Shape, Looking
  <2>2. calls'[c] = [calls[c] EXCEPT !.moved = @ \cup {0}] \/ calls'[c] = calls[c]
    BY DEF CloseFile
  <2>3. PICK x, y : x = calls[c] /\ y = calls'[c]
    OBVIOUS
  <2>4. Learns(x, y)
    <3>1. CASE y = [x EXCEPT !.moved = @ \cup {0}]
      <4>1. x \in CallsWith(x.moved, x.goal)
        BY <2>1, <2>3 DEF IsCall
      <4> QED BY <3>1, <4>1 DEF CallsWith, Learns
    <3>2. CASE y = x
      BY <3>2 DEF Learns
    <3> QED BY <2>2, <2>3, <3>1, <3>2
  <2>5. \A pid : Stays(sessions[x.home].doc, sessions'[x.home].doc, pid)
    BY <1>1 DEF Stays
  <2> QED BY <2>1, <2>3, <2>4, <2>5, LooksOn
<1>3. AtomicStep
  BY <1>1, NothingDone, NothingShown
<1> QED BY <1>1, <1>2, <1>3 DEF Looking

(* An edit leaves the others what they look at, or lets them know.         *)
LEMMA EditLooks ==
  ASSUME Shape, Looking, NEW c \in Callers, NEW a \in DOMAIN sessions, DocsStay({a}),
         DistinctIds(sessions'[a].doc), NEW pid,
         \A p : p # pid => Stays(sessions[a].doc, sessions'[a].doc, p),
         NEW y, calls' = Noted([calls EXCEPT ![c] = y], c, a, pid), y.pc \notin {"preview", "mutate"}
  PROVE  Looking'
<1>1. DOMAIN calls = Callers /\ \A x \in Callers : IsCall(calls[x]) /\ Placed(calls[x], sessions)
  BY DEF Shape
<1>2. ASSUME NEW s \in DOMAIN sessions' PROVE DistinctIds(sessions'[s].doc)
  <2>1. CASE s = a
    BY <2>1
  <2>2. CASE s # a
    BY <2>2 DEF DocsStay, Looking
  <2> QED BY <2>1, <2>2
<1>3. calls'[c] = y
  BY <1>1 DEF Noted
<1>4. Looks(calls'[c], sessions')
  BY <1>3, Away
<1>5. ASSUME NEW b \in Callers \ {c} PROVE Looks(calls'[b], sessions')
  <2>1. IsCall(calls[b]) /\ Placed(calls[b], sessions) /\ Looks(calls[b], sessions)
    BY <1>1 DEF Looking
  <2>2. PICK x, z : x = calls[b] /\ z = calls'[b]
    OBVIOUS
  <2>3. Learns(x, z) /\ (x.home = a => pid \in z.moved)
    <3>1. x \in CallsWith(x.moved, x.goal)
      BY <2>1, <2>2 DEF IsCall
    <3>2. CASE x.home = a
      <4>1. z = [x EXCEPT !.moved = @ \cup {pid}]
        BY <1>1, <2>2, <3>2 DEF Noted
      <4> QED BY <3>1, <4>1 DEF CallsWith, Learns
    <3>3. CASE x.home # a
      <4>1. z = x
        BY <1>1, <2>2, <3>3 DEF Noted
      <4> QED BY <3>3, <4>1 DEF Learns
    <3> QED BY <3>2, <3>3
  <2>4. ASSUME x.pc \in {"preview", "mutate"}, NEW p, p \notin z.moved
        PROVE  Stays(sessions[x.home].doc, sessions'[x.home].doc, p)
    <3>1. x.home \in DOMAIN sessions
      BY <2>1, <2>2, <2>4 DEF Placed
    <3>2. CASE x.home = a
      <4>1. p # pid
        BY <2>3, <2>4, <3>2
      <4> QED BY <3>2, <4>1
    <3>3. CASE x.home # a
      BY <3>1, <3>3 DEF DocsStay, Stays
    <3> QED BY <3>2, <3>3
  <2>5. Looks(z, sessions')
    BY <2>1, <2>2, <2>3, <2>4, LooksOn
  <2> QED BY <2>2, <2>5
<1>6. \A x \in Callers : Looks(calls'[x], sessions')
  BY <1>4, <1>5
<1> QED BY <1>2, <1>6 DEF Looking

(* The steps of a request are among those that may be asked for.           *)
LEMMA StepsAre ==
  ASSUME NEW r \in Requests, NEW i \in 1..Len(r.steps)
  PROVE  r.steps[i] \in Steps /\ r.steps[i] \in StepRecords
<1>1. r.steps \in Seq(StepRecords) /\ r.steps[i] \in StepRecords
  BY RequestIs
<1>2. DOMAIN r.steps = 1..Len(r.steps)
  BY <1>1, LenProperties
<1>3. r.steps[i] \in Range(r.steps)
  BY <1>2 DEF Range
<1> QED BY <1>1, <1>3 DEF Steps

(* A standalone edit happens where it was named, or misses.                *)
LEMMA MutateIsAtomic ==
  ASSUME Tracked, Shape, Looking, DistinctIds(File), NEW c \in Callers, Mutate(c)
  PROVE  Looking' /\ AtomicStep
<1> DEFINE x == calls[c]
           h == x.home
           s == sessions[h]
           d == s.doc
           step == OnlyStep(c)
           t == Trimmed(step, x.range)
           r == Applied(d, s.next, step, t)
           y == [x EXCEPT !.pc = "idle", !.out = "ok"]
           refused == [x EXCEPT !.pc = "idle", !.out = "refused"]
           z == [s EXCEPT !.doc = r.doc, !.next = r.next]
<1>1. IsCall(x) /\ Placed(x, sessions) /\ DOMAIN calls = Callers /\ Looks(x, sessions)
  BY DEF Shape, Looking
<1>2. x.pc = "mutate"
  BY DEF Mutate
<1>3. CASE ~Applies(d, step, t)
  <2>1. calls' = [calls EXCEPT ![c] = refused] /\ UNCHANGED <<sessions, missed>>
    BY <1>1, <1>3 DEF Mutate, Doc, Answer
  <2>2. refused.pc = "idle"
    BY <1>1 DEF IsCall, CallsWith
  <2> HIDE DEF refused
  <2>3. Looks(refused, sessions')
    BY <2>2, Away
  <2> QED BY <2>1, <2>3, QuietIsAtomic
<1>4. CASE Applies(d, step, t)
  <2>1. x.req \in Requests /\ h \in DOMAIN sessions /\ ~x.req.batch
        /\ RangeFits(x.req.steps[1], x.range)
    BY <1>1, <1>2 DEF Placed
  <2>2. step \in StepRecords /\ step \in Steps
    <3>1. 1 \in 1..Len(x.req.steps)
      BY <2>1, RequestIs
    <3> QED BY <2>1, <3>1, StepsAre DEF OnlyStep
  <2>3. s \in Sessions /\ d \in Documents(All) /\ s.next \in Nat
    <3>1. s \in Sessions
      BY <2>1, LenProperties, ElementOfSeq DEF Shape
    <3> QED BY <3>1 DEF Sessions
  <2>4. x.range \in Nat \X Nat
    BY <1>1 DEF IsCall, CallsWith
  <2>5. step.op = "replace" => t.s \in Nat /\ t.e \in Nat /\ t.new \in Seq(Tokens)
    <3>1. RangeFits(step, x.range)
      BY <2>1 DEF OnlyStep
    <3> HIDE DEF step, x
    <3> QED BY <2>2, <2>4, <3>1, TrimmedInside
  <2>6. DistinctIds(d)
    BY <2>1 DEF Looking
  <2>7. sessions' = [sessions EXCEPT ![h].doc = r.doc, ![h].next = r.next]
    BY <1>4 DEF Mutate, Doc
  <2>8. sessions'[h].doc = r.doc /\ DocsStay({h})
    <3>1. sessions' = [sessions EXCEPT ![h] = z]
      <4> HIDE DEF r
      <4> QED BY <2>1, <2>7
    <3>2. z.doc = r.doc
      <4> HIDE DEF r, s
      <4> QED BY <2>3 DEF Sessions
    <3> HIDE DEF z, r
    <3> QED BY <2>1, <3>1, <3>2 DEF DocsStay
  <2>9. calls' = Noted([calls EXCEPT ![c] = y], c, h, Touched(d, step))
    <3>1. Answer(c, "ok") = [calls EXCEPT ![c] = y]
      BY <1>1 DEF Answer
    <3> QED BY <1>4, <3>1 DEF Mutate, Doc
  <2>10. y.pc \notin {"preview", "mutate"}
    BY <1>1 DEF IsCall, CallsWith
  <2>11. /\ (step.op = "replace" /\ step.pid \in x.moved) => missed' = missed + 1
         /\ ~(step.op = "replace" /\ step.pid \in x.moved) => missed' = missed + 0
    BY <1>4 DEF Mutate, Doc
  <2>12. missed \in Nat
    BY DEF Shape
  <2>13. (step.op = "replace" /\ step.pid \notin x.moved)
           => Finds(d, step) /\ x.range = Found(d, step)
    BY <1>1, <1>2, <2>1 DEF Looks, OnlyStep
  <2> HIDE DEF y
  <2>14. OthersStay(d, step, r.doc)
    <3>1. PICK n \in Nat : n = s.next
      BY <2>3
    <3>2. d \in Documents(All) /\ Applies(d, step, t) /\ r = Applied(d, n, step, t)
      BY <1>4, <2>3, <3>1
    <3> HIDE DEF d, step, t, r, s, z, x, h, refused
    <3>3. OthersStay(d, step, Applied(d, n, step, t).doc)
      BY <2>2, <2>5, <2>6, <3>1, <3>2, EditLeavesOthers
    <3> QED BY <3>2, <3>3
  <2>15. Looking'
    <3> HIDE DEF r, x, h, step
    <3> QED BY <2>1, <2>8, <2>9, <2>10, <2>14, EditLooks DEF OthersStay
  <2>16. AtomicStep
    <3>1. CASE step.op = "replace" /\ step.pid \in x.moved
      <4>1. PICK j, q : /\ j \in DOMAIN d /\ d[j].id = step.pid /\ q.id = step.pid
                        /\ r.doc = [d EXCEPT ![j] = q]
        BY <2>14, <3>1 DEF OthersStay
      <4>2. missed' = missed + 1
        BY <2>11, <3>1
      <4> HIDE DEF r, x, h, step
      <4> QED BY <2>1, <2>2, <2>8, <4>1, <4>2, MissShown
    <3>2. CASE step.op = "replace" /\ step.pid \notin x.moved
      <4>1. missed' = missed
        BY <2>11, <2>12, <3>2
      <4>2. Finds(d, step) /\ t = Trimmed(step, Found(d, step))
        BY <2>13, <3>2
      <4>3. View(r.doc) \in Atomic!Outcomes(View(d), step)
        <5> HIDE DEF d, step, t
        <5> QED BY <1>4, <2>2, <2>3, <3>2, <4>2, ReplaceIsAtomic
      <4> HIDE DEF r, x, h, step
      <4> QED BY <2>1, <2>2, <2>8, <4>1, <4>3, EditShown
    <3>3. CASE step.op # "replace"
      <4>1. missed' = missed
        BY <2>11, <2>12, <3>3
      <4>2. HasParagraph(d, step.pid)
        BY <1>4 DEF Applies
      <4>3. View(r.doc) \in Atomic!Outcomes(View(d), step)
        <5> HIDE DEF d, step, t
        <5> QED BY <2>2, <2>3, <3>3, <4>2, InsertIsAtomic
      <4> HIDE DEF r, x, h, step
      <4> QED BY <2>1, <2>2, <2>8, <4>1, <4>3, EditShown
    <3> QED BY <3>1, <3>2, <3>3
  <2> QED BY <2>15, <2>16
<1> QED BY <1>3, <1>4

(* A batch step lends its counter and changes one document. *)
LEMMA BatchStepDocs ==
  ASSUME Shape, NEW h \in DOMAIN sessions, NEW a \in DOMAIN sessions, NEW n, NEW e, NEW b,
         sessions' = [sessions EXCEPT ![h].next = n, ![a].doc = e, ![a].crossed = b]
  PROVE  sessions'[a].doc = e /\ DocsStay({a})
<1>1. PICK g, s : g = sessions[h] /\ s = sessions[a] /\ g \in Sessions /\ s \in Sessions
  BY LenProperties, ElementOfSeq DEF Shape
<1>2. CASE a = h
  <2>1. sessions' = [sessions EXCEPT ![a] = [s EXCEPT !.next = n, !.doc = e, !.crossed = b]]
    BY <1>1, <1>2
  <2>2. [s EXCEPT !.next = n, !.doc = e, !.crossed = b].doc = e
    BY <1>1 DEF Sessions
  <2> QED BY <2>1, <2>2 DEF DocsStay
<1>3. CASE a # h
  <2>1. /\ DOMAIN sessions' = DOMAIN sessions
        /\ sessions'[h] = [g EXCEPT !.next = n] /\ sessions'[a] = [s EXCEPT !.doc = e, !.crossed = b]
        /\ \A i \in DOMAIN sessions \ {a, h} : sessions'[i] = sessions[i]
    BY <1>1, <1>3
  <2>2. [g EXCEPT !.next = n].doc = g.doc /\ [s EXCEPT !.doc = e, !.crossed = b].doc = e
    BY <1>1 DEF Sessions
  <2>3. sessions'[h].doc = sessions[h].doc
    BY <1>1, <2>1, <2>2
  <2>4. \A i \in DOMAIN sessions \ {a} : sessions'[i].doc = sessions[i].doc
    BY <2>1, <2>3
  <2> QED BY <2>1, <2>2, <2>4 DEF DocsStay
<1> QED BY <1>2, <1>3

(* A batch step happens where it was named. *)
LEMMA StepIsAtomic ==
  ASSUME Tracked, Shape, Looking, DistinctIds(File), NEW c \in Callers, Step(c)
  PROVE  Looking' /\ AtomicStep
<1> DEFINE x == calls[c]
           h == x.home
           a == x.at
           d == sessions[a].doc
           step == x.req.steps[x.done + 1]
           t == Trimmed(step, Found(d, step))
           r == Applied(d, sessions[h].next, step, t)
           last == x.done + 1 = Len(x.req.steps)
           y == IF last THEN [x EXCEPT !.pc = "idle", !.out = "ok", !.done = @ + 1]
                ELSE [x EXCEPT !.pc = "steps", !.done = @ + 1]
           partial == [x EXCEPT !.pc = "idle", !.out = "partial"]
<1>1. IsCall(x) /\ Placed(x, sessions) /\ DOMAIN calls = Callers
  BY DEF Shape
<1>2. x.pc = "step" /\ missed' = missed
  BY DEF Step
<1>3. CASE ~(Finds(d, step) /\ Applies(d, step, t))
  <2>1. calls' = [calls EXCEPT ![c] = partial] /\ UNCHANGED sessions
    BY <1>1, <1>3 DEF Step, Answer
  <2>2. partial.pc = "idle"
    BY <1>1 DEF IsCall, CallsWith
  <2> HIDE DEF partial
  <2>3. Looks(partial, sessions')
    BY <2>2, Away
  <2> QED BY <1>2, <2>1, <2>3, QuietIsAtomic
<1>4. CASE Finds(d, step) /\ Applies(d, step, t)
  <2>1. x.req \in Requests /\ h \in DOMAIN sessions /\ a \in DOMAIN sessions
        /\ x.done < Len(x.req.steps)
    BY <1>1, <1>2 DEF Placed
  <2>2. step \in StepRecords /\ step \in Steps
    <3>1. x.done + 1 \in 1..Len(x.req.steps)
      BY <1>1, <2>1, RequestIs DEF IsCall, CallsWith
    <3> QED BY <2>1, <3>1, StepsAre
  <2>3. d \in Documents(All) /\ sessions[h].next \in Nat
    BY <2>1, SessionDoc
  <2>4. Found(d, step) \in Nat \X Nat /\ RangeFits(step, Found(d, step))
    <3> HIDE DEF d, step
    <3> QED BY <1>4, <2>2, <2>3, FoundInside
  <2>5. step.op = "replace" => t.s \in Nat /\ t.e \in Nat /\ t.new \in Seq(Tokens)
    <3> HIDE DEF d, step
    <3> QED BY <2>2, <2>4, TrimmedInside
  <2>6. DistinctIds(d)
    BY <2>1 DEF Looking
  <2>7. sessions'[a].doc = r.doc /\ DocsStay({a})
    <3>1. PICK b : b = (sessions[a].crossed \/ a # h)
      OBVIOUS
    <3>2. sessions' = [sessions EXCEPT ![h].next = r.next, ![a].doc = r.doc,
                                       ![a].crossed = @ \/ a # h]
      BY <1>4 DEF Step
    <3>3. sessions' = [sessions EXCEPT ![h].next = r.next, ![a].doc = r.doc, ![a].crossed = b]
      <4> HIDE DEF r, h, a
      <4>1. CASE a = h
        BY <2>1, <3>1, <3>2, <4>1
      <4>2. CASE a # h
        BY <2>1, <3>1, <3>2, <4>2
      <4> QED BY <4>1, <4>2
    <3> HIDE DEF r, h, a
    <3> QED BY <2>1, <3>3, BatchStepDocs
  <2>8. calls' = Noted([calls EXCEPT ![c] = y], c, a, Touched(d, step))
    <3>1. CASE last
      <4>1. [Answer(c, "ok") EXCEPT ![c].done = @ + 1] = [calls EXCEPT ![c] = y]
        BY <1>1, <3>1 DEF Answer
      <4>2. calls' = Noted([Answer(c, "ok") EXCEPT ![c].done = @ + 1], c, a, Touched(d, step))
        BY <1>4, <3>1 DEF Step
      <4> QED BY <4>1, <4>2
    <3>2. CASE ~last
      <4>1. [[calls EXCEPT ![c].pc = "steps"] EXCEPT ![c].done = @ + 1] = [calls EXCEPT ![c] = y]
        BY <1>1, <3>2
      <4>2. calls' = Noted([[calls EXCEPT ![c].pc = "steps"] EXCEPT ![c].done = @ + 1],
                           c, a, Touched(d, step))
        BY <1>4, <3>2 DEF Step
      <4> QED BY <4>1, <4>2
    <3> QED BY <3>1, <3>2
  <2>9. y.pc \notin {"preview", "mutate"}
    <3>1. PICK n : n = x.done + 1
      OBVIOUS
    <3>2. CASE last
      <4>1. y = [x EXCEPT !.pc = "idle", !.out = "ok", !.done = n]
        BY <3>1, <3>2
      <4> HIDE DEF x, y
      <4> QED BY <1>1, <4>1 DEF IsCall, CallsWith
    <3>3. CASE ~last
      <4>1. y = [x EXCEPT !.pc = "steps", !.done = n]
        BY <3>1, <3>3
      <4> HIDE DEF x, y
      <4> QED BY <1>1, <4>1 DEF IsCall, CallsWith
    <3> QED BY <3>2, <3>3
  <2> HIDE DEF y
  <2>10. OthersStay(d, step, r.doc)
    <3>1. PICK n \in Nat : n = sessions[h].next
      BY <2>3
    <3>2. r = Applied(d, n, step, t)
      BY <3>1
    <3> HIDE DEF d, step, t, r, x, h, a
    <3>3. OthersStay(d, step, Applied(d, n, step, t).doc)
      BY <1>4, <2>2, <2>3, <2>5, <2>6, <3>1, EditLeavesOthers
    <3> QED BY <3>2, <3>3
  <2>11. Looking'
    <3> HIDE DEF r, x, a, step
    <3> QED BY <2>1, <2>7, <2>8, <2>9, <2>10, EditLooks DEF OthersStay
  <2>12. View(r.doc) \in Atomic!Outcomes(View(d), step)
    <3>1. CASE step.op = "replace"
      <4> HIDE DEF d, step
      <4> QED BY <1>4, <2>2, <2>3, <3>1, ReplaceIsAtomic
    <3>2. CASE step.op # "replace"
      <4>1. HasParagraph(d, step.pid)
        BY <1>4 DEF Applies
      <4> HIDE DEF d, step, t
      <4> QED BY <2>2, <2>3, <3>2, <4>1, InsertIsAtomic
    <3> QED BY <3>1, <3>2
  <2>13. AtomicStep
    <3> HIDE DEF r, x, a, step
    <3> QED BY <1>2, <2>1, <2>2, <2>7, <2>12, EditShown
  <2> QED BY <2>11, <2>13
<1> QED BY <1>3, <1>4

(* Nothing is shown at first. *)
LEMMA InitIsAtomic ==
  ASSUME Init
  PROVE  Looking /\ ShownViews(sessions) = <<>> /\ missed = 0
<1>1. sessions = <<>> /\ DOMAIN sessions = {} /\ missed = 0
  BY EmptySeq DEF Init
<1>2. ASSUME NEW c \in Callers PROVE Looks(calls[c], sessions)
  <2>1. calls[c] = Idle /\ Idle.pc = "idle"
    BY DEF Init, Idle
  <2> QED BY <2>1, Away
<1>3. ShownViews(sessions) = <<>>
  <2>1. ShownViews(sessions) = [s \in {} |-> View(sessions[s].doc)]
    BY <1>1 DEF ShownViews
  <2> QED BY <2>1
<1> QED BY <1>1, <1>2, <1>3 DEF Looking

(* Every step of the tools is an atomic step, or shows nothing. *)
LEMMA NextIsAtomic ==
  ASSUME Tracked, DistinctIds(File), Shape, Looking, [Next]_vars
  PROVE  Looking' /\ AtomicStep
<1>1. CASE UNCHANGED vars
  <2>1. sessions' = sessions /\ calls' = calls /\ missed' = missed
    BY <1>1 DEF vars
  <2>2. Looking'
    BY <2>1 DEF Looking
  <2> QED BY <2>1, <2>2, NothingDone, NothingShown
<1>2. ASSUME NEW c \in Callers, NEW r \in Requests, Begin(c, r) PROVE Looking' /\ AtomicStep
  BY <1>2, BeginIsAtomic
<1>3. ASSUME NEW c \in Callers, GetSession(c) PROVE Looking' /\ AtomicStep
  BY <1>3, GetSessionIsAtomic
<1>4. ASSUME NEW c \in Callers, HaveContext(c) PROVE Looking' /\ AtomicStep
  BY <1>4, HaveContextIsAtomic
<1>5. ASSUME NEW c \in Callers, StartScan(c) \/ EndScan(c) PROVE Looking' /\ AtomicStep
  BY <1>5, ScanIsAtomic
<1>6. ASSUME NEW c \in Callers, Match(c) PROVE Looking' /\ AtomicStep
  BY <1>6, MatchIsAtomic
<1>7. ASSUME NEW c \in Callers, Validate(c) PROVE Looking' /\ AtomicStep
  BY <1>7, ValidateIsAtomic
<1>8. ASSUME NEW c \in Callers, Preview(c) PROVE Looking' /\ AtomicStep
  BY <1>8, PreviewIsAtomic
<1>9. ASSUME NEW c \in Callers, Mutate(c) PROVE Looking' /\ AtomicStep
  BY <1>9, MutateIsAtomic
<1>10. ASSUME NEW c \in Callers, StepSession(c) PROVE Looking' /\ AtomicStep
  BY <1>10, StepSessionIsAtomic
<1>11. ASSUME NEW c \in Callers, Step(c) PROVE Looking' /\ AtomicStep
  BY <1>11, StepIsAtomic
<1>12. CASE CloseFile
  BY <1>12, CloseIsAtomic
<1> QED
  BY <1>1, <1>2, <1>3, <1>4, <1>5, <1>6, <1>7, <1>8, <1>9, <1>10, <1>11, <1>12 DEF Next

(* The three tools implement edits that happen at once where they were     *)
(* named, whatever calls overlap, except the standalone replacements that  *)
(* others' edits of the paragraph overtook between match and mutation      *)
(* (replaceText, insertParagraph, executeSteps).  The session has an       *)
(* author, and no two paragraphs of the file have one id.                  *)
THEOREM EditsAreAtomicHolds ==
  ASSUME Tracked, DistinctIds(File)
  PROVE  Spec => EditsAreAtomic
<1>1. Init => Looking /\ Atomic!Init
  BY InitIsAtomic DEF Atomic!Init, ShownViews
<1>2. Shape /\ Looking /\ [Next]_vars => Looking' /\ AtomicStep
  BY NextIsAtomic
<1>3. AtomicStep => [Atomic!Next]_<<[s \in DOMAIN sessions |-> View(sessions[s].doc)], missed>>
  BY DEF AtomicStep, ShownViews
<1> QED BY <1>1, <1>2, <1>3, SpecKeeps, PTL DEF Spec, EditsAreAtomic, Atomic!Spec

(***************************************************************************)
(* Rejecting: every session's document is the file with edits of AI, whose *)
(* ids are above those of the file                                         *)
(***************************************************************************)

AboveFile(n) == n = 0 \/ n >= FreshId(File)
Later == {e \in All : e.kind = "link" \/ e.by # AI \/ e.id >= FreshId(File)}
OverFile(d) == d \in Documents(Later) /\ Over(d, File, AI)

(* So is every counter, and every seed that is on its way. *)
Restorable(s) == OverFile(s.doc) /\ AboveFile(s.next) /\ AboveFile(s.scan)
Restoring ==
  /\ \A s \in DOMAIN sessions : Restorable(sessions[s])
  /\ \A c \in Callers : calls[c].pc = "scan" => AboveFile(calls[c].seed)

(* A fresh id is the first one, or follows one that is used.               *)
LEMMA FreshIdFollows ==
  ASSUME NEW d \in Documents(All)
  PROVE  FreshId(d) = 1 \/ \E r \in Revisions(d) : FreshId(d) = r.id + 1
<1> DEFINE ids == Ids(Revisions(d))
<1>1. CASE Revisions(d) = {}
  BY <1>1 DEF FreshId
<1>2. CASE Revisions(d) # {}
  <2>1. Revisions(d) \subseteq {e \in All : e.kind # "link"}
    BY RevisionsAreIn
  <2>2. ids \in SUBSET Nat /\ ids # {}
    BY <1>2, <2>1 DEF Ids, All, Markup
  <2>3. IsFiniteSet(ids)
    <3>1. IsFiniteSet(Revisions(d))
      BY RevisionsAreFinite
    <3> DEFINE f == [r \in Revisions(d) |-> r.id]
    <3>2. f \in Surjection(Revisions(d), ids)
      BY DEF Surjection, Ids
    <3> QED BY <3>1, <3>2, FS_Surjection
  <2> HIDE DEF ids
  <2>4. PICK m \in ids : \A n \in ids : n <= m
    BY <2>2, <2>3, GreatestNatural
  <2>5. Max(ids) \in ids
    BY <2>2, <2>4 DEF Max
  <2>6. PICK r \in Revisions(d) : r.id = Max(ids)
    BY <2>5 DEF ids, Ids
  <2>7. FreshId(d) = Max(ids) + 1
    BY <1>2 DEF FreshId, ids
  <2> QED BY <2>6, <2>7
<1> QED BY <1>1, <1>2

(* The file's fresh id is a natural number, and no later one is below it.  *)
LEMMA FreshGrows ==
  ASSUME NEW d, OverFile(d)
  PROVE  /\ FreshId(File) \in Nat /\ FreshId(File) # 0
         /\ FreshId(d) \in Nat /\ FreshId(d) >= FreshId(File)
<1>1. File \in Documents(All)
  BY FileAssumption DEF All
<1>2. d \in Documents(All)
  <2> DEFINE E == All
             F == Later
  <2>1. F \subseteq E
    BY DEF Later
  <2>2. d \in Documents(F)
    BY DEF OverFile
  <2> HIDE DEF E, F
  <2>3. d \in Documents(E)
    BY <2>1, <2>2, DocumentsGrow
  <2> QED BY <2>3 DEF E
<1>3. FreshId(File) \in Nat /\ FreshId(File) # 0
  BY <1>1, FreshIdIsFresh
<1>4. FreshId(d) \in Nat /\ FreshId(d) # 0 /\ d \in Documents(Below(FreshId(d)))
  BY <1>2, FreshIdIsFresh
<1>5. CASE FreshId(File) = 1
  BY <1>3, <1>4, <1>5
<1>6. ASSUME NEW r \in Revisions(File), FreshId(File) = r.id + 1 PROVE FreshId(d) >= FreshId(File)
  <2>1. r \in Revisions(d)
    BY <1>1, <1>2, OverHolds DEF OverFile
  <2>2. r \in Below(FreshId(d)) /\ r.kind # "link"
    <3> DEFINE E == Below(FreshId(d))
    <3>1. d \in Documents(E)
      BY <1>4
    <3> HIDE DEF E
    <3>2. r \in E /\ r.kind # "link"
      BY <2>1, <3>1, RevisionsAreIn
    <3> QED BY <3>2 DEF E
  <2>3. r.id \in Nat /\ r.id < FreshId(d)
    BY <2>2 DEF Below, All, Markup
  <2> QED BY <1>4, <1>6, <2>3
<1>7. FreshId(File) = 1 \/ \E r \in Revisions(File) : FreshId(File) = r.id + 1
  BY <1>1, FreshIdFollows
<1> QED BY <1>3, <1>4, <1>5, <1>6, <1>7

(* What is given from a later id on is later. *)
LEMMA GivenIsLater ==
  ASSUME NEW m \in Nat, NEW n \in Nat, m >= FreshId(File)
  PROVE  Given(AI, m, n) \subseteq Later
<1>1. FreshId(File) \in Nat
  <2>1. File \in Documents(All)
    BY FileAssumption DEF All
  <2> QED BY <2>1, FreshIdIsFresh
<1>2. Given(AI, m, n) \subseteq All
  BY NamedSets, GivenIsBelow
<1>3. ASSUME NEW e \in Given(AI, m, n) PROVE e.id >= FreshId(File)
  <2>1. PICK id \in m..(n - 1), kind \in {"ins", "del"} : e = Element(kind, AI, id)
    BY DEF Given
  <2>2. e.id = id /\ id \in Nat /\ id >= m
    BY <2>1 DEF Element
  <2> QED BY <1>1, <2>2
<1> QED BY <1>2, <1>3 DEF Later

(* A tracked edit leaves a document over the file. *)
LEMMA AppliedOver ==
  ASSUME Tracked, NEW d, OverFile(d), NEW next \in Nat, next >= FreshId(File),
         NEW step \in StepRecords, NEW t, Applies(d, step, t),
         step.op = "replace" => t.s \in Nat /\ t.e \in Nat /\ t.new \in Seq(Tokens)
  PROVE  LET r == Applied(d, next, step, t)
         IN OverFile(r.doc) /\ r.next \in Nat /\ next <= r.next
<1> DEFINE j == IndexOf(d, step.pid)
           r == Applied(d, next, step, t)
           E == Later
<1>1. d \in Documents(E) /\ Over(d, File, AI)
  BY DEF OverFile
<1>2. r.next \in Nat /\ next <= r.next /\ r.doc \in Documents(E \cup Given(AI, next, r.next))
  <2> HIDE DEF E
  <2> QED BY <1>1, AppliedAdds
<1>3. E \cup Given(AI, next, r.next) = E
  BY <1>2, GivenIsLater
<1>4. r.doc \in Documents(E)
  BY <1>2, <1>3
<1> DEFINE D == Markup(Authors)
<1>5. File \in Documents(D)
  BY FileAssumption
<1>6. j \in DOMAIN d
  BY IndexIsThere DEF Applies
<1> HIDE DEF E, D
<1>7. CASE step.op = "replace"
  <2> DEFINE q == TrackedReplace(d[j], t.s, t.e, t.new, AI, next)
  <2>1. r = [doc |-> [d EXCEPT ![j] = q.p], next |-> q.next]
    BY <1>7 DEF Applied
  <2>2. ~Refused(d[j], t.s, t.e)
    BY <1>7 DEF Applies, Paragraph
  <2> HIDE DEF j, r
  <2>3. Over([d EXCEPT ![j] = q.p], File, AI)
    BY <1>1, <1>5, <1>6, <1>7, <2>2, ReplacedOver
  <2> HIDE DEF q
  <2>4. r.doc = [d EXCEPT ![j] = q.p]
    BY <2>1
  <2>5. Over(r.doc, File, AI)
    BY <2>3, <2>4
  <2> QED BY <1>2, <1>4, <2>5 DEF OverFile, r, E
<1>8. CASE step.op = "insert"
  <2> DEFINE doc == TrackedInsert(d, j, step.pos, FreshPid(d), step.new, AI, next)
  <2>1. r = [doc |-> doc, next |-> next + 2]
    BY <1>8 DEF Applied
  <2>2. FreshPid(d) \in Nat /\ step.new \in Seq(Tokens)
    BY <1>1, <1>6, FreshPidIsNat, StepIs
  <2> HIDE DEF j, r
  <2>3. Over(doc, File, AI)
    BY <1>1, <1>5, <1>6, <2>2, InsertedOver
  <2> HIDE DEF doc
  <2>4. r.doc = doc
    BY <2>1
  <2>5. Over(r.doc, File, AI)
    BY <2>3, <2>4
  <2> QED BY <1>2, <1>4, <2>5 DEF OverFile, r, E
<1> QED BY <1>7, <1>8, StepIs

(* A session that opens has the file itself. *)
LEMMA NewSessionRestores ==
  ASSUME \A r \in Revisions(File) : r.by # AI
  PROVE  Restorable(NewSession)
<1> DEFINE E == All
           F == Later
<1>1. File \in Documents(E)
  BY FileAssumption DEF All
<1>2. \A e \in E : e.kind = "link" \/ e \in Revisions(File) => e \in F
  BY DEF Later
<1> HIDE DEF E, F
<1>3. File \in Documents(F) /\ Over(File, File, AI)
  BY <1>1, <1>2, HoldsItsRevisions, OverItself
<1>4. OverFile(File)
  BY <1>3 DEF OverFile, F
<1> QED BY <1>4 DEF NewSession, Restorable, AboveFile

(* Rejecting the revisions of AI leaves the file.                          *)
LEMMA RestorableIsRestored ==
  ASSUME NEW d, OverFile(d), DistinctIds(d), \A r \in Revisions(File) : r.by # AI
  PROVE  Reject(d, ByAuthor(d, AI)) = File
<1> DEFINE E == Later
           D == All
           sel == ByAuthor(d, AI)
<1>1. d \in Documents(E) /\ Over(d, File, AI)
  BY DEF OverFile
<1>2. File \in Documents(D)
  BY FileAssumption DEF All
<1>3. Selects(Revisions(d), AI, sel)
  BY DEF Selects, ByAuthor, Ids
<1>4. Spares(Revisions(File), sel)
  <2> SUFFICES ASSUME NEW r \in Revisions(File), r.kind # "link", r.id \in sel
               PROVE  FALSE
    BY DEF Spares
  <2>1. PICK q \in Revisions(d) : q.by = AI /\ q.id = r.id
    BY DEF ByAuthor, Ids
  <2>2. q \in E /\ q.kind # "link"
    <3> HIDE DEF E
    <3> QED BY <1>1, RevisionsAreIn
  <2>3. q.id >= FreshId(File)
    BY <2>1, <2>2 DEF Later
  <2>4. FreshId(File) \in Nat /\ File \in Documents(Below(FreshId(File)))
    BY <1>2, FreshIdIsFresh
  <2>5. r \in Below(FreshId(File))
    <3> DEFINE B == Below(FreshId(File))
    <3>1. File \in Documents(B)
      BY <2>4
    <3> HIDE DEF B
    <3>2. r \in B
      BY <3>1, RevisionsAreIn
    <3> QED BY <3>2 DEF B
  <2>6. r.id \in Nat /\ r.id < FreshId(File)
    BY <2>5 DEF Below, All, Markup
  <2> QED BY <2>1, <2>3, <2>4, <2>6
<1> HIDE DEF E, D, sel
<1>5. Reject(d, sel) = File
  BY <1>1, <1>2, <1>3, <1>4, RejectingRestores
<1> QED BY <1>5 DEF sel

(* Only a call that starts a scan waits for a seed it did not wait for.    *)
LEMMA ScansOn ==
  ASSUME Shape, Restoring, NEW c \in Callers, Moves(c),
         calls'[c].pc = "scan" => AboveFile(calls'[c].seed)
  PROVE  \A x \in Callers : calls'[x].pc = "scan" => AboveFile(calls'[x].seed)
<1> SUFFICES ASSUME NEW x \in Callers \ {c}, calls'[x].pc = "scan" PROVE AboveFile(calls'[x].seed)
  OBVIOUS
<1>1. IsCall(calls[x]) /\ Moved(calls[x], calls'[x])
  BY DEF Shape, Moves
<1>2. calls'[x].pc = calls[x].pc /\ calls'[x].seed = calls[x].seed
  BY <1>1, MovedIsCall
<1> QED BY <1>2 DEF Restoring

(* Opening the file leaves every session restorable. *)
LEMMA OpeningRestores ==
  ASSUME Shape, Restoring, \A r \in Revisions(File) : r.by # AI,
         UNCHANGED sessions \/ sessions' = Opened
  PROVE  \A s \in DOMAIN sessions' : Restorable(sessions'[s])
<1>1. CASE UNCHANGED sessions \/ current # 0
  <2>1. UNCHANGED sessions
    BY <1>1 DEF Opened
  <2> QED BY <2>1 DEF Restoring
<1>2. CASE sessions' = Opened /\ current = 0
  <2> DEFINE n == Len(sessions)
  <2>1. sessions \in Seq(Sessions) /\ NewSession \in Sessions
          /\ sessions' = Append(sessions, NewSession)
    BY <1>2, NewSessionIsAhead DEF Opened, Shape
  <2>2. DOMAIN sessions = 1..n /\ n \in Nat
    BY <2>1, LenProperties
  <2>3. /\ sessions' \in Seq(Sessions) /\ Len(sessions') = n + 1
        /\ \A s \in 1..n : sessions'[s] = sessions[s]
        /\ sessions'[n + 1] = NewSession
    BY <2>1, AppendProperties
  <2>4. DOMAIN sessions' = 1..(n + 1)
    BY <2>3, LenProperties
  <2> HIDE DEF n
  <2>5. ASSUME NEW s \in DOMAIN sessions' PROVE Restorable(sessions'[s])
    <3>1. CASE s = n + 1
      BY <2>3, <3>1, NewSessionRestores
    <3>2. CASE s # n + 1
      <4>1. s \in 1..n
        BY <2>2, <2>4, <3>2
      <4> QED BY <2>2, <2>3, <4>1 DEF Restoring
    <3> QED BY <3>1, <3>2
  <2> QED BY <2>5
<1> QED BY <1>1, <1>2

(* Calls that only look, wait or resolve. *)
LEMMA QuietRestores ==
  ASSUME Shape, Restoring, \A r \in Revisions(File) : r.by # AI, NEW c \in Callers, NEW y,
         calls' = [calls EXCEPT ![c] = y], y.pc # "scan",
         UNCHANGED sessions \/ sessions' = Opened
  PROVE  Restoring'
<1>1. Moves(c) /\ calls'[c] = y
  BY OneCall
<1>2. \A x \in Callers : calls'[x].pc = "scan" => AboveFile(calls'[x].seed)
  BY <1>1, ScansOn
<1> QED BY <1>2, OpeningRestores DEF Restoring

(* A changed session that is restorable. *)
LEMMA OneRestores ==
  ASSUME Shape, Restoring, NEW h \in DOMAIN sessions, NEW z, sessions' = [sessions EXCEPT ![h] = z],
         Restorable(z)
  PROVE  \A s \in DOMAIN sessions' : Restorable(sessions'[s])
<1>1. DOMAIN sessions' = DOMAIN sessions /\ sessions'[h] = z
      /\ \A s \in DOMAIN sessions \ {h} : sessions'[s] = sessions[s]
  OBVIOUS
<1> QED BY <1>1 DEF Restoring

(* The actions that change no session that was there. *)
LEMMA LookingRestores ==
  ASSUME Shape, Restoring, \A r \in Revisions(File) : r.by # AI, NEW c \in Callers,
         \/ \E r \in Requests : Begin(c, r)
         \/ GetSession(c) \/ HaveContext(c) \/ Match(c) \/ Validate(c) \/ Preview(c) \/ StepSession(c)
  PROVE  Restoring'
<1> DEFINE x == calls[c]
<1>1. IsCall(x) /\ DOMAIN calls = Callers
  BY DEF Shape
<1>2. ASSUME NEW r \in Requests, Begin(c, r) PROVE Restoring'
  <2> DEFINE y == [Idle EXCEPT !.pc = "resolve", !.req = r]
  <2>1. calls' = [calls EXCEPT ![c] = y] /\ UNCHANGED sessions
    BY <1>2 DEF Begin
  <2>2. y.pc = "resolve"
    BY DEF Idle
  <2> HIDE DEF y
  <2>3. y.pc # "scan"
    BY <2>2
  <2> QED BY <2>1, <2>3, QuietRestores
<1>3. CASE GetSession(c)
  <2> DEFINE to == IF x.req.batch THEN "validate" ELSE IF Tracked THEN "context" ELSE "match"
             y == [x EXCEPT !.home = OpenAt, !.pc = to]
  <2>1. calls' = [calls EXCEPT ![c] = y] /\ sessions' = Opened
    BY <1>1, <1>3 DEF GetSession
  <2>2. y.pc = to
    BY <1>1 DEF IsCall, CallsWith
  <2> HIDE DEF y
  <2>3. y.pc # "scan"
    BY <2>2
  <2> QED BY <2>1, <2>3, QuietRestores
<1>4. CASE HaveContext(c)
  <2> DEFINE y == [x EXCEPT !.pc = AfterContext(c)]
  <2>1. calls' = [calls EXCEPT ![c] = y] /\ UNCHANGED sessions
    BY <1>1, <1>4 DEF HaveContext
  <2>2. y.pc = AfterContext(c)
    BY <1>1 DEF IsCall, CallsWith
  <2> HIDE DEF y
  <2>3. y.pc # "scan"
    BY <2>2 DEF AfterContext
  <2> QED BY <2>1, <2>3, QuietRestores
<1> DEFINE refused == [x EXCEPT !.pc = "idle", !.out = "refused"]
<1>5. ASSUME calls' = [calls EXCEPT ![c] = refused], UNCHANGED sessions PROVE Restoring'
  <2>1. refused.pc = "idle"
    BY <1>1 DEF IsCall, CallsWith
  <2> HIDE DEF refused
  <2>2. refused.pc # "scan"
    BY <2>1
  <2> QED BY <1>5, <2>2, QuietRestores
<1>6. CASE Match(c)
  <2> DEFINE y == [x EXCEPT !.range = Found(Doc(c), OnlyStep(c)), !.moved = Apart(c),
                            !.pc = IF Tracked THEN "preview" ELSE "mutate"]
  <2>1. UNCHANGED sessions /\ calls' \in {[calls EXCEPT ![c] = refused], [calls EXCEPT ![c] = y]}
    BY <1>1, <1>6 DEF Match, Answer
  <2>2. y.pc = (IF Tracked THEN "preview" ELSE "mutate")
    BY <1>1 DEF IsCall, CallsWith
  <2> HIDE DEF y
  <2>3. y.pc # "scan"
    BY <2>2
  <2>4. calls' = [calls EXCEPT ![c] = y] => Restoring'
    BY <2>1, <2>3, QuietRestores
  <2> QED BY <1>5, <2>1, <2>4
<1>7. CASE Validate(c)
  <2> DEFINE y == [x EXCEPT !.moved = Apart(c), !.goal = Goal(Doc(c), x.req.steps),
                            !.pc = IF Tracked THEN "context" ELSE "steps"]
  <2>1. UNCHANGED sessions /\ calls' \in {[calls EXCEPT ![c] = refused], [calls EXCEPT ![c] = y]}
    BY <1>1, <1>7 DEF Validate, Answer
  <2>2. y.pc = (IF Tracked THEN "context" ELSE "steps")
    BY <1>1 DEF IsCall, CallsWith
  <2> HIDE DEF y
  <2>3. y.pc # "scan"
    BY <2>2
  <2>4. calls' = [calls EXCEPT ![c] = y] => Restoring'
    BY <2>1, <2>3, QuietRestores
  <2> QED BY <1>5, <2>1, <2>4
<1>8. CASE Preview(c)
  <2> DEFINE y == [x EXCEPT !.pc = IF x.req.batch THEN "steps" ELSE "mutate"]
  <2>1. UNCHANGED sessions /\ calls' \in {[calls EXCEPT ![c] = refused], [calls EXCEPT ![c] = y]}
    BY <1>1, <1>8 DEF Preview, Answer
  <2>2. y.pc = (IF x.req.batch THEN "steps" ELSE "mutate")
    BY <1>1 DEF IsCall, CallsWith
  <2> HIDE DEF y
  <2>3. y.pc # "scan"
    BY <2>2
  <2>4. calls' = [calls EXCEPT ![c] = y] => Restoring'
    BY <2>1, <2>3, QuietRestores
  <2> QED BY <1>5, <2>1, <2>4
<1>9. CASE StepSession(c)
  <2> DEFINE y == [x EXCEPT !.pc = "step", !.at = OpenAt]
  <2>1. calls' = [calls EXCEPT ![c] = y] /\ sessions' = Opened
    BY <1>1, <1>9 DEF StepSession
  <2>2. y.pc = "step"
    BY <1>1 DEF IsCall, CallsWith
  <2> HIDE DEF y
  <2>3. y.pc # "scan"
    BY <2>2
  <2> QED BY <2>1, <2>3, QuietRestores
<1> QED BY <1>2, <1>3, <1>4, <1>6, <1>7, <1>8, <1>9

(* A scan gives an id above those of the file. *)
LEMMA ScanRestores ==
  ASSUME Shape, Restoring, NEW c \in Callers, StartScan(c) \/ EndScan(c)
  PROVE  Restoring'
<1> DEFINE x == calls[c]
           h == x.home
           s == sessions[h]
<1>1. IsCall(x) /\ Placed(x, sessions) /\ DOMAIN calls = Callers
  BY DEF Shape
<1>2. h \in DOMAIN sessions
  BY <1>1 DEF Placed, StartScan, EndScan
<1>3. s \in Sessions /\ Restorable(s)
  BY <1>2, LenProperties, ElementOfSeq DEF Shape, Restoring
<1>4. CASE StartScan(c)
  <2> DEFINE seed == IF s.scan # 0 THEN s.scan ELSE FreshId(s.doc)
             y == [x EXCEPT !.pc = "scan", !.seed = seed]
             z == [s EXCEPT !.scan = seed]
  <2>1. sessions' = [sessions EXCEPT ![h] = z] /\ calls' = [calls EXCEPT ![c] = y]
    BY <1>1, <1>2, <1>4 DEF StartScan
  <2>2. AboveFile(seed)
    <3> HIDE DEF s
    <3> QED BY <1>3, FreshGrows DEF Restorable, AboveFile
  <2>3. z.doc = s.doc /\ z.next = s.next /\ z.scan = seed
    <3> HIDE DEF seed, s
    <3> QED BY <1>3 DEF Sessions
  <2>4. y.seed = seed
    <3> HIDE DEF seed
    <3> QED BY <1>1 DEF IsCall, CallsWith
  <2> HIDE DEF y, z, seed
  <2>5. Restorable(z)
    BY <1>3, <2>2, <2>3 DEF Restorable
  <2>6. \A i \in DOMAIN sessions' : Restorable(sessions'[i])
    BY <1>2, <2>1, <2>5, OneRestores
  <2>7. Moves(c) /\ calls'[c] = y
    BY <2>1, OneCall
  <2>8. \A i \in Callers : calls'[i].pc = "scan" => AboveFile(calls'[i].seed)
    BY <2>2, <2>4, <2>7, ScansOn
  <2> QED BY <2>6, <2>8 DEF Restoring
<1>5. CASE EndScan(c)
  <2> DEFINE y == [x EXCEPT !.pc = AfterContext(c)]
             z == [s EXCEPT !.next = Seeded(@, x.seed), !.scan = 0]
  <2>1. sessions' = [sessions EXCEPT ![h] = z] /\ calls' = [calls EXCEPT ![c] = y]
    BY <1>1, <1>2, <1>5 DEF EndScan
  <2>2. AboveFile(x.seed)
    BY <1>5 DEF EndScan, Restoring
  <2>3. z.doc = s.doc /\ z.next = Seeded(s.next, x.seed) /\ z.scan = 0
    <3> HIDE DEF x, s
    <3> QED BY <1>3 DEF Sessions
  <2>4. y.pc = AfterContext(c)
    BY <1>1 DEF IsCall, CallsWith
  <2> HIDE DEF y, z, x, s
  <2>5. Restorable(z)
    BY <1>3, <2>2, <2>3 DEF Restorable, AboveFile, Seeded
  <2>6. \A i \in DOMAIN sessions' : Restorable(sessions'[i])
    BY <1>2, <2>1, <2>5, OneRestores
  <2>7. Moves(c) /\ calls'[c] = y
    BY <2>1, OneCall
  <2>8. calls'[c].pc # "scan"
    BY <2>4, <2>7 DEF AfterContext
  <2>9. \A i \in Callers : calls'[i].pc = "scan" => AboveFile(calls'[i].seed)
    BY <2>7, <2>8, ScansOn
  <2> QED BY <2>6, <2>9 DEF Restoring
<1> QED BY <1>4, <1>5

(* A standalone edit: of a document over the file, with its counter.       *)
LEMMA MutateRestores ==
  ASSUME Tracked, Shape, Restoring, \A r \in Revisions(File) : r.by # AI, NEW c \in Callers, Mutate(c)
  PROVE  Restoring'
<1> DEFINE x == calls[c]
           h == x.home
           s == sessions[h]
           d == s.doc
           step == OnlyStep(c)
           t == Trimmed(step, x.range)
           r == Applied(d, s.next, step, t)
           y == [x EXCEPT !.pc = "idle", !.out = "ok"]
           refused == [x EXCEPT !.pc = "idle", !.out = "refused"]
           z == [s EXCEPT !.doc = r.doc, !.next = r.next]
<1>1. IsCall(x) /\ Placed(x, sessions) /\ DOMAIN calls = Callers /\ x.pc = "mutate"
  BY DEF Shape, Mutate
<1>2. CASE ~Applies(d, step, t)
  <2>1. calls' = [calls EXCEPT ![c] = refused] /\ UNCHANGED sessions
    BY <1>1, <1>2 DEF Mutate, Doc, Answer
  <2>2. refused.pc = "idle"
    BY <1>1 DEF IsCall, CallsWith
  <2> HIDE DEF refused
  <2>3. refused.pc # "scan"
    BY <2>2
  <2> QED BY <2>1, <2>3, QuietRestores
<1>3. CASE Applies(d, step, t)
  <2>1. x.req \in Requests /\ h \in DOMAIN sessions /\ ~x.req.batch /\ s.next # 0
        /\ RangeFits(x.req.steps[1], x.range)
    BY <1>1 DEF Placed
  <2>2. step \in StepRecords
    BY <2>1, RequestIs DEF OnlyStep
  <2>3. s \in Sessions /\ Restorable(s)
    BY <2>1, LenProperties, ElementOfSeq DEF Shape, Restoring
  <2>4. x.range \in Nat \X Nat
    BY <1>1 DEF IsCall, CallsWith
  <2>5. step.op = "replace" => t.s \in Nat /\ t.e \in Nat /\ t.new \in Seq(Tokens)
    <3>1. RangeFits(step, x.range)
      BY <2>1 DEF OnlyStep
    <3> HIDE DEF step, x
    <3> QED BY <2>2, <2>4, <3>1, TrimmedInside
  <2>6. PICK n \in Nat : n = s.next /\ n >= FreshId(File)
    BY <2>1, <2>3 DEF Sessions, Restorable, AboveFile
  <2>7. OverFile(r.doc) /\ r.next \in Nat /\ n <= r.next
    <3>1. OverFile(d) /\ r = Applied(d, n, step, t)
      BY <2>3, <2>6 DEF Restorable
    <3> HIDE DEF d, step, t, r
    <3> QED BY <1>3, <2>2, <2>5, <2>6, <3>1, AppliedOver
  <2>8. sessions' = [sessions EXCEPT ![h] = z]
    <3>1. sessions' = [sessions EXCEPT ![h].doc = r.doc, ![h].next = r.next]
      BY <1>3 DEF Mutate, Doc
    <3> HIDE DEF r
    <3> QED BY <2>1, <3>1
  <2>9. z.doc = r.doc /\ z.next = r.next /\ z.scan = s.scan
    <3> HIDE DEF r, s
    <3> QED BY <2>3 DEF Sessions
  <2>10. calls' = Noted([calls EXCEPT ![c] = y], c, h, Touched(d, step))
    <3>1. Answer(c, "ok") = [calls EXCEPT ![c] = y]
      BY <1>1 DEF Answer
    <3> QED BY <1>3, <3>1 DEF Mutate, Doc
  <2>11. y.pc = "idle"
    BY <1>1 DEF IsCall, CallsWith
  <2> HIDE DEF y, z, r
  <2>12. Restorable(z)
    <3>1. AboveFile(z.next)
      <4>1. FreshId(File) \in Nat
        BY <2>7, FreshGrows
      <4> QED BY <2>6, <2>7, <2>9, <4>1 DEF AboveFile
    <3> QED BY <2>3, <2>7, <2>9, <3>1 DEF Restorable
  <2>13. \A i \in DOMAIN sessions' : Restorable(sessions'[i])
    BY <2>1, <2>8, <2>12, OneRestores
  <2>14. Moves(c) /\ calls'[c] = y
    BY <2>10, NotedMoves
  <2>15. \A i \in Callers : calls'[i].pc = "scan" => AboveFile(calls'[i].seed)
    BY <2>11, <2>14, ScansOn
  <2> QED BY <2>13, <2>15 DEF Restoring
<1> QED BY <1>2, <1>3

(* A batch step lends a counter that is above the file, to a document over *)
(* it: also where the two are of different sessions.                       *)
LEMMA LentRestores ==
  ASSUME Shape, Restoring, NEW h \in DOMAIN sessions, NEW a \in DOMAIN sessions, NEW n, NEW e, NEW b,
         AboveFile(n), OverFile(e),
         sessions' = [sessions EXCEPT ![h].next = n, ![a].doc = e, ![a].crossed = b]
  PROVE  \A i \in DOMAIN sessions' : Restorable(sessions'[i])
<1>1. PICK g, s : /\ g = sessions[h] /\ s = sessions[a] /\ g \in Sessions /\ s \in Sessions
                  /\ Restorable(g) /\ Restorable(s)
  BY LenProperties, ElementOfSeq DEF Shape, Restoring
<1>2. CASE a = h
  <2> DEFINE z == [s EXCEPT !.next = n, !.doc = e, !.crossed = b]
  <2>1. sessions' = [sessions EXCEPT ![a] = z]
    BY <1>1, <1>2
  <2>2. z.doc = e /\ z.next = n /\ z.scan = s.scan
    BY <1>1 DEF Sessions
  <2> HIDE DEF z
  <2>3. Restorable(z)
    BY <1>1, <2>2 DEF Restorable
  <2> QED BY <2>1, <2>3, OneRestores
<1>3. CASE a # h
  <2> DEFINE w == [g EXCEPT !.next = n]
             z == [s EXCEPT !.doc = e, !.crossed = b]
  <2>1. /\ DOMAIN sessions' = DOMAIN sessions
        /\ sessions'[h] = w /\ sessions'[a] = z
        /\ \A i \in DOMAIN sessions \ {a, h} : sessions'[i] = sessions[i]
    BY <1>1, <1>3
  <2>2. w.doc = g.doc /\ w.next = n /\ w.scan = g.scan
    BY <1>1 DEF Sessions
  <2>3. z.doc = e /\ z.next = s.next /\ z.scan = s.scan
    BY <1>1 DEF Sessions
  <2> HIDE DEF w, z
  <2>4. Restorable(w)
    BY <1>1, <2>2 DEF Restorable
  <2>5. Restorable(z)
    BY <1>1, <2>3 DEF Restorable
  <2> QED BY <2>1, <2>4, <2>5 DEF Restoring
<1> QED BY <1>2, <1>3

(* A batch step. *)
LEMMA StepRestores ==
  ASSUME Tracked, Shape, Restoring, \A r \in Revisions(File) : r.by # AI, NEW c \in Callers, Step(c)
  PROVE  Restoring'
<1> DEFINE x == calls[c]
           h == x.home
           a == x.at
           d == sessions[a].doc
           step == x.req.steps[x.done + 1]
           t == Trimmed(step, Found(d, step))
           r == Applied(d, sessions[h].next, step, t)
           last == x.done + 1 = Len(x.req.steps)
           y == IF last THEN [x EXCEPT !.pc = "idle", !.out = "ok", !.done = @ + 1]
                ELSE [x EXCEPT !.pc = "steps", !.done = @ + 1]
           partial == [x EXCEPT !.pc = "idle", !.out = "partial"]
<1>1. IsCall(x) /\ Placed(x, sessions) /\ DOMAIN calls = Callers /\ x.pc = "step"
  BY DEF Shape, Step
<1>2. CASE ~(Finds(d, step) /\ Applies(d, step, t))
  <2>1. calls' = [calls EXCEPT ![c] = partial] /\ UNCHANGED sessions
    BY <1>1, <1>2 DEF Step, Answer
  <2>2. partial.pc = "idle"
    BY <1>1 DEF IsCall, CallsWith
  <2> HIDE DEF partial
  <2>3. partial.pc # "scan"
    BY <2>2
  <2> QED BY <2>1, <2>3, QuietRestores
<1>3. CASE Finds(d, step) /\ Applies(d, step, t)
  <2>1. x.req \in Requests /\ h \in DOMAIN sessions /\ a \in DOMAIN sessions
        /\ x.done < Len(x.req.steps) /\ sessions[h].next # 0
    BY <1>1 DEF Placed
  <2>2. step \in StepRecords
    <3>1. x.done + 1 \in 1..Len(x.req.steps)
      BY <1>1, <2>1, RequestIs DEF IsCall, CallsWith
    <3> QED BY <2>1, <3>1, RequestIs
  <2>3. d \in Documents(All) /\ sessions[h].next \in Nat
    BY <2>1, SessionDoc
  <2>4. Found(d, step) \in Nat \X Nat /\ RangeFits(step, Found(d, step))
    <3> HIDE DEF d, step
    <3> QED BY <1>3, <2>2, <2>3, FoundInside
  <2>5. step.op = "replace" => t.s \in Nat /\ t.e \in Nat /\ t.new \in Seq(Tokens)
    <3> HIDE DEF d, step
    <3> QED BY <2>2, <2>4, TrimmedInside
  <2>6. PICK n \in Nat : n = sessions[h].next /\ n >= FreshId(File)
    BY <2>1, <2>3 DEF Restoring, Restorable, AboveFile
  <2>7. OverFile(r.doc) /\ r.next \in Nat /\ n <= r.next
    <3>1. OverFile(d) /\ r = Applied(d, n, step, t)
      BY <2>1, <2>6 DEF Restoring, Restorable
    <3> HIDE DEF d, step, t, r
    <3> QED BY <1>3, <2>2, <2>5, <2>6, <3>1, AppliedOver
  <2>8. AboveFile(r.next)
    <3>1. FreshId(File) \in Nat
      BY <2>7, FreshGrows
    <3> HIDE DEF r
    <3> QED BY <2>6, <2>7, <3>1 DEF AboveFile
  <2>9. \A i \in DOMAIN sessions' : Restorable(sessions'[i])
    <3>1. PICK b : b = (sessions[a].crossed \/ a # h)
      OBVIOUS
    <3>2. sessions' = [sessions EXCEPT ![h].next = r.next, ![a].doc = r.doc,
                                       ![a].crossed = @ \/ a # h]
      BY <1>3 DEF Step
    <3>3. sessions' = [sessions EXCEPT ![h].next = r.next, ![a].doc = r.doc, ![a].crossed = b]
      <4> HIDE DEF r, h, a
      <4>1. CASE a = h
        BY <2>1, <3>1, <3>2, <4>1
      <4>2. CASE a # h
        BY <2>1, <3>1, <3>2, <4>2
      <4> QED BY <4>1, <4>2
    <3> HIDE DEF r, h, a
    <3> QED BY <2>1, <2>7, <2>8, <3>3, LentRestores
  <2>10. calls' = Noted([calls EXCEPT ![c] = y], c, a, Touched(d, step))
    <3>1. CASE last
      <4>1. [Answer(c, "ok") EXCEPT ![c].done = @ + 1] = [calls EXCEPT ![c] = y]
        BY <1>1, <3>1 DEF Answer
      <4>2. calls' = Noted([Answer(c, "ok") EXCEPT ![c].done = @ + 1], c, a, Touched(d, step))
        BY <1>3, <3>1 DEF Step
      <4> QED BY <4>1, <4>2
    <3>2. CASE ~last
      <4>1. [[calls EXCEPT ![c].pc = "steps"] EXCEPT ![c].done = @ + 1] = [calls EXCEPT ![c] = y]
        BY <1>1, <3>2
      <4>2. calls' = Noted([[calls EXCEPT ![c].pc = "steps"] EXCEPT ![c].done = @ + 1],
                           c, a, Touched(d, step))
        BY <1>3, <3>2 DEF Step
      <4> QED BY <4>1, <4>2
    <3> QED BY <3>1, <3>2
  <2>11. y.pc # "scan"
    <3>1. PICK k : k = x.done + 1
      OBVIOUS
    <3>2. CASE last
      <4>1. y = [x EXCEPT !.pc = "idle", !.out = "ok", !.done = k]
        BY <3>1, <3>2
      <4> HIDE DEF x, y
      <4> QED BY <1>1, <4>1 DEF IsCall, CallsWith
    <3>3. CASE ~last
      <4>1. y = [x EXCEPT !.pc = "steps", !.done = k]
        BY <3>1, <3>3
      <4> HIDE DEF x, y
      <4> QED BY <1>1, <4>1 DEF IsCall, CallsWith
    <3> QED BY <3>2, <3>3
  <2> HIDE DEF y
  <2>12. Moves(c) /\ calls'[c] = y
    BY <2>10, NotedMoves
  <2>13. \A i \in Callers : calls'[i].pc = "scan" => AboveFile(calls'[i].seed)
    BY <2>11, <2>12, ScansOn
  <2> QED BY <2>9, <2>13 DEF Restoring
<1> QED BY <1>2, <1>3

(* A closed session keeps its document and its counter. *)
LEMMA CloseRestores ==
  ASSUME Shape, Restoring, CloseFile
  PROVE  Restoring'
<1>1. UNCHANGED sessions /\ DOMAIN calls' = Callers
  BY DEF CloseFile
<1>2. ASSUME NEW x \in Callers, calls'[x].pc = "scan" PROVE AboveFile(calls'[x].seed)
  <2>1. IsCall(calls[x])
    BY DEF Shape
  <2>2. calls'[x] = [calls[x] EXCEPT !.moved = @ \cup {0}] \/ calls'[x] = calls[x]
    BY DEF CloseFile
  <2>3. Moved(calls[x], calls'[x])
    BY <2>1, <2>2, MovedNot DEF Moved
  <2>4. calls'[x].pc = calls[x].pc /\ calls'[x].seed = calls[x].seed
    BY <2>1, <2>3, MovedIsCall
  <2> QED BY <1>2, <2>4 DEF Restoring
<1> QED BY <1>1, <1>2 DEF Restoring

(* Every step leaves every session restorable. *)
LEMMA NextRestores ==
  ASSUME Tracked, \A r \in Revisions(File) : r.by # AI, Shape, Restoring, [Next]_vars
  PROVE  Restoring'
<1>1. CASE UNCHANGED vars
  <2>1. sessions' = sessions /\ calls' = calls
    BY <1>1 DEF vars
  <2> QED BY <2>1 DEF Restoring
<1>2. ASSUME NEW c \in Callers,
             \/ \E r \in Requests : Begin(c, r)
             \/ GetSession(c) \/ HaveContext(c) \/ Match(c) \/ Validate(c) \/ Preview(c)
             \/ StepSession(c)
      PROVE  Restoring'
  BY <1>2, LookingRestores
<1>3. ASSUME NEW c \in Callers, StartScan(c) \/ EndScan(c) PROVE Restoring'
  BY <1>3, ScanRestores
<1>4. ASSUME NEW c \in Callers, Mutate(c) PROVE Restoring'
  BY <1>4, MutateRestores
<1>5. ASSUME NEW c \in Callers, Step(c) PROVE Restoring'
  BY <1>5, StepRestores
<1>6. CASE CloseFile
  BY <1>6, CloseRestores
<1> QED BY <1>1, <1>2, <1>3, <1>4, <1>5, <1>6 DEF Next

(* Whatever calls overlap, and wherever a late edit lands, rejecting the   *)
(* revisions of the session's author gives the file, in every session of   *)
(* it (replaceText, insertParagraph, executeSteps; rejectChanges).  No two *)
(* paragraphs of the file have one id, and no revision in it is by that    *)
(* author: rejecting would take it away as well.                           *)
THEOREM RejectGivesTheFileHolds ==
  ASSUME DistinctIds(File), \A r \in Revisions(File) : r.by # AI
  PROVE  Spec => []RejectGivesTheFile
<1>1. CASE ~Tracked
  <2>1. RejectGivesTheFile
    BY <1>1 DEF RejectGivesTheFile
  <2> QED BY <2>1, PTL
<1>2. CASE Tracked
  <2>1. Init => Looking /\ Restoring
    <3> SUFFICES ASSUME Init PROVE Looking /\ Restoring
      OBVIOUS
    <3>1. sessions = <<>> /\ DOMAIN sessions = {} /\ calls = [c \in Callers |-> Idle]
      BY EmptySeq DEF Init
    <3>2. Restoring
      BY <3>1 DEF Restoring, Idle
    <3> QED BY <3>2, InitIsAtomic
  <2>2. Shape /\ Looking /\ Restoring /\ [Next]_vars => Looking' /\ Restoring'
    BY <1>2, NextIsAtomic, NextRestores
  <2>3. Looking /\ Restoring => RejectGivesTheFile
    BY RestorableIsRestored DEF Looking, Restoring, Restorable, RejectGivesTheFile
  <2> QED BY <2>1, <2>2, <2>3, SpecKeeps, PTL DEF Spec
<1> QED BY <1>1, <1>2

(***************************************************************************)
(* A batch: every step finds its text where the steps before it moved it   *)
(***************************************************************************)

(* The recursive functions of a batch follow their rules: they exist.      *)
IsSubstituted(u, d, steps, n, pid) ==
  /\ u[0] = <<>>
  /\ \A k \in 1..Len(TextOf(Paragraph(d, pid))) : u[k] = u[k - 1] \o Piece(d, steps, n, pid, k)

(* The texts of the tokens put together are what the recursion says. *)
LEMMA SubstitutedIsOne ==
  ASSUME NEW d, NEW steps, NEW n0, NEW pid, Len(TextOf(Paragraph(d, pid))) \in Nat
  PROVE  IsSubstituted(SubstitutedUpTo(d, steps, n0, pid), d, steps, n0, pid)
<1> DEFINE by(u) == [j \in 0..Len(TextOf(Paragraph(d, pid))) |->
                       IF j = 0 THEN <<>> ELSE u[j - 1] \o Piece(d, steps, n0, pid, j)]
           Grows(w, i) == w[0] = <<>> /\ \A j \in 1..i : w[j] = w[j - 1] \o Piece(d, steps, n0, pid, j)
           G == {i \in 0..Len(TextOf(Paragraph(d, pid))) : \E w : Grows(w, i)}
           m == SubstitutedUpTo(d, steps, n0, pid)
<1>1. PICK n \in Nat : n = Len(TextOf(Paragraph(d, pid)))
  OBVIOUS
<1>2. 0 \in G
  <2> DEFINE w == [j \in {0} |-> <<>>]
  <2>1. w[0] = <<>>
    BY Zenon
  <2> HIDE DEF w
  <2>2. Grows(w, 0)
    BY <2>1
  <2> QED BY <1>1, <2>2
<1>3. ASSUME NEW i \in 1..n, i - 1 \in G PROVE i \in G
  <2>1. PICK u : Grows(u, i - 1)
    BY <1>3
  <2> DEFINE w == [j \in 0..i |-> IF j = i THEN u[i - 1] \o Piece(d, steps, n0, pid, i) ELSE u[j]]
  <2>2. /\ \A j \in 0..(i - 1) : w[j] = u[j]
        /\ w[i] = u[i - 1] \o Piece(d, steps, n0, pid, i)
    OBVIOUS
  <2> HIDE DEF w
  <2>3. w[0] = <<>>
    BY <2>1, <2>2
  <2>4. \A j \in 1..i : w[j] = w[j - 1] \o Piece(d, steps, n0, pid, j)
    <3> TAKE j \in 1..i
    <3>1. j - 1 \in 0..(i - 1) /\ w[j - 1] = u[j - 1]
      BY <2>2
    <3>2. CASE j = i
      BY <2>2, <3>1, <3>2
    <3>3. CASE j # i
      <4>1. j \in 1..(i - 1) /\ j \in 0..(i - 1)
        BY <3>3
      <4> QED BY <2>1, <2>2, <3>1, <4>1
    <3> QED BY <3>2, <3>3
  <2>5. Grows(w, i) /\ i \in 0..Len(TextOf(Paragraph(d, pid)))
    BY <1>1, <2>3, <2>4
  <2> HIDE DEF Grows
  <2> QED BY <2>5
<1>4. n \in G
  <2>1. \A i \in 0..n : i \in G
    <3> HIDE DEF G
    <3> QED BY <1>2, <1>3, InductionUpTo
  <2>2. n \in 0..n
    OBVIOUS
  <2> HIDE DEF G
  <2> QED BY <2>1, <2>2
<1>5. PICK u : Grows(u, n)
  BY <1>4
<1> DEFINE w == [j \in 0..n |-> u[j]]
<1>6. w = by(w)
  <2>1. \A j \in 0..n : w[j] = u[j]
    OBVIOUS
  <2>2. \A j \in 0..n : w[j] = IF j = 0 THEN <<>> ELSE w[j - 1] \o Piece(d, steps, n0, pid, j)
    <3> TAKE j \in 0..n
    <3>1. CASE j = 0
      BY <1>5, <2>1, <3>1
    <3>2. CASE j # 0
      <4>1. j \in 1..n /\ j - 1 \in 0..n
        BY <3>2
      <4> HIDE DEF w
      <4> QED BY <1>5, <2>1, <3>2, <4>1
    <3> QED BY <3>1, <3>2
  <2>3. w = [j \in 0..n |-> w[j]]
    OBVIOUS
  <2> HIDE DEF w
  <2> QED BY <1>1, <2>2, <2>3
<1>7. m = CHOOSE x : x = by(x)
  BY DEF SubstitutedUpTo
<1> HIDE DEF m, w
<1>8. m = by(m)
  <2> HIDE DEF by
  <2> QED BY <1>6, <1>7
<1>9. m[0] = <<>>
  BY <1>1, <1>8
<1>10. ASSUME NEW j \in 1..n PROVE m[j] = m[j - 1] \o Piece(d, steps, n0, pid, j)
  <2>1. j \in 0..Len(TextOf(Paragraph(d, pid))) /\ j # 0
    BY <1>1
  <2>2. \A i \in 0..Len(TextOf(Paragraph(d, pid))) : m[i] = by(m)[i]
    BY <1>8
  <2>3. m[j] = by(m)[j]
    BY <2>1, <2>2
  <2>4. by(m)[j] = m[j - 1] \o Piece(d, steps, n0, pid, j)
    BY <2>1
  <2> HIDE DEF by
  <2> QED BY <2>3, <2>4
<1> QED BY <1>1, <1>9, <1>10 DEF IsSubstituted, m

TellsInserted(w, d, steps) ==
  /\ w[0] = View(d)
  /\ \A n \in 1..Len(steps) : w[n] = InsertedNext(w[n - 1], steps[n])

(* So are the paragraphs with the new ones. *)
LEMMA InsertedIsOne ==
  ASSUME NEW d, NEW steps, Len(steps) \in Nat
  PROVE  TellsInserted(InsertedUpTo(d, steps), d, steps)
<1> DEFINE by(u) == [j \in 0..Len(steps) |->
                       IF j = 0 THEN View(d) ELSE InsertedNext(u[j - 1], steps[j])]
           Grows(w, i) == w[0] = View(d) /\ \A j \in 1..i : w[j] = InsertedNext(w[j - 1], steps[j])
           G == {i \in 0..Len(steps) : \E w : Grows(w, i)}
           m == InsertedUpTo(d, steps)
<1>1. PICK n \in Nat : n = Len(steps)
  OBVIOUS
<1>2. 0 \in G
  <2> DEFINE w == [j \in {0} |-> View(d)]
  <2>1. w[0] = View(d)
    BY Zenon
  <2> HIDE DEF w
  <2>2. Grows(w, 0)
    BY <2>1
  <2> QED BY <1>1, <2>2
<1>3. ASSUME NEW i \in 1..n, i - 1 \in G PROVE i \in G
  <2>1. PICK u : Grows(u, i - 1)
    BY <1>3
  <2> DEFINE w == [j \in 0..i |-> IF j = i THEN InsertedNext(u[i - 1], steps[i]) ELSE u[j]]
  <2>2. /\ \A j \in 0..(i - 1) : w[j] = u[j]
        /\ w[i] = InsertedNext(u[i - 1], steps[i])
    OBVIOUS
  <2> HIDE DEF w
  <2>3. w[0] = View(d)
    BY <2>1, <2>2
  <2>4. \A j \in 1..i : w[j] = InsertedNext(w[j - 1], steps[j])
    <3> TAKE j \in 1..i
    <3>1. j - 1 \in 0..(i - 1) /\ w[j - 1] = u[j - 1]
      BY <2>2
    <3>2. CASE j = i
      BY <2>2, <3>1, <3>2
    <3>3. CASE j # i
      <4>1. j \in 1..(i - 1) /\ j \in 0..(i - 1)
        BY <3>3
      <4> QED BY <2>1, <2>2, <3>1, <4>1
    <3> QED BY <3>2, <3>3
  <2>5. Grows(w, i) /\ i \in 0..Len(steps)
    BY <1>1, <2>3, <2>4
  <2> HIDE DEF Grows
  <2> QED BY <2>5
<1>4. n \in G
  <2>1. \A i \in 0..n : i \in G
    <3> HIDE DEF G
    <3> QED BY <1>2, <1>3, InductionUpTo
  <2>2. n \in 0..n
    OBVIOUS
  <2> HIDE DEF G
  <2> QED BY <2>1, <2>2
<1>5. PICK u : Grows(u, n)
  BY <1>4
<1> DEFINE w == [j \in 0..n |-> u[j]]
<1>6. w = by(w)
  <2>1. \A j \in 0..n : w[j] = u[j]
    OBVIOUS
  <2>2. \A j \in 0..n : w[j] = IF j = 0 THEN View(d) ELSE InsertedNext(w[j - 1], steps[j])
    <3> TAKE j \in 0..n
    <3>1. CASE j = 0
      BY <1>5, <2>1, <3>1
    <3>2. CASE j # 0
      <4>1. j \in 1..n /\ j - 1 \in 0..n
        BY <3>2
      <4> HIDE DEF w
      <4> QED BY <1>5, <2>1, <3>2, <4>1
    <3> QED BY <3>1, <3>2
  <2>3. w = [j \in 0..n |-> w[j]]
    OBVIOUS
  <2> HIDE DEF w
  <2> QED BY <1>1, <2>2, <2>3
<1>7. m = CHOOSE x : x = by(x)
  BY DEF InsertedUpTo
<1> HIDE DEF m, w
<1>8. m = by(m)
  <2> HIDE DEF by
  <2> QED BY <1>6, <1>7
<1>9. m[0] = View(d)
  BY <1>1, <1>8
<1>10. ASSUME NEW j \in 1..n PROVE m[j] = InsertedNext(m[j - 1], steps[j])
  <2>1. j \in 0..Len(steps) /\ j # 0
    BY <1>1
  <2>2. \A i \in 0..Len(steps) : m[i] = by(m)[i]
    BY <1>8
  <2>3. m[j] = by(m)[j]
    BY <2>1, <2>2
  <2>4. by(m)[j] = InsertedNext(m[j - 1], steps[j])
    BY <2>1
  <2> HIDE DEF by
  <2> QED BY <2>3, <2>4
<1> QED BY <1>1, <1>9, <1>10 DEF TellsInserted, m

IsRehearsed(w, d, next, steps) ==
  /\ w[0] = [ok |-> TRUE, doc |-> d, next |-> next]
  /\ \A n \in 1..Len(steps) : w[n] = RehearsedNext(w[n - 1], steps[n])

(* So is the trial of the steps, one after the other. *)
LEMMA RehearsedIsOne ==
  ASSUME NEW d, NEW next, NEW steps, Len(steps) \in Nat
  PROVE  IsRehearsed(RehearsedUpTo(d, next, steps), d, next, steps)
<1> DEFINE by(u) == [j \in 0..Len(steps) |->
                       IF j = 0 THEN [ok |-> TRUE, doc |-> d, next |-> next] ELSE RehearsedNext(u[j - 1], steps[j])]
           Grows(w, i) == w[0] = [ok |-> TRUE, doc |-> d, next |-> next]
             /\ \A j \in 1..i : w[j] = RehearsedNext(w[j - 1], steps[j])
           G == {i \in 0..Len(steps) : \E w : Grows(w, i)}
           m == RehearsedUpTo(d, next, steps)
<1>1. PICK n \in Nat : n = Len(steps)
  OBVIOUS
<1>2. 0 \in G
  <2> DEFINE w == [j \in {0} |-> [ok |-> TRUE, doc |-> d, next |-> next]]
  <2>1. w[0] = [ok |-> TRUE, doc |-> d, next |-> next]
    BY Zenon
  <2> HIDE DEF w
  <2>2. Grows(w, 0)
    BY <2>1
  <2> QED BY <1>1, <2>2
<1>3. ASSUME NEW i \in 1..n, i - 1 \in G PROVE i \in G
  <2>1. PICK u : Grows(u, i - 1)
    BY <1>3
  <2> DEFINE w == [j \in 0..i |-> IF j = i THEN RehearsedNext(u[i - 1], steps[i]) ELSE u[j]]
  <2>2. /\ \A j \in 0..(i - 1) : w[j] = u[j]
        /\ w[i] = RehearsedNext(u[i - 1], steps[i])
    OBVIOUS
  <2> HIDE DEF w
  <2>3. w[0] = [ok |-> TRUE, doc |-> d, next |-> next]
    BY <2>1, <2>2
  <2>4. \A j \in 1..i : w[j] = RehearsedNext(w[j - 1], steps[j])
    <3> TAKE j \in 1..i
    <3>1. j - 1 \in 0..(i - 1) /\ w[j - 1] = u[j - 1]
      BY <2>2
    <3>2. CASE j = i
      BY <2>2, <3>1, <3>2
    <3>3. CASE j # i
      <4>1. j \in 1..(i - 1) /\ j \in 0..(i - 1)
        BY <3>3
      <4> QED BY <2>1, <2>2, <3>1, <4>1
    <3> QED BY <3>2, <3>3
  <2>5. Grows(w, i) /\ i \in 0..Len(steps)
    BY <1>1, <2>3, <2>4
  <2> HIDE DEF Grows
  <2> QED BY <2>5
<1>4. n \in G
  <2>1. \A i \in 0..n : i \in G
    <3> HIDE DEF G
    <3> QED BY <1>2, <1>3, InductionUpTo
  <2>2. n \in 0..n
    OBVIOUS
  <2> HIDE DEF G
  <2> QED BY <2>1, <2>2
<1>5. PICK u : Grows(u, n)
  BY <1>4
<1> DEFINE w == [j \in 0..n |-> u[j]]
<1>6. w = by(w)
  <2>1. \A j \in 0..n : w[j] = u[j]
    OBVIOUS
  <2>2. \A j \in 0..n : w[j] = IF j = 0 THEN [ok |-> TRUE, doc |-> d, next |-> next]
          ELSE RehearsedNext(w[j - 1], steps[j])
    <3> TAKE j \in 0..n
    <3>1. CASE j = 0
      BY <1>5, <2>1, <3>1
    <3>2. CASE j # 0
      <4>1. j \in 1..n /\ j - 1 \in 0..n
        BY <3>2
      <4> HIDE DEF w
      <4> QED BY <1>5, <2>1, <3>2, <4>1
    <3> QED BY <3>1, <3>2
  <2>3. w = [j \in 0..n |-> w[j]]
    OBVIOUS
  <2> HIDE DEF w
  <2> QED BY <1>1, <2>2, <2>3
<1>7. m = CHOOSE x : x = by(x)
  BY DEF RehearsedUpTo
<1> HIDE DEF m, w
<1>8. m = by(m)
  <2> HIDE DEF by
  <2> QED BY <1>6, <1>7
<1>9. m[0] = [ok |-> TRUE, doc |-> d, next |-> next]
  BY <1>1, <1>8
<1>10. ASSUME NEW j \in 1..n PROVE m[j] = RehearsedNext(m[j - 1], steps[j])
  <2>1. j \in 0..Len(steps) /\ j # 0
    BY <1>1
  <2>2. \A i \in 0..Len(steps) : m[i] = by(m)[i]
    BY <1>8
  <2>3. m[j] = by(m)[j]
    BY <2>1, <2>2
  <2>4. by(m)[j] = RehearsedNext(m[j - 1], steps[j])
    BY <2>1
  <2> HIDE DEF by
  <2> QED BY <2>3, <2>4
<1> QED BY <1>1, <1>9, <1>10 DEF IsRehearsed, m

(* The range of a text that is found is not empty.                         *)
RangeIn(s, e, text, old) ==
  /\ s \in Nat /\ e \in Nat /\ s < e /\ e <= Len(text) /\ e = s + Len(old)
  /\ SubSeq(text, s + 1, e) = old

(* A text that is found once has a range, which is not empty. *)
LEMMA RangeOf ==
  ASSUME NEW E, NEW d \in Documents(E), NEW step \in StepRecords, step.op = "replace", Finds(d, step)
  PROVE  \E s, e : Found(d, step) = <<s, e>> /\ RangeIn(s, e, TextOf(Paragraph(d, step.pid)), step.old)
<1>1. PICK text : text = TextOf(Paragraph(d, step.pid))
  OBVIOUS
<1>2. PICK range : range = Found(d, step)
  OBVIOUS
<1>3. Covers(range, text, step.old)
  BY <1>1, <1>2, FoundOnce
<1>4. PICK s \in Nat, e \in Nat : range = <<s, e>> /\ s = range[1] /\ e = range[2]
  BY <1>3 DEF Covers
<1>5. step.old # <<>>
  <2>1. CASE step.old = <<>>
    <3>1. Matches(text, step.old) = {}
      BY <2>1 DEF Matches
    <3>2. Cardinality(Matches(text, step.old)) = 0
      BY <3>1, FS_EmptySet
    <3> QED BY <1>1, <3>2 DEF Finds
  <2> QED BY <2>1
<1>6. PICK o \in Nat : o = Len(step.old) /\ o # 0
  BY <1>5, StepIs, LenProperties, EmptySeq
<1>7. e = s + o /\ e <= Len(text) /\ SubSeq(text, s + 1, e) = step.old /\ s < e
  BY <1>3, <1>4, <1>6 DEF Covers
<1> QED BY <1>1, <1>2, <1>4, <1>6, <1>7 DEF RangeIn

(* A further step adds its range to those that are replaced.               *)
Inside(s, e, k) == s < k /\ k <= e

CoversAt(d, step, pid, k) ==
  step.op = "replace" /\ step.pid = pid /\ Found(d, step)[1] < k /\ k <= Found(d, step)[2]

(* A step adds its own range. *)
LEMMA CoveringNext ==
  ASSUME NEW d, NEW steps, NEW n \in Nat, NEW pid, NEW k, NEW i, i = n + 1
  PROVE  Covering(d, steps, i, pid, k) =
           Covering(d, steps, n, pid, k) \cup (IF CoversAt(d, steps[i], pid, k) THEN {i} ELSE {})
<1> DEFINE D(j) == CoversAt(d, steps[j], pid, k)
<1>1. 1..i = (1..n) \cup {i}
  OBVIOUS
<1>2. \A m : Covering(d, steps, m, pid, k) = {j \in 1..m : D(j)}
  BY DEF Covering, CoversAt
<1> DEFINE A == Covering(d, steps, i, pid, k)
           B == Covering(d, steps, n, pid, k)
<1>3. A = {j \in 1..i : D(j)} /\ B = {j \in 1..n : D(j)}
  BY <1>2
<1> HIDE DEF A, B, D
<1>4. CASE D(i)
  <2>1. A = B \cup {i}
    BY <1>1, <1>3, <1>4
  <2> QED BY <1>4, <2>1 DEF A, B, D
<1>5. CASE ~D(i)
  <2>1. A = B
    BY <1>1, <1>3, <1>5
  <2> QED BY <1>5, <2>1 DEF A, B, D
<1> QED BY <1>4, <1>5 DEF A, B, D

(* What a token becomes depends on the ranges around it only.              *)
PieceFor(d, steps, pid, k, at) ==
  IF at = {} THEN <<TextOf(Paragraph(d, pid))[k]>>
  ELSE LET i == CHOOSE i \in at : TRUE
       IN IF k = Found(d, steps[i])[1] + 1 THEN steps[i].new ELSE <<>>

(* A token becomes what its covering step makes of it. *)
LEMMA PieceIs ==
  ASSUME NEW d, NEW steps, NEW n, NEW pid, NEW k
  PROVE  Piece(d, steps, n, pid, k) = PieceFor(d, steps, pid, k, Covering(d, steps, n, pid, k))
BY DEF Piece, PieceFor

(* No range is replaced before the step it belongs to. *)
LEMMA NotCoveredYet ==
  ASSUME NEW E, NEW d \in Documents(E), NEW steps \in Seq(StepRecords), Acceptable(d, steps),
         NEW n \in Nat, n < Len(steps), NEW i, i = n + 1, steps[i].op = "replace",
         NEW s, NEW e, Found(d, steps[i]) = <<s, e>>, NEW k \in Nat, Inside(s, e, k)
  PROVE  Covering(d, steps, n, steps[i].pid, k) = {}
<1> SUFFICES ASSUME NEW j \in Covering(d, steps, n, steps[i].pid, k) PROVE FALSE
  OBVIOUS
<1>1. PICK l \in Nat : l = Len(steps) /\ DOMAIN steps = 1..l
  BY LenProperties
<1>2. j \in 1..n /\ steps[j].op = "replace" /\ steps[j].pid = steps[i].pid
  BY DEF Covering
<1>3. j \in DOMAIN steps /\ i \in DOMAIN steps /\ i # j
  BY <1>1, <1>2
<1>4. ~Conflict(d, steps[i], steps[j])
  BY <1>3 DEF Acceptable
<1>5. ~RangesOverlap(Found(d, steps[i]), Found(d, steps[j]))
  BY <1>2, <1>4 DEF Conflict
<1>6. PICK a, b : Found(d, steps[j]) = <<a, b>> /\ a \in Nat /\ b \in Nat /\ a < k /\ k <= b
  <2>1. steps[j] \in StepRecords /\ Finds(d, steps[j])
    BY <1>3, ElementOfSeq, LenProperties DEF Acceptable
  <2>2. PICK a, b : Found(d, steps[j]) = <<a, b>>
          /\ RangeIn(a, b, TextOf(Paragraph(d, steps[j].pid)), steps[j].old)
    BY <1>2, <2>1, RangeOf
  <2>3. a < k /\ k <= b
    BY <2>2 DEF Covering
  <2> QED BY <2>2, <2>3 DEF RangeIn
<1>7. s \in Nat /\ e \in Nat /\ s < k /\ k <= e
  <2>1. steps[i] \in StepRecords /\ Finds(d, steps[i])
    BY <1>3, ElementOfSeq, LenProperties DEF Acceptable
  <2>2. PICK a1, b1 : Found(d, steps[i]) = <<a1, b1>>
          /\ RangeIn(a1, b1, TextOf(Paragraph(d, steps[i].pid)), steps[i].old)
    BY <2>1, RangeOf
  <2> QED BY <2>2 DEF RangeIn, Inside
<1>8. ~(s < b /\ a < e)
  BY <1>5, <1>6 DEF RangesOverlap
<1> QED BY <1>6, <1>7, <1>8

(* Another step leaves a paragraph alone. *)
LEMMA PiecesKept ==
  ASSUME NEW d, NEW steps, NEW n \in Nat, NEW i, i = n + 1, NEW pid,
         steps[i].op # "replace" \/ steps[i].pid # pid, NEW k
  PROVE  Piece(d, steps, i, pid, k) = Piece(d, steps, n, pid, k)
    /\ Covering(d, steps, i, pid, k) = Covering(d, steps, n, pid, k)
<1> DEFINE C == CoversAt(d, steps[i], pid, k)
<1>2. Covering(d, steps, i, pid, k) = Covering(d, steps, n, pid, k) \cup (IF C THEN {i} ELSE {})
  BY CoveringNext
<1>3. ~C
  BY DEF CoversAt
<1>4. Covering(d, steps, i, pid, k) = Covering(d, steps, n, pid, k)
  BY <1>2, <1>3
<1> QED BY <1>4, PieceIs

(* What the tokens of a paragraph become with a further step.              *)
LEMMA PiecesNext ==
  ASSUME NEW E, NEW d \in Documents(E), NEW steps \in Seq(StepRecords), Acceptable(d, steps),
         NEW n \in Nat, n < Len(steps), NEW i, i = n + 1, steps[i].op = "replace",
         NEW s, NEW e, Found(d, steps[i]) = <<s, e>>, NEW k \in Nat, NEW pid, pid = steps[i].pid
  PROVE  /\ ~Inside(s, e, k) => /\ Piece(d, steps, i, pid, k) = Piece(d, steps, n, pid, k)
                                /\ Covering(d, steps, i, pid, k) = Covering(d, steps, n, pid, k)
         /\ Inside(s, e, k) =>
              /\ Covering(d, steps, n, pid, k) = {} /\ Covering(d, steps, i, pid, k) # {}
              /\ Piece(d, steps, n, pid, k) = <<TextOf(Paragraph(d, pid))[k]>>
              /\ Piece(d, steps, i, pid, k) = IF k = s + 1 THEN steps[i].new ELSE <<>>
<1> DEFINE C == CoversAt(d, steps[i], pid, k)
<1>2. Covering(d, steps, i, pid, k) = Covering(d, steps, n, pid, k) \cup (IF C THEN {i} ELSE {})
  BY CoveringNext
<1>3. C <=> Inside(s, e, k)
  BY DEF Inside, CoversAt
<1>4. ASSUME ~Inside(s, e, k) PROVE /\ Piece(d, steps, i, pid, k) = Piece(d, steps, n, pid, k)
                                    /\ Covering(d, steps, i, pid, k) = Covering(d, steps, n, pid, k)
  <2>1. Covering(d, steps, i, pid, k) = Covering(d, steps, n, pid, k)
    BY <1>2, <1>3, <1>4
  <2> QED BY <2>1, PieceIs
<1>5. ASSUME Inside(s, e, k)
      PROVE  /\ Covering(d, steps, n, pid, k) = {} /\ Covering(d, steps, i, pid, k) # {}
             /\ Piece(d, steps, n, pid, k) = <<TextOf(Paragraph(d, pid))[k]>>
             /\ Piece(d, steps, i, pid, k) = IF k = s + 1 THEN steps[i].new ELSE <<>>
  <2>1. Covering(d, steps, n, pid, k) = {}
    BY <1>5, NotCoveredYet
  <2>2. Covering(d, steps, i, pid, k) = {i}
    BY <1>2, <1>3, <1>5, <2>1
  <2>3. (CHOOSE j \in {i} : TRUE) = i
    OBVIOUS
  <2>4. Found(d, steps[i])[1] = s
    OBVIOUS
  <2>5. Piece(d, steps, i, pid, k) = IF k = s + 1 THEN steps[i].new ELSE <<>>
    <3>1. PieceFor(d, steps, pid, k, {i}) = IF k = s + 1 THEN steps[i].new ELSE <<>>
      BY <2>3, <2>4 DEF PieceFor
    <3>2. Piece(d, steps, i, pid, k) = PieceFor(d, steps, pid, k, Covering(d, steps, i, pid, k))
      BY PieceIs
    <3> QED BY <2>2, <3>1, <3>2
  <2> QED BY <2>1, <2>2, <2>5, PieceIs DEF PieceFor
<1> QED BY <1>4, <1>5

(* u[k] is the first k of the pieces p, joined.                            *)
IsConcat(u, p, m, T) ==
  u[0] = <<>> /\ \A k \in 1..m : p[k] \in Seq(T) /\ u[k] = u[k - 1] \o p[k]

Prolongs(u, v, k, j, T) == \E t \in Seq(T) : u[k] = u[j] \o t /\ v[k] = v[j] \o t

StartAlike(p, q, s) == \A k \in 1..s : q[k] = p[k]
Singles(p, x, s, e) == \A k \in (s + 1)..e : p[k] = <<x[k]>>
OneOnly(p, s, e, new) == \A k \in (s + 1)..e : p[k] = IF k = s + 1 THEN new ELSE <<>>

StretchFrom(u, x, s, e) == \A k \in s..e : u[k] = u[s] \o SubSeq(x, s + 1, k)
OnceBehind(u, s, e, new) == \A k \in (s + 1)..e : u[k] = u[s] \o new

(* What the tokens before a place became is a text. *)
LEMMA ConcatTyped ==
  ASSUME NEW T, NEW m \in Nat, NEW u, NEW p, IsConcat(u, p, m, T)
  PROVE  \A k \in 0..m : u[k] \in Seq(T)
<1> DEFINE G == {k \in 0..m : u[k] \in Seq(T)}
<1>1. 0 \in G
  <2>1. u[0] = <<>>
    BY DEF IsConcat
  <2>2. <<>> \in Seq(T)
    BY EmptySeq
  <2>3. u[0] \in Seq(T)
    BY ONLY <2>1, <2>2, Zenon
  <2> QED BY <2>3
<1>2. ASSUME NEW k \in 1..m, k - 1 \in G PROVE k \in G
  <2>1. p[k] \in Seq(T) /\ u[k] = u[k - 1] \o p[k] /\ u[k - 1] \in Seq(T)
    BY <1>2 DEF IsConcat
  <2>2. u[k] \in Seq(T)
    BY <2>1, ConcatProperties
  <2> QED BY <2>2
<1>3. \A k \in 0..m : k \in G
  <2> HIDE DEF G
  <2> QED BY <1>1, <1>2, InductionUpTo
<1> QED BY <1>3

(* Where the pieces are the same the joined texts grow in the same way.    *)
LEMMA ConcatGrows ==
  ASSUME NEW T, NEW m \in Nat, NEW u, NEW v, NEW p, NEW q, IsConcat(u, p, m, T), IsConcat(v, q, m, T),
         NEW j \in 0..m, \A k \in (j + 1)..m : q[k] = p[k]
  PROVE  \A k \in j..m : Prolongs(u, v, k, j, T)
<1> DEFINE G == {k \in 0..m : j <= k => Prolongs(u, v, k, j, T)}
<1>0. \A k \in 0..m : u[k] \in Seq(T) /\ v[k] \in Seq(T)
  BY ConcatTyped
<1>1. Prolongs(u, v, j, j, T)
  <2>1. u[j] = u[j] \o <<>> /\ v[j] = v[j] \o <<>> /\ <<>> \in Seq(T)
    BY <1>0, ConcatEmptySeq, EmptySeq
  <2> QED BY <2>1 DEF Prolongs
<1>2. 0 \in G
  BY <1>1
<1>3. ASSUME NEW k \in 1..m, k - 1 \in G PROVE k \in G
  <2>1. CASE k < j
    BY <2>1
  <2>2. CASE k = j
    BY <1>1, <2>2
  <2>3. CASE j < k
    <3>1. k \in (j + 1)..m /\ j <= k - 1 /\ k - 1 \in 0..m
      BY <2>3
    <3>2. PICK t \in Seq(T) : u[k - 1] = u[j] \o t /\ v[k - 1] = v[j] \o t
      BY <1>3, <3>1 DEF Prolongs
    <3>3. p[k] \in Seq(T) /\ u[k] = u[k - 1] \o p[k] /\ v[k] = v[k - 1] \o p[k]
      BY <3>1 DEF IsConcat
    <3>4a. u[j] \in Seq(T) /\ v[j] \in Seq(T) /\ t \in Seq(T) /\ p[k] \in Seq(T)
      BY <1>0, <3>2, <3>3
    <3>4x. PICK a \in Seq(T), b \in Seq(T), c \in Seq(T) : a = u[j] /\ b = v[j] /\ c = p[k]
      BY <3>4a
    <3>4y. (a \o t) \o c = a \o (t \o c)
      BY ConcatAssociative
    <3>4z. (b \o t) \o c = b \o (t \o c)
      BY ConcatAssociative
    <3>4b. u[k - 1] \o p[k] = u[j] \o (t \o p[k])
      BY <3>2, <3>4x, <3>4y
    <3>4c. v[k - 1] \o p[k] = v[j] \o (t \o p[k])
      BY <3>2, <3>4x, <3>4z
    <3>5. t \o p[k] \in Seq(T)
      BY <3>2, <3>3, ConcatProperties
    <3>6. Prolongs(u, v, k, j, T)
      BY <3>2, <3>3, <3>4b, <3>4c, <3>5 DEF Prolongs
    <3> QED BY <3>6
  <2> QED BY <2>1, <2>2, <2>3
<1>4. \A k \in 0..m : k \in G
  <2> HIDE DEF G
  <2> QED BY <1>2, <1>3, InductionUpTo
<1> QED BY <1>4

(* The first pieces that are the same give the same. *)
LEMMA ConcatStarts ==
  ASSUME NEW T, NEW m \in Nat, NEW u, NEW v, NEW p, NEW q, IsConcat(u, p, m, T), IsConcat(v, q, m, T),
         NEW s \in 0..m, StartAlike(p, q, s)
  PROVE  \A k \in 0..s : v[k] = u[k]
<1> DEFINE G == {k \in 0..s : v[k] = u[k]}
<1>1. 0 \in G
  BY DEF IsConcat
<1>2. ASSUME NEW k \in 1..s, k - 1 \in G PROVE k \in G
  <2>1. k \in 1..m /\ q[k] = p[k] /\ v[k - 1] = u[k - 1]
    BY <1>2 DEF StartAlike
  <2>2. u[k] = u[k - 1] \o p[k] /\ v[k] = v[k - 1] \o q[k]
    BY <2>1 DEF IsConcat
  <2>3. v[k] = u[k]
    BY <2>1, <2>2, Zenon
  <2> QED BY <2>3
<1>3. \A k \in 0..s : k \in G
  <2> HIDE DEF G
  <2> QED BY <1>1, <1>2, InductionUpTo
<1> QED BY <1>3

(* Pieces that are single tokens give a stretch of their text.             *)
LEMMA ConcatStretch ==
  ASSUME NEW T, NEW x \in Seq(T), NEW m \in Nat, m = Len(x), NEW u, NEW p, IsConcat(u, p, m, T),
         NEW s \in Nat, NEW e \in Nat, s <= e, e <= m, Singles(p, x, s, e)
  PROVE  StretchFrom(u, x, s, e)
<1> DEFINE H(k) == u[k] = u[s] \o SubSeq(x, s + 1, k)
           G == {k \in 0..e : s <= k => H(k)}
<1>0. \A k \in 0..m : u[k] \in Seq(T)
  BY ConcatTyped
<1>1. H(s)
  <2>1. SubSeq(x, s + 1, s) = <<>>
    <3>1. s + 1 \in Int /\ s \in Int /\ s < s + 1
      OBVIOUS
    <3> QED BY <3>1, SubSeqEmpty
  <2> QED BY <1>0, <2>1, ConcatEmptySeq
<1>2. 0 \in G
  <2>1. s <= 0 => s = 0
    OBVIOUS
  <2> HIDE DEF H
  <2> QED BY <1>1, <2>1
<1>3. ASSUME NEW k \in 1..e, k - 1 \in G PROVE k \in G
  <2>1. CASE k < s
    <3> HIDE DEF H
    <3> QED BY <2>1
  <2>2. CASE k = s
    <3> HIDE DEF H
    <3> QED BY <1>1, <2>2
  <2>3. CASE s < k
    <3>1. k \in (s + 1)..e /\ s <= k - 1 /\ k \in 1..m /\ k - 1 \in 0..m
      BY <2>3
    <3>2. H(k - 1)
      <4> HIDE DEF H
      <4> QED BY <1>3, <3>1
    <3>3. u[k] = u[k - 1] \o <<x[k]>> /\ <<x[k]>> \in Seq(T)
      BY <3>1 DEF IsConcat, Singles
    <3>4. s + 1 \in 1..Len(x) /\ k \in (s + 1)..Len(x)
      BY <3>1
    <3>5. SubSeq(x, s + 1, k) = SubSeq(x, s + 1, k - 1) \o <<x[k]>>
      BY <3>4, SubSeqRecursiveSecond
    <3>6. SubSeq(x, s + 1, k - 1) \in Seq(T)
      <4>1. s + 1 \in Nat \ {0} /\ k - 1 \in Nat /\ s + 1 <= (k - 1) + 1 /\ k - 1 <= Len(x)
        BY <3>1
      <4> QED BY <4>1, SubSeqAt
    <3>6a. u[s] \in Seq(T) /\ <<x[k]>> \in Seq(T)
      BY <1>0, <3>3
    <3>7. PICK a \in Seq(T), b \in Seq(T), c \in Seq(T) :
            a = u[s] /\ b = SubSeq(x, s + 1, k - 1) /\ c = <<x[k]>>
      BY <3>6, <3>6a
    <3>8. (a \o b) \o c = a \o (b \o c)
      BY ONLY a \in Seq(T), b \in Seq(T), c \in Seq(T), ConcatAssociative
    <3>9. H(k)
      BY <3>2, <3>3, <3>5, <3>7, <3>8
    <3> HIDE DEF H
    <3> QED BY <3>9
  <2> HIDE DEF H
  <2> QED BY <2>1, <2>2, <2>3
<1>4. \A k \in 0..e : k \in G
  <2> HIDE DEF G
  <2> QED BY <1>2, <1>3, InductionUpTo
<1>5. \A k \in s..e : H(k)
  <2> HIDE DEF H
  <2> QED BY <1>4
<1> QED BY <1>5 DEF StretchFrom

(* A piece and nothing behind it. *)
LEMMA ConcatOne ==
  ASSUME NEW T, NEW m \in Nat, NEW u, NEW p, IsConcat(u, p, m, T),
         NEW s \in Nat, NEW e \in Nat, s < e, e <= m, NEW new, OneOnly(p, s, e, new)
  PROVE  OnceBehind(u, s, e, new)
<1> DEFINE G == {k \in 0..e : s < k => u[k] = u[s] \o new}
<1>0. \A k \in 0..m : u[k] \in Seq(T)
  BY ConcatTyped
<1>1. 0 \in G
  OBVIOUS
<1>2. ASSUME NEW k \in 1..e, k - 1 \in G PROVE k \in G
  <2>0. u[k] = u[k - 1] \o p[k] /\ u[k - 1] \in Seq(T)
    <3>1. k \in 1..m /\ k - 1 \in 0..m
      OBVIOUS
    <3> QED BY <1>0, <3>1 DEF IsConcat
  <2>1. CASE k <= s
    BY <2>1
  <2>2. CASE k = s + 1
    <3>1. p[k] = new /\ k - 1 = s
      BY <2>2 DEF OneOnly
    <3> QED BY <2>0, <3>1
  <2>3. CASE s + 1 < k
    <3>1. p[k] = <<>> /\ s < k - 1
      BY <2>3 DEF OneOnly
    <3>2. u[k] = u[k - 1]
      BY <2>0, <3>1, ConcatEmptySeq
    <3> QED BY <1>2, <3>1, <3>2
  <2> QED BY <2>1, <2>2, <2>3
<1>3. \A k \in 0..e : k \in G
  <2> HIDE DEF G
  <2> QED BY <1>1, <1>2, InductionUpTo
<1> QED BY <1>3 DEF OnceBehind

(* The part of a text that is put into its place.                          *)
Between(text, a, old, b, s, e) == text = (a \o old) \o b /\ s = Len(a) /\ e = s + Len(old)

HoldsAt(text, s, e, old) == text \in Seq(Tokens) /\ e <= Len(text) /\ SubSeq(text, s + 1, e) = old

PutGives(text, s, e, new, a, b) == PutInto(text, s, e, new) = (a \o new) \o b

(* Text put in the place of another leaves what is around it. *)
LEMMA PutBetween ==
  ASSUME NEW a \in Seq(Tokens), NEW old \in Seq(Tokens), NEW b \in Seq(Tokens), NEW new \in Seq(Tokens),
         NEW s \in Nat, NEW e \in Nat, NEW text, Between(text, a, old, b, s, e)
  PROVE  HoldsAt(text, s, e, old) /\ PutGives(text, s, e, new, a, b)
<1> SUFFICES ASSUME text = (a \o old) \o b, s = Len(a), e = s + Len(old)
             PROVE  /\ text \in Seq(Tokens) /\ e <= Len(text) /\ SubSeq(text, s + 1, e) = old
                    /\ PutInto(text, s, e, new) = (a \o new) \o b
  BY DEF Between, HoldsAt, PutGives
<1>1. PICK o \in Nat, n \in Nat, l \in Nat : o = Len(old) /\ n = Len(new) /\ l = Len(b) /\ e = s + o
  BY LenProperties
<1>2. PICK c : c = a \o old /\ c \in Seq(Tokens) /\ Len(c) = e
               /\ \A i \in 1..e : c[i] = IF i <= s THEN a[i] ELSE old[i - s]
  <2>1. /\ a \o old \in Seq(Tokens) /\ Len(a \o old) = Len(a) + Len(old)
        /\ \A i \in 1..(Len(a) + Len(old)) : (a \o old)[i] = IF i <= Len(a) THEN a[i]
          ELSE old[i - Len(a)]
    BY ConcatProperties
  <2>2. PICK c : c = a \o old
    OBVIOUS
  <2> QED BY <1>1, <2>1, <2>2
<1>3. /\ text \in Seq(Tokens) /\ Len(text) = e + l
      /\ \A i \in 1..(e + l) : text[i] = IF i <= e THEN c[i] ELSE b[i - e]
  <2>1. /\ c \o b \in Seq(Tokens) /\ Len(c \o b) = Len(c) + Len(b)
        /\ \A i \in 1..(Len(c) + Len(b)) : (c \o b)[i] = IF i <= Len(c) THEN c[i] ELSE b[i - Len(c)]
    BY <1>2, ConcatProperties
  <2> QED BY <1>1, <1>2, <2>1
<1>4. PICK g : g = a \o new /\ g \in Seq(Tokens) /\ Len(g) = s + n
               /\ \A i \in 1..(s + n) : g[i] = IF i <= s THEN a[i] ELSE new[i - s]
  <2>1. /\ a \o new \in Seq(Tokens) /\ Len(a \o new) = Len(a) + Len(new)
        /\ \A i \in 1..(Len(a) + Len(new)) : (a \o new)[i] = IF i <= Len(a) THEN a[i]
          ELSE new[i - Len(a)]
    BY ConcatProperties
  <2>2. PICK g : g = a \o new
    OBVIOUS
  <2> QED BY <1>1, <2>1, <2>2
<1>5. PICK z : z = g \o b /\ z \in Seq(Tokens) /\ Len(z) = s + n + l
               /\ \A i \in 1..(s + n + l) : z[i] = IF i <= s + n THEN g[i] ELSE b[i - (s + n)]
  <2>1. /\ g \o b \in Seq(Tokens) /\ Len(g \o b) = Len(g) + Len(b)
        /\ \A i \in 1..(Len(g) + Len(b)) : (g \o b)[i] = IF i <= Len(g) THEN g[i] ELSE b[i - Len(g)]
    BY <1>4, ConcatProperties
  <2>2. PICK z : z = g \o b
    OBVIOUS
  <2>3. Len(g) = s + n /\ Len(b) = l
    BY <1>1, <1>4
  <2>4. z \in Seq(Tokens) /\ Len(z) = s + n + l
    BY <2>1, <2>2, <2>3
  <2>5. \A i \in 1..(s + n + l) : z[i] = IF i <= s + n THEN g[i] ELSE b[i - (s + n)]
    BY <2>1, <2>2, <2>3
  <2> QED BY <2>2, <2>4, <2>5
<1>6. s <= e /\ e <= Len(text) /\ e - s = o
  BY <1>1, <1>3
<1>7. PICK f \in Nat \ {0} : f = s + 1 /\ f <= e + 1 /\ e - f + 1 = o
  <2>1. s + 1 \in Nat \ {0} /\ s + 1 <= e + 1 /\ e - (s + 1) + 1 = o
    BY <1>1
  <2> QED BY <2>1
<1>8. /\ SubSeq(text, f, e) \in Seq(Tokens) /\ Len(SubSeq(text, f, e)) = o
      /\ \A i \in 1..o : SubSeq(text, f, e)[i] = text[f + i - 1]
  <2>1. /\ SubSeq(text, f, e) \in Seq(Tokens) /\ Len(SubSeq(text, f, e)) = e - f + 1
        /\ \A i \in 1..(e - f + 1) : SubSeq(text, f, e)[i] = text[f + i - 1]
    BY ONLY <1>3, <1>6, <1>7, e \in Nat, SubSeqAt
  <2> QED BY <1>7, <2>1
<1>9. \A i \in 1..o : text[f + i - 1] = old[i]
  <2> TAKE i \in 1..o
  <2>1. f + i - 1 \in 1..(e + l) /\ f + i - 1 <= e /\ ~(f + i - 1 <= s) /\ (f + i - 1) - s = i
    BY <1>1, <1>7
  <2> QED BY <1>2, <1>3, <2>1
<1>10. SubSeq(text, f, e) = old
  BY <1>1, <1>8, <1>9, SeqEqual
<1>11. IsPut(z, text, s, e, new)
  <2>1. Len(z) = Len(text) - (e - s) + Len(new)
    BY <1>1, <1>3, <1>5
  <2>2. ASSUME NEW i \in 1..s PROVE z[i] = text[i]
    BY <1>1, <1>2, <1>3, <1>4, <1>5
  <2>3. ASSUME NEW i \in (s + 1)..(s + Len(new)) PROVE z[i] = new[i - s]
    <3>1. i \in 1..(s + n + l) /\ i \in 1..(s + n) /\ ~(i <= s) /\ i <= s + n
      BY <1>1
    <3> QED BY <1>4, <1>5, <3>1
  <2>4. ASSUME NEW i \in (s + Len(new) + 1)..(Len(text) - (e - s) + Len(new))
        PROVE  z[i] = text[i - Len(new) + (e - s)]
    <3>1. i \in (s + n + 1)..(s + n + l) /\ i - Len(new) + (e - s) = i - n + o
      BY <1>1, <1>3
    <3>2. i \in 1..(s + n + l) /\ ~(i <= s + n) /\ i - n + o \in 1..(e + l) /\ ~(i - n + o <= e)
          /\ (i - n + o) - e = i - (s + n)
      BY <1>1, <3>1
    <3>3. z[i] = b[i - (s + n)] /\ text[i - n + o] = b[(i - n + o) - e]
      BY <1>3, <1>5, <3>2
    <3> QED BY <3>1, <3>2, <3>3
  <2> QED BY <2>1, <2>2, <2>3, <2>4 DEF IsPut
<1>12. PutInto(text, s, e, new) = z
  <2>1. PutInto(text, s, e, new) \in Seq(Tokens) /\ IsPut(PutInto(text, s, e, new), text, s, e, new)
    BY <1>3, <1>6, Joined
  <2> QED BY <1>3, <1>5, <1>6, <1>11, <2>1, PutIsUnique
<1> QED BY <1>3, <1>4, <1>5, <1>6, <1>7, <1>10, <1>12

(* A text whose pieces change at one range only.                           *)
ChangesAt(p, q, x, s, e, new) ==
  \A k \in 1..Len(x) :
    IF Inside(s, e, k) THEN p[k] = <<x[k]>> /\ q[k] = IF k = s + 1 THEN new ELSE <<>>
    ELSE q[k] = p[k]

SplitAt(u, v, m, s, old, new, T) ==
  \E tail \in Seq(T) : u[m] = (u[s] \o old) \o tail /\ v[m] = (u[s] \o new) \o tail

(* The places of the single tokens around the range, and in it.            *)
Places(u, v, p, x, s, e, old, new) ==
  /\ \A k \in 0..Len(x) : Len(u[k]) \in Nat /\ Len(u[k]) <= Len(u[Len(x)])
  /\ \A k \in 1..s : v[k] = u[k] /\ Len(u[k]) <= Len(u[s])
  /\ \A k \in (s + 1)..e : Len(u[k]) = Len(u[s]) + (k - s)
  /\ \A k \in (e + 1)..Len(x) : Len(v[k]) = Len(u[k]) - Len(old) + Len(new)
  /\ \A k \in (e + 1)..Len(x) : p[k] = <<x[k]>> => Len(u[s]) + Len(old) + 1 <= Len(u[k])
  /\ \A k \in 1..Len(x) : p[k] = <<x[k]>> => 1 <= Len(u[k])

(* Where one range is replaced, the texts differ in its place only. *)
LEMMA TextsSplit ==
  ASSUME NEW T, NEW x \in Seq(T), NEW m \in Nat, m = Len(x), NEW u, NEW v, NEW p, NEW q,
         IsConcat(u, p, m, T), IsConcat(v, q, m, T), NEW s \in Nat, NEW e \in Nat, s < e, e <= m,
         NEW new \in Seq(T), ChangesAt(p, q, x, s, e, new), NEW old \in Seq(T), old = SubSeq(x, s + 1, e)
  PROVE  SplitAt(u, v, m, s, old, new, T) /\ Places(u, v, p, x, s, e, old, new)
<1>0. \A k \in 0..m : u[k] \in Seq(T) /\ v[k] \in Seq(T) /\ Len(u[k]) \in Nat /\ Len(v[k]) \in Nat
  <2>1. \A k \in 0..m : u[k] \in Seq(T) /\ v[k] \in Seq(T)
    BY ConcatTyped
  <2> QED BY <2>1, LenProperties
<1>1. /\ \A k \in 1..s : q[k] = p[k]
      /\ \A k \in (s + 1)..e : p[k] = <<x[k]>>
      /\ \A k \in (s + 1)..e : q[k] = IF k = s + 1 THEN new ELSE <<>>
      /\ \A k \in (e + 1)..m : q[k] = p[k]
  <2>1. ASSUME NEW k \in 1..s PROVE q[k] = p[k]
    <3>1. k \in 1..m /\ ~Inside(s, e, k)
      BY DEF Inside
    <3> QED BY <3>1 DEF ChangesAt
  <2>2. ASSUME NEW k \in (s + 1)..e PROVE p[k] = <<x[k]>> /\ q[k] = IF k = s + 1 THEN new ELSE <<>>
    <3>1. k \in 1..m /\ Inside(s, e, k)
      BY DEF Inside
    <3> QED BY <3>1 DEF ChangesAt
  <2>3. ASSUME NEW k \in (e + 1)..m PROVE q[k] = p[k]
    <3>1. k \in 1..m /\ ~Inside(s, e, k)
      BY DEF Inside
    <3> QED BY <3>1 DEF ChangesAt
  <2> QED BY <2>1, <2>2, <2>3
<1>1a. StartAlike(p, q, s)
  BY <1>1 DEF StartAlike
<1>1b. Singles(p, x, s, e)
  BY <1>1 DEF Singles
<1>1c. OneOnly(q, s, e, new)
  BY <1>1 DEF OneOnly
<1>2. s \in 0..m /\ e \in 0..m /\ e \in s..m /\ m \in 0..m /\ m \in e..m /\ e \in (s + 1)..e
        /\ e \in s..e
  OBVIOUS
<1>3. \A k \in 0..s : v[k] = u[k]
  BY ONLY IsConcat(u, p, m, T), IsConcat(v, q, m, T), m \in Nat, <1>1a, <1>2, ConcatStarts
<1>4a. StretchFrom(u, x, s, e)
  BY ONLY IsConcat(u, p, m, T), m \in Nat, x \in Seq(T), m = Len(x), s \in Nat, e \in Nat, s <= e, e <= m, <1>1b, ConcatStretch
<1>4. \A k \in s..e : u[k] = u[s] \o SubSeq(x, s + 1, k)
  BY <1>4a DEF StretchFrom
<1>5. \A k \in (s + 1)..e : v[k] = u[s] \o new
  <2>1. OnceBehind(v, s, e, new)
    BY ONLY IsConcat(v, q, m, T), m \in Nat, s \in Nat, e \in Nat, s < e, e <= m, <1>1c, ConcatOne
  <2>2. v[s] = u[s]
    BY <1>2, <1>3
  <2> QED BY <2>1, <2>2 DEF OnceBehind
<1>6. u[e] = u[s] \o old /\ v[e] = u[s] \o new
  BY <1>2, <1>4, <1>5
<1>7. \A k \in e..m : Prolongs(u, v, k, e, T)
  BY <1>1, <1>2, ConcatGrows
<1>8. SplitAt(u, v, m, s, old, new, T)
  <2>1. PICK tail \in Seq(T) : u[m] = u[e] \o tail /\ v[m] = v[e] \o tail
    BY <1>2, <1>7 DEF Prolongs
  <2> QED BY <1>6, <2>1 DEF SplitAt
<1>9. \A j \in 0..m : \A k \in j..m : Prolongs(u, u, k, j, T)
  <2> SUFFICES ASSUME NEW j \in 0..m PROVE \A k \in j..m : Prolongs(u, u, k, j, T)
    OBVIOUS
  <2> QED BY ConcatGrows
<1>10. ASSUME NEW j \in 0..m, NEW k \in j..m PROVE Len(u[j]) <= Len(u[k])
  <2>1. PICK a \in Seq(T), t \in Seq(T) : a = u[j] /\ u[k] = a \o t
    BY <1>0, <1>9 DEF Prolongs
  <2>2. Len(u[k]) = Len(a) + Len(t)
    BY <2>1, ConcatProperties
  <2> QED BY <2>1, <2>2, LenProperties
<1>11. ASSUME NEW k \in (s + 1)..e PROVE Len(u[k]) = Len(u[s]) + (k - s)
  <2>1. PICK a \in Seq(T), b \in Seq(T) : a = u[s] /\ b = SubSeq(x, s + 1, k) /\ Len(b) = k - s
    <3>1. PICK f \in Nat \ {0} : f = s + 1 /\ f <= k + 1 /\ k - f + 1 = k - s /\ k \in Nat
            /\ k <= Len(x)
      <4>1. s + 1 \in Nat \ {0} /\ s + 1 <= k + 1 /\ k - (s + 1) + 1 = k - s /\ k \in Nat /\ k <= Len(x)
        OBVIOUS
      <4> QED BY <4>1
    <3>2. SubSeq(x, f, k) \in Seq(T) /\ Len(SubSeq(x, f, k)) = k - f + 1
      BY <3>1, SubSeqAt
    <3> QED BY <1>0, <1>2, <3>1, <3>2
  <2>2. u[k] = a \o b
    <3>1. k \in s..e
      OBVIOUS
    <3>2. u[k] = u[s] \o SubSeq(x, s + 1, k)
      BY <1>4, <3>1
    <3> QED BY <2>1, <3>2
  <2>3. Len(a \o b) = Len(a) + Len(b)
    BY ConcatProperties
  <2> QED BY <2>1, <2>2, <2>3
<1>12. ASSUME NEW k \in (e + 1)..m PROVE Len(v[k]) = Len(u[k]) - Len(old) + Len(new)
  <2>1. PICK a \in Seq(T), t \in Seq(T) : a = u[s] /\ u[k] = u[e] \o t /\ v[k] = v[e] \o t
    <3>1. k \in e..m
      OBVIOUS
    <3> QED BY <1>0, <1>2, <1>7, <3>1 DEF Prolongs
  <2>2. PICK g \in Seq(T), h \in Seq(T) : g = a \o old /\ h = a \o new /\ Len(g) = Len(a) + Len(old)
          /\ Len(h) = Len(a) + Len(new)
    <3>1. a \o old \in Seq(T) /\ Len(a \o old) = Len(a) + Len(old)
      BY ConcatProperties
    <3>2. a \o new \in Seq(T) /\ Len(a \o new) = Len(a) + Len(new)
      BY ConcatProperties
    <3> QED BY <3>1, <3>2
  <2>3. u[k] = g \o t /\ v[k] = h \o t
    BY <1>6, <2>1, <2>2
  <2>4. Len(g \o t) = Len(g) + Len(t) /\ Len(h \o t) = Len(h) + Len(t)
    BY ConcatProperties
  <2>5. Len(a) \in Nat /\ Len(t) \in Nat /\ Len(old) \in Nat /\ Len(new) \in Nat
    BY LenProperties
  <2>6. Len(u[k]) = Len(a) + Len(old) + Len(t) /\ Len(v[k]) = Len(a) + Len(new) + Len(t)
    BY <2>2, <2>3, <2>4
  <2>7. PICK i \in Nat, j \in Nat, l \in Nat, n \in Nat :
          i = Len(a) /\ j = Len(old) /\ l = Len(t) /\ n = Len(new)
    BY <2>5
  <2>8. Len(u[k]) = i + j + l /\ Len(v[k]) = i + n + l
    BY <2>6, <2>7
  <2>9. i + n + l = (i + j + l) - j + n
    OBVIOUS
  <2> QED BY <2>7, <2>8, <2>9
<1>13. ASSUME NEW k \in 1..m, p[k] = <<x[k]>> PROVE Len(u[k]) = Len(u[k - 1]) + 1
  <2>0. k - 1 \in 0..m
    OBVIOUS
  <2>1. u[k] = u[k - 1] \o p[k] /\ p[k] \in Seq(T) /\ k - 1 \in 0..m
    BY <2>0 DEF IsConcat
  <2>2. PICK a \in Seq(T), b \in Seq(T) : a = u[k - 1] /\ b = p[k] /\ b = <<x[k]>>
    BY <1>0, <1>13, <2>1
  <2>3. Len(b) = 1
    BY <2>2
  <2>4. Len(a \o b) = Len(a) + Len(b)
    BY ConcatProperties
  <2> QED BY <2>1, <2>2, <2>3, <2>4
<1>14. Len(u[e]) = Len(u[s]) + Len(old)
  <2>1. PICK a \in Seq(T) : a = u[s]
    BY <1>0, <1>2
  <2>2. Len(a \o old) = Len(a) + Len(old)
    BY ConcatProperties
  <2> QED BY <1>6, <2>1, <2>2
<1>15. ASSUME NEW k \in (e + 1)..m, p[k] = <<x[k]>> PROVE Len(u[s]) + Len(old) + 1 <= Len(u[k])
  <2>1. k \in 1..m /\ k - 1 \in e..m /\ k - 1 \in 0..m /\ k \in 0..m
    OBVIOUS
  <2>2. Len(u[k]) = Len(u[k - 1]) + 1
    BY <1>13, <1>15, <2>1
  <2>3. Len(u[e]) <= Len(u[k - 1])
    BY <1>2, <1>10, <2>1
  <2>4. Len(u[k - 1]) \in Nat /\ Len(u[e]) \in Nat /\ Len(u[s]) \in Nat /\ Len(old) \in Nat
    BY <1>0, <1>2, <2>1, LenProperties
  <2>5. PICK a \in Nat, b \in Nat, c \in Nat, f \in Nat :
          a = Len(u[k - 1]) /\ b = Len(u[e]) /\ c = Len(u[s]) /\ f = Len(old)
    BY <2>4
  <2>6. b = c + f /\ Len(u[k]) = a + 1 /\ b <= a
    BY <1>14, <2>2, <2>3, <2>5
  <2>7. b + 1 <= a + 1 /\ Len(u[k]) = a + 1
    BY ONLY <2>6, a \in Nat, b \in Nat
  <2>8. Len(u[s]) + Len(old) + 1 = b + 1
    BY <2>5, <2>6
  <2> QED BY <2>7, <2>8
<1>16. ASSUME NEW k \in 1..m, p[k] = <<x[k]>> PROVE 1 <= Len(u[k])
  <2>1. Len(u[k - 1]) \in Nat /\ Len(u[k]) = Len(u[k - 1]) + 1
    BY <1>0, <1>13, <1>16
  <2> QED BY <2>1
<1>17. ASSUME NEW k \in 0..m PROVE Len(u[k]) \in Nat /\ Len(u[k]) <= Len(u[m])
  BY <1>0, <1>10
<1>18. ASSUME NEW k \in 1..s PROVE v[k] = u[k] /\ Len(u[k]) <= Len(u[s])
  <2>1. k \in 0..s /\ k \in 0..m /\ s \in k..m
    OBVIOUS
  <2> QED BY <1>3, <1>10, <2>1
<1> QED BY <1>8, <1>11, <1>12, <1>15, <1>16, <1>17, <1>18 DEF Places

(* What the tokens of a paragraph become, one after the other.             *)
PiecesOf(d, steps, n, pid) == [k \in 1..Len(TextOf(Paragraph(d, pid))) |-> Piece(d, steps, n, pid, k)]

(* The text that tokens become is their pieces put together. *)
LEMMA PathIs ==
  ASSUME NEW E, NEW d \in Documents(E), NEW pid, HasParagraph(d, pid), NEW steps \in Seq(StepRecords),
         NEW n \in Nat, n <= Len(steps), NEW x, x = TextOf(Paragraph(d, pid))
  PROVE  /\ x \in Seq(Tokens) /\ Len(x) \in Nat
         /\ IsConcat(SubstitutedUpTo(d, steps, n, pid), PiecesOf(d, steps, n, pid), Len(x), Tokens)
<1>1. x \in Seq(Tokens) /\ Len(x) \in Nat
  <2>1. PICK j \in DOMAIN d : j = IndexOf(d, pid)
    BY PlaceOf
  <2>2. TextOf(d[j]) \in Seq(Tokens)
    BY ViewIs
  <2> QED BY <2>1, <2>2, LenProperties DEF Paragraph
<1>2. ASSUME NEW k \in 1..Len(x) PROVE Piece(d, steps, n, pid, k) \in Seq(Tokens)
  <2>1. PICK at : at = Covering(d, steps, n, pid, k)
    OBVIOUS
  <2>2. Piece(d, steps, n, pid, k) = PieceFor(d, steps, pid, k, at)
    BY <2>1, PieceIs
  <2>3. CASE at = {}
    <3>1. <<x[k]>> \in Seq(Tokens)
      BY <1>1, ElementOfSeq
    <3> QED BY <2>2, <2>3, <3>1 DEF PieceFor
  <2>4. CASE at # {}
    <3>1. PICK i : i = CHOOSE j \in at : TRUE
      OBVIOUS
    <3>2. i \in at
      BY <2>4, <3>1
    <3>3. i \in 1..n
      BY <2>1, <3>2 DEF Covering
    <3>4. i \in 1..Len(steps)
      BY <3>3, LenProperties
    <3>5. steps[i] \in StepRecords
      BY <3>4, ElementOfSeq
    <3>6. steps[i].new \in Seq(Tokens) /\ <<>> \in Seq(Tokens)
      BY <3>5, StepIs, EmptySeq
    <3>7. PieceFor(d, steps, pid, k, at) = IF k = Found(d, steps[i])[1] + 1 THEN steps[i].new ELSE <<>>
      BY <2>4, <3>1 DEF PieceFor
    <3> QED BY <2>2, <3>6, <3>7
  <2> QED BY <2>3, <2>4
<1>3. IsSubstituted(SubstitutedUpTo(d, steps, n, pid), d, steps, n, pid)
  BY <1>1, SubstitutedIsOne
<1>4. PICK u : u = SubstitutedUpTo(d, steps, n, pid)
  OBVIOUS
<1>5. u[0] = <<>> /\ \A k \in 1..Len(x) : u[k] = u[k - 1] \o Piece(d, steps, n, pid, k)
  BY <1>3, <1>4 DEF IsSubstituted
<1>6. \A k \in 1..Len(x) : PiecesOf(d, steps, n, pid)[k] = Piece(d, steps, n, pid, k)
  BY DEF PiecesOf
<1>7. IsConcat(u, PiecesOf(d, steps, n, pid), Len(x), Tokens)
  BY <1>2, <1>5, <1>6 DEF IsConcat
<1> QED BY <1>1, <1>4, <1>7

(* A step elsewhere leaves the text of a paragraph alone. *)
LEMMA PathKept ==
  ASSUME NEW E, NEW d \in Documents(E), NEW pid, HasParagraph(d, pid), NEW steps \in Seq(StepRecords),
         NEW n \in Nat, n < Len(steps), NEW i, i = n + 1,
         steps[i].op # "replace" \/ steps[i].pid # pid, NEW m, m = Len(TextOf(Paragraph(d, pid)))
  PROVE  \A k \in 0..m : SubstitutedUpTo(d, steps, i, pid)[k] = SubstitutedUpTo(d, steps, n, pid)[k]
<1>1. PICK x : x = TextOf(Paragraph(d, pid))
  OBVIOUS
<1>2. PICK u, v, p, q : /\ u = SubstitutedUpTo(d, steps, n, pid)
                        /\ v = SubstitutedUpTo(d, steps, i, pid)
                        /\ p = PiecesOf(d, steps, n, pid) /\ q = PiecesOf(d, steps, i, pid)
  OBVIOUS
<1>3. n <= Len(steps) /\ i \in Nat /\ i <= Len(steps)
  BY LenProperties
<1>4. m \in Nat /\ IsConcat(u, p, m, Tokens)
  BY <1>1, <1>2, <1>3, PathIs
<1>5. IsConcat(v, q, m, Tokens)
  BY <1>1, <1>2, <1>3, PathIs
<1>6. \A k \in 1..m : Piece(d, steps, i, pid, k) = Piece(d, steps, n, pid, k)
  BY PiecesKept
<1>7. StartAlike(p, q, m)
  BY <1>2, <1>6 DEF StartAlike, PiecesOf
<1>8. \A k \in 0..m : v[k] = u[k]
  <2>1. m \in 0..m
    BY <1>4
  <2> QED BY ONLY <1>4, <1>5, <1>7, <2>1, ConcatStarts
<1> QED BY <1>2, <1>8

(* A step changes the text of its paragraph at its range only.             *)
LEMMA PathChanges ==
  ASSUME NEW E, NEW d \in Documents(E), NEW steps \in Seq(StepRecords), Acceptable(d, steps),
         NEW n \in Nat, n < Len(steps), NEW i, i = n + 1, steps[i].op = "replace",
         NEW s, NEW e, Found(d, steps[i]) = <<s, e>>, NEW pid, pid = steps[i].pid,
         NEW x, x = TextOf(Paragraph(d, pid)), NEW u, u = SubstitutedUpTo(d, steps, n, pid),
         NEW v, v = SubstitutedUpTo(d, steps, i, pid), NEW p, p = PiecesOf(d, steps, n, pid)
  PROVE  /\ RangeIn(s, e, x, steps[i].old)
         /\ SplitAt(u, v, Len(x), s, steps[i].old, steps[i].new, Tokens)
         /\ Places(u, v, p, x, s, e, steps[i].old, steps[i].new)
         /\ \A k \in 0..Len(x) : u[k] \in Seq(Tokens)
<1>0. i \in DOMAIN steps /\ i \in Nat /\ i <= Len(steps) /\ n <= Len(steps)
  BY LenProperties
<1>1. steps[i] \in StepRecords /\ Finds(d, steps[i]) /\ HasParagraph(d, pid)
  BY <1>0, ElementOfSeq, LenProperties DEF Acceptable, Finds
<1>2. PICK old \in Seq(Tokens), new \in Seq(Tokens) : old = steps[i].old /\ new = steps[i].new
  BY <1>1, StepIs
<1>3. RangeIn(s, e, x, old)
  <2>1. PICK a, b : Found(d, steps[i]) = <<a, b>>
          /\ RangeIn(a, b, TextOf(Paragraph(d, steps[i].pid)), steps[i].old)
    BY <1>1, RangeOf
  <2>2. a = s /\ b = e
    BY <2>1
  <2> QED BY <1>2, <2>1, <2>2
<1>4. PICK q : q = PiecesOf(d, steps, i, pid)
  OBVIOUS
<1>5. x \in Seq(Tokens) /\ Len(x) \in Nat /\ IsConcat(u, p, Len(x), Tokens)
  BY <1>0, <1>1, PathIs
<1>6. IsConcat(v, q, Len(x), Tokens)
  BY <1>0, <1>1, <1>4, PathIs
<1>7. ChangesAt(p, q, x, s, e, new)
  <2>1. ASSUME NEW k \in 1..Len(x)
        PROVE  IF Inside(s, e, k) THEN p[k] = <<x[k]>> /\ q[k] = IF k = s + 1 THEN new ELSE <<>>
               ELSE q[k] = p[k]
    <3>1. p[k] = Piece(d, steps, n, pid, k) /\ q[k] = Piece(d, steps, i, pid, k)
      BY <1>4 DEF PiecesOf
    <3>2. k \in Nat
      OBVIOUS
    <3>3. CASE Inside(s, e, k)
      BY <1>2, <3>1, <3>2, <3>3, PiecesNext
    <3>4. CASE ~Inside(s, e, k)
      BY <3>1, <3>2, <3>4, PiecesNext
    <3> QED BY <3>3, <3>4
  <2> QED BY <2>1 DEF ChangesAt
<1>8. s \in Nat /\ e \in Nat /\ s < e /\ e <= Len(x) /\ old = SubSeq(x, s + 1, e)
  BY <1>3 DEF RangeIn
<1>9. PICK m \in Nat : m = Len(x)
  BY <1>5
<1>10. SplitAt(u, v, m, s, old, new, Tokens) /\ Places(u, v, p, x, s, e, old, new)
  <2>1. IsConcat(u, p, m, Tokens) /\ IsConcat(v, q, m, Tokens) /\ e <= m
    BY <1>5, <1>6, <1>8, <1>9
  <2> QED BY ONLY <1>5, <1>7, <1>8, <1>9, <2>1, m \in Nat, old \in Seq(Tokens), new \in Seq(Tokens), TextsSplit
<1>11. \A k \in 0..Len(x) : u[k] \in Seq(Tokens)
  BY <1>5, ConcatTyped
<1> QED BY <1>2, <1>3, <1>9, <1>10, <1>11

(* A cut inside a range that gives what the whole range gives.             *)
CutsInside(t, range, text, step) ==
  /\ t.s \in Nat /\ t.e \in Nat /\ t.new \in Seq(Tokens)
  /\ range[1] <= t.s /\ t.s <= t.e /\ t.e <= range[2]
  /\ Len(t.new) + Len(step.old) = Len(step.new) + (t.e - t.s)
  /\ PutInto(text, t.s, t.e, t.new) = PutInto(text, range[1], range[2], step.new)

(* Trimming a replacement does not change what it gives. *)
LEMMA TrimmedCuts ==
  ASSUME NEW text \in Seq(Tokens), NEW step \in StepRecords, step.op = "replace",
         NEW range, Covers(range, text, step.old), NEW t, t = Trimmed(step, range)
  PROVE  CutsInside(t, range, text, step)
<1>1. range \in Nat \X Nat /\ RangeFits(step, range)
  BY DEF Covers, RangeFits
<1>2. PICK pre, post : pre \in Nat /\ post \in Nat /\ LeavesOut(t, step, range, pre, post)
  BY <1>1, TrimmedParts
<1>3. PICK k \in Nat, l \in Nat : k = pre /\ l = post
  BY <1>2
<1>4. PICK o \in Nat, m \in Nat : o = Len(step.old) /\ m = Len(step.new)
  BY StepIs, LenProperties
<1>5. PICK a \in Nat, b \in Nat : a = range[1] /\ b = range[2]
  BY <1>1
<1>6. /\ t.s \in Nat /\ t.e \in Nat /\ t.s <= t.e /\ t.e <= Len(text) /\ t.new \in Seq(Tokens)
      /\ PutInto(text, t.s, t.e, t.new) = PutInto(text, range[1], range[2], step.new)
  BY TrimmedPut
<1>7. b = a + o
  BY <1>4, <1>5 DEF Covers
<1>8. /\ k + l <= o /\ k + l <= m
      /\ t.s = a + k /\ t.e = b - l /\ Len(t.new) = m - k - l
  BY <1>2, <1>3, <1>4, <1>5 DEF LeavesOut
<1>9. a <= t.s /\ t.e <= b /\ Len(t.new) + o = m + (t.e - t.s)
  BY ONLY <1>7, <1>8, k \in Nat, l \in Nat, o \in Nat, m \in Nat, a \in Nat, b \in Nat
<1> QED BY <1>4, <1>5, <1>6, <1>9 DEF CutsInside

(* Nor, of course, does replacing the whole range. *)
LEMMA WholeCuts ==
  ASSUME NEW text, NEW d, NEW step \in StepRecords, step.op = "replace",
         NEW range, range = Found(d, step), Covers(range, text, step.old), NEW t, t = Whole(d, step)
  PROVE  CutsInside(t, range, text, step)
<1>1. PICK o \in Nat, m \in Nat : o = Len(step.old) /\ m = Len(step.new)
  BY StepIs, LenProperties
<1>2. PICK a \in Nat, b \in Nat : a = range[1] /\ b = range[2] /\ b = a + o
  BY <1>1 DEF Covers
<1>3. t.s = a /\ t.e = b /\ t.new = step.new /\ t.new \in Seq(Tokens)
  BY <1>2, StepIs DEF Whole
<1>4. m + o = m + (b - a) /\ a <= a /\ a <= b /\ b <= b
  BY <1>2
<1>5. PutInto(text, t.s, t.e, t.new) = PutInto(text, range[1], range[2], step.new)
  BY <1>2, <1>3
<1>6. /\ t.s \in Nat /\ t.e \in Nat /\ range[1] <= t.s /\ t.s <= t.e /\ t.e <= range[2]
      /\ Len(t.new) + Len(step.old) = Len(step.new) + (t.e - t.s)
  BY <1>1, <1>2, <1>3, <1>4
<1> QED BY <1>3, <1>5, <1>6 DEF CutsInside

(* The overlapped runs share one parent.                                   *)
OneParent(p, s, e) == \A k \in (s + 1)..e : ShownItem(p, k).in = ShownItem(p, s + 1).in

(* Why a replacement may be refused. *)
LEMMA RefusedIs ==
  ASSUME NEW E, NEW p \in ParagraphsIn(E), NEW s \in Nat, NEW e \in Nat
  PROVE  /\ ~Refused(p, s, e) => OneParent(p, s, e)
         /\ OneParent(p, s, e) /\ e <= Len(TextOf(p)) /\ Len(TextOf(p)) # 0 => ~Refused(p, s, e)
<1>1. PICK n \in Nat : n = Len(ShownAt(p.body)) /\ Len(TextOf(p)) = n
  <2>1. p.body \in Bodies(E)
    BY DEF ParagraphsIn
  <2> QED BY <2>1, TextOfBody
<1>2. PICK at : at = ShownAt(p.body)
  OBVIOUS
<1>3. \A k : ShownItem(p, k) = p.body[at[k]]
  BY <1>2 DEF ShownItem
<1>4. OneParent(p, s, e) <=> \A k \in (s + 1)..e : p.body[at[k]].in = p.body[at[s + 1]].in
  BY <1>3 DEF OneParent
<1>5. Refused(p, s, e) <=> (at = <<>> \/ e > Len(at) \/ \E k \in (s + 1)..e : p.body[at[k]].in # p.body[at[s + 1]].in)
  BY <1>2 DEF Refused
<1>6. at = <<>> => n = 0
  BY <1>1, <1>2
<1> QED BY <1>1, <1>2, <1>4, <1>5, <1>6

(* A paragraph tells of the first n steps: it shows the text they give,    *)
(* and the tokens no step has touched have their parents.                  *)
Tells(q, d, steps, n, pid) ==
  /\ TextOf(q) = Substituted(d, steps, n, pid)
  /\ \A k \in 1..Len(TextOf(Paragraph(d, pid))) :
       Covering(d, steps, n, pid, k) = {} =>
         ShownItem(q, Len(SubstitutedUpTo(d, steps, n, pid)[k])).in = ShownItem(Paragraph(d, pid), k).in

(* Before any step a paragraph is what it was. *)
LEMMA TellsFirst ==
  ASSUME NEW E, NEW d \in Documents(E), NEW pid, HasParagraph(d, pid), NEW steps \in Seq(StepRecords)
  PROVE  Tells(Paragraph(d, pid), d, steps, 0, pid)
<1>1. PICK x : x = TextOf(Paragraph(d, pid))
  OBVIOUS
<1>2. PICK u, p : u = SubstitutedUpTo(d, steps, 0, pid) /\ p = PiecesOf(d, steps, 0, pid)
  OBVIOUS
<1>3. 0 \in Nat /\ 0 <= Len(steps)
  BY LenProperties
<1>4. x \in Seq(Tokens) /\ Len(x) \in Nat /\ IsConcat(u, p, Len(x), Tokens)
  BY <1>1, <1>2, <1>3, PathIs
<1>5. PICK m \in Nat : m = Len(x)
  BY <1>4
<1>6. \A k : Covering(d, steps, 0, pid, k) = {}
  BY DEF Covering
<1>7. Singles(p, x, 0, m)
  <2>1. ASSUME NEW k \in (0 + 1)..m PROVE p[k] = <<x[k]>>
    <3>1. p[k] = Piece(d, steps, 0, pid, k)
      BY <1>1, <1>2, <1>5 DEF PiecesOf
    <3>2. Piece(d, steps, 0, pid, k) = PieceFor(d, steps, pid, k, {})
      BY <1>6, PieceIs
    <3> QED BY <1>1, <3>1, <3>2 DEF PieceFor
  <2> QED BY <2>1 DEF Singles
<1>8. StretchFrom(u, x, 0, m)
  <2>1. IsConcat(u, p, m, Tokens) /\ 0 \in Nat /\ 0 <= m /\ m <= m
    BY <1>4, <1>5
  <2> QED BY ONLY <1>4, <1>5, <1>7, <2>1, m \in Nat, ConcatStretch
<1>9. ASSUME NEW k \in 0..m PROVE u[k] = SubSeq(x, 1, k) /\ Len(u[k]) = k
  <2>1. u[k] = u[0] \o SubSeq(x, 0 + 1, k) /\ u[0] = <<>>
    BY <1>4, <1>8 DEF StretchFrom, IsConcat
  <2>2. SubSeq(x, 1, k) \in Seq(Tokens) /\ Len(SubSeq(x, 1, k)) = k
    BY <1>4, <1>5
  <2> QED BY <2>1, <2>2
<1>10. u[m] = x
  <2>1. u[m] = SubSeq(x, 1, m)
    BY <1>9
  <2> QED BY <1>4, <1>5, <2>1
<1>11. \A k \in 1..Len(x) : Len(u[k]) = k
  BY <1>5, <1>9
<1> QED BY <1>1, <1>2, <1>5, <1>10, <1>11 DEF Tells, Substituted

(* A step elsewhere leaves a paragraph what it tells. *)
LEMMA TellsKept ==
  ASSUME NEW E, NEW d \in Documents(E), NEW pid, HasParagraph(d, pid), NEW steps \in Seq(StepRecords),
         NEW n \in Nat, n < Len(steps), NEW i, i = n + 1,
         steps[i].op # "replace" \/ steps[i].pid # pid, NEW q, Tells(q, d, steps, n, pid)
  PROVE  Tells(q, d, steps, i, pid)
<1>1. PICK m : m = Len(TextOf(Paragraph(d, pid)))
  OBVIOUS
<1>2. PICK u, v : u = SubstitutedUpTo(d, steps, n, pid) /\ v = SubstitutedUpTo(d, steps, i, pid)
  OBVIOUS
<1>3. \A k \in 0..m : v[k] = u[k]
  BY <1>1, <1>2, PathKept
<1>4. \A k : Covering(d, steps, i, pid, k) = Covering(d, steps, n, pid, k)
  BY PiecesKept
<1>5. m \in Nat
  <2>1. n <= Len(steps)
    BY LenProperties
  <2> QED BY <1>1, <2>1, PathIs
<1>6. v[m] = u[m]
  BY <1>3, <1>5
<1>7. TextOf(q) = u[m] /\ \A k \in 1..m : Covering(d, steps, n, pid, k) = {} => ShownItem(q, Len(u[k])).in = ShownItem(Paragraph(d, pid), k).in
  BY <1>1, <1>2 DEF Tells, Substituted
<1>8. TextOf(q) = v[m] /\ \A k \in 1..m : Covering(d, steps, i, pid, k) = {} => ShownItem(q, Len(v[k])).in = ShownItem(Paragraph(d, pid), k).in
  BY <1>3, <1>4, <1>5, <1>6, <1>7
<1> QED BY <1>1, <1>2, <1>8 DEF Tells, Substituted

(* Where the steps before have moved the range of a step.                  *)
Shifted(u, s, old) == <<Len(u[s]), Len(u[s]) + Len(old)>>

(* A step of the batch, where the steps before it are done. *)
StepAt(d, steps, n, i, step) ==
  /\ Acceptable(d, steps) /\ n < Len(steps) /\ i = n + 1 /\ step = steps[i]

StandsAt(q, range, old) ==
  Covers(range, TextOf(q), old) /\ range[1] \in Matches(TextOf(q), old) /\ range[1] < range[2]

(* The text of a step still stands, where the steps before it moved it. *)
LEMMA StepStands ==
  ASSUME NEW E, NEW d \in Documents(E), NEW steps \in Seq(StepRecords), NEW n \in Nat, NEW i,
         NEW step, StepAt(d, steps, n, i, step), step.op = "replace",
         NEW s, NEW e, Found(d, step) = <<s, e>>, NEW q, Tells(q, d, steps, n, step.pid),
         NEW range, range = Shifted(SubstitutedUpTo(d, steps, n, step.pid), s, step.old)
  PROVE  /\ StandsAt(q, range, step.old)
         /\ OneParent(q, range[1], range[2]) <=> OneParent(Paragraph(d, step.pid), s, e)
<1> SUFFICES ASSUME Acceptable(d, steps), n < Len(steps), i = n + 1, steps[i].op = "replace",
                    Found(d, steps[i]) = <<s, e>>, NEW pid, pid = steps[i].pid, Tells(q, d, steps, n, pid),
                    range = Shifted(SubstitutedUpTo(d, steps, n, pid), s, steps[i].old)
             PROVE  /\ Covers(range, TextOf(q), steps[i].old)
                    /\ range[1] \in Matches(TextOf(q), steps[i].old)
                    /\ OneParent(q, range[1], range[2]) <=> OneParent(Paragraph(d, pid), s, e)
                    /\ range[1] < range[2]
  BY DEF StepAt, StandsAt
<1>1. PICK x, u, v, p : /\ x = TextOf(Paragraph(d, pid)) /\ u = SubstitutedUpTo(d, steps, n, pid)
                        /\ v = SubstitutedUpTo(d, steps, i, pid) /\ p = PiecesOf(d, steps, n, pid)
  OBVIOUS
<1>2. /\ RangeIn(s, e, x, steps[i].old)
      /\ SplitAt(u, v, Len(x), s, steps[i].old, steps[i].new, Tokens)
      /\ Places(u, v, p, x, s, e, steps[i].old, steps[i].new)
      /\ \A k \in 0..Len(x) : u[k] \in Seq(Tokens)
  BY <1>1, PathChanges
<1>3. i \in DOMAIN steps
  BY LenProperties
<1>4. steps[i] \in StepRecords
  BY <1>3, ElementOfSeq, LenProperties
<1>5. PICK old \in Seq(Tokens), new \in Seq(Tokens) : old = steps[i].old /\ new = steps[i].new
  BY <1>4, StepIs
<1>6. s \in Nat /\ e \in Nat /\ s < e /\ e <= Len(x) /\ e = s + Len(old)
  BY <1>2, <1>5 DEF RangeIn
<1>7. HasParagraph(d, pid)
  BY <1>3 DEF Acceptable, Finds
<1>8. PICK m \in Nat : m = Len(x)
  <2>1. n <= Len(steps)
    BY LenProperties
  <2> QED BY <1>1, <1>7, <2>1, PathIs
<1>9. PICK tail \in Seq(Tokens) : u[m] = (u[s] \o old) \o tail /\ v[m] = (u[s] \o new) \o tail
  BY <1>2, <1>5, <1>8 DEF SplitAt
<1>10. PICK a \in Seq(Tokens) : a = u[s]
  <2>1. s \in 0..Len(x)
    BY <1>6, <1>8
  <2> QED BY <1>2, <2>1
<1>11. PICK text : text = TextOf(q)
  OBVIOUS
<1>12. text = (a \o old) \o tail
  BY <1>1, <1>8, <1>9, <1>10, <1>11 DEF Tells, Substituted
<1>13a. PICK S \in Nat, o \in Nat : S = Len(a) /\ o = Len(old)
  BY LenProperties
<1>13b. PICK Z \in Nat : Z = S + o
  OBVIOUS
<1>13. S = Len(a) /\ Z = S + Len(old) /\ o = Len(old) /\ o # 0 /\ e = s + o
  BY <1>6, <1>13a, <1>13b
<1>14. range = <<S, Z>> /\ range[1] = S /\ range[2] = Z
  <2>1. range = Shifted(u, s, old)
    BY <1>1, <1>5
  <2>2. Shifted(u, s, old) = <<S, Z>>
    BY <1>10, <1>13 DEF Shifted
  <2> QED BY ONLY <2>1, <2>2
<1>15. text \in Seq(Tokens) /\ Z <= Len(text) /\ SubSeq(text, S + 1, Z) = old
  <2>2. Between(text, a, old, tail, S, Z)
    BY <1>12, <1>13 DEF Between
  <2>3. HoldsAt(text, S, Z, old)
    BY <2>2, PutBetween
  <2> QED BY <2>3 DEF HoldsAt
<1>16. Covers(range, text, old)
  BY <1>13, <1>14, <1>15 DEF Covers
<1>17. S \in Matches(text, old)
  <2>1. PICK l \in Nat : l = Len(text)
    BY <1>15, LenProperties
  <2>2. S \in 0..(Len(text) - Len(old))
    BY ONLY <1>13, <1>15, <2>1, S \in Nat, Z \in Nat, o \in Nat, l \in Nat
  <2>3. old # <<>>
    BY <1>13
  <2> QED BY <1>13, <1>15, <2>2, <2>3 DEF Matches
<1>18. ASSUME NEW k \in (s + 1)..e PROVE ShownItem(q, S + (k - s)).in = ShownItem(Paragraph(d, pid), k).in
  <2>1. k \in 1..Len(x) /\ k \in Nat /\ Inside(s, e, k)
    BY <1>6, <1>8 DEF Inside
  <2>2. Covering(d, steps, n, pid, k) = {}
    BY <2>1, NotCoveredYet
  <2>3. Len(u[k]) = S + (k - s)
    BY <1>2, <1>10, <1>13 DEF Places
  <2> QED BY <1>1, <2>1, <2>2, <2>3 DEF Tells
<1>19. OneParent(q, S, Z) <=> OneParent(Paragraph(d, pid), s, e)
  <2>0. PICK f : f = s + 1
    OBVIOUS
  <2>1. f \in (s + 1)..e /\ f = s + 1 /\ S + (f - s) = S + 1
    BY <1>6, <2>0
  <2>2. ShownItem(q, S + 1).in = ShownItem(Paragraph(d, pid), s + 1).in
    BY <1>18, <2>1
  <2>3. ASSUME OneParent(q, S, Z), NEW k \in (s + 1)..e
        PROVE  ShownItem(Paragraph(d, pid), k).in = ShownItem(Paragraph(d, pid), s + 1).in
    <3>1. S + (k - s) \in (S + 1)..Z
      BY <1>6, <1>13
    <3> QED BY <1>18, <2>2, <2>3, <3>1 DEF OneParent
  <2>4. ASSUME OneParent(Paragraph(d, pid), s, e), NEW k \in (S + 1)..Z
        PROVE  ShownItem(q, k).in = ShownItem(q, S + 1).in
    <3>0. PICK l : l = s + (k - S)
      OBVIOUS
    <3>1. l \in (s + 1)..e /\ k = S + (l - s)
      <4>1. s \in Nat
        BY <1>6
      <4> QED BY ONLY <1>13, <1>13b, k \in (S + 1)..Z, <4>1, S \in Nat, o \in Nat, <3>0
    <3> QED BY <1>18, <2>2, <2>4, <3>1 DEF OneParent
  <2> QED BY <2>3, <2>4 DEF OneParent
<1>20. S < Z
  BY <1>13
<1> QED BY <1>5, <1>11, <1>14, <1>16, <1>17, <1>19, <1>20

(* A range whose runs share one parent can be replaced, or a part of it.   *)
LEMMA StepAllowed ==
  ASSUME NEW F, NEW q \in ParagraphsIn(F), NEW range, NEW step \in StepRecords,
         Covers(range, TextOf(q), step.old), range[1] < range[2], OneParent(q, range[1], range[2]),
         NEW t, CutsInside(t, range, TextOf(q), step)
  PROVE  ~Refused(q, t.s, t.e)
<1>1. PICK a \in Nat, b \in Nat : a = range[1] /\ b = range[2] /\ a < b /\ b <= Len(TextOf(q))
  BY DEF Covers
<1>2. PICK s \in Nat, e \in Nat : s = t.s /\ e = t.e /\ a <= s /\ s <= e /\ e <= b
  BY <1>1 DEF CutsInside
<1>3. PICK l \in Nat : l = Len(TextOf(q))
  BY TextIsASequence
<1>4. OneParent(q, s, e)
  <2>1. ASSUME NEW k \in (s + 1)..e PROVE ShownItem(q, k).in = ShownItem(q, s + 1).in
    <3>1. k \in (a + 1)..b /\ s + 1 \in (a + 1)..b
      BY <1>1, <1>2
    <3> QED BY <1>1, <3>1 DEF OneParent
  <2> QED BY <2>1 DEF OneParent
<1>5. e <= l /\ l # 0
  BY <1>1, <1>2, <1>3
<1> QED BY <1>2, <1>3, <1>4, <1>5, RefusedIs

(* The step is done: its paragraph tells of it.                            *)
LEMMA TellsNext ==
  ASSUME NEW E, NEW d \in Documents(E), NEW steps \in Seq(StepRecords), NEW n \in Nat, NEW i,
         NEW step, StepAt(d, steps, n, i, step), step.op = "replace",
         NEW s, NEW e, Found(d, step) = <<s, e>>,
         NEW F, NEW q \in ParagraphsIn(F), Tells(q, d, steps, n, step.pid),
         NEW range, range = Shifted(SubstitutedUpTo(d, steps, n, step.pid), s, step.old),
         NEW t, CutsInside(t, range, TextOf(q), step), ~Refused(q, t.s, t.e), NEW next \in Nat,
         NEW r, r = TrackedReplace(q, t.s, t.e, t.new, AI, next).p
  PROVE  Tells(r, d, steps, i, step.pid)
<1> SUFFICES ASSUME Acceptable(d, steps), n < Len(steps), i = n + 1, steps[i].op = "replace",
                    Found(d, steps[i]) = <<s, e>>, NEW pid, pid = steps[i].pid, Tells(q, d, steps, n, pid),
                    range = Shifted(SubstitutedUpTo(d, steps, n, pid), s, steps[i].old),
                    CutsInside(t, range, TextOf(q), steps[i])
             PROVE  Tells(r, d, steps, i, pid)
  BY DEF StepAt
<1>1. PICK x, u, v, p : /\ x = TextOf(Paragraph(d, pid)) /\ u = SubstitutedUpTo(d, steps, n, pid)
                        /\ v = SubstitutedUpTo(d, steps, i, pid) /\ p = PiecesOf(d, steps, n, pid)
  OBVIOUS
<1>2. /\ RangeIn(s, e, x, steps[i].old)
      /\ SplitAt(u, v, Len(x), s, steps[i].old, steps[i].new, Tokens)
      /\ Places(u, v, p, x, s, e, steps[i].old, steps[i].new)
      /\ \A k \in 0..Len(x) : u[k] \in Seq(Tokens)
  BY <1>1, PathChanges
<1>3. i \in DOMAIN steps
  BY LenProperties
<1>4. steps[i] \in StepRecords
  BY <1>3, ElementOfSeq, LenProperties
<1>5. PICK old \in Seq(Tokens), new \in Seq(Tokens) : old = steps[i].old /\ new = steps[i].new
  BY <1>4, StepIs
<1>6. s \in Nat /\ e \in Nat /\ s < e /\ e <= Len(x) /\ e = s + Len(old)
  BY <1>2, <1>5 DEF RangeIn
<1>7. HasParagraph(d, pid)
  BY <1>3 DEF Acceptable, Finds
<1>8. PICK m \in Nat : m = Len(x)
  <2>1. n <= Len(steps)
    BY LenProperties
  <2> QED BY <1>1, <1>7, <2>1, PathIs
<1>9. PICK tail \in Seq(Tokens) : u[m] = (u[s] \o old) \o tail /\ v[m] = (u[s] \o new) \o tail
  BY <1>2, <1>5, <1>8 DEF SplitAt
<1>10. PICK a \in Seq(Tokens) : a = u[s]
  <2>1. s \in 0..Len(x)
    BY <1>6, <1>8
  <2> QED BY <1>2, <2>1
<1>11. PICK text : text = TextOf(q)
  OBVIOUS
<1>12. text = (a \o old) \o tail /\ text = u[m]
  BY <1>1, <1>8, <1>9, <1>10, <1>11 DEF Tells, Substituted
<1>13a. PICK S \in Nat, o \in Nat, w \in Nat : S = Len(a) /\ o = Len(old) /\ w = Len(new)
  BY LenProperties
<1>13b. PICK Z \in Nat : Z = S + o
  OBVIOUS
<1>13. S = Len(a) /\ Z = S + Len(old) /\ o = Len(old) /\ w = Len(new)
  BY <1>13a, <1>13b
<1>14. range = <<S, Z>> /\ range[1] = S /\ range[2] = Z
  <2>1. range = Shifted(u, s, old)
    BY <1>1, <1>5
  <2>2. Shifted(u, s, old) = <<S, Z>>
    BY <1>10, <1>13 DEF Shifted
  <2> QED BY ONLY <2>1, <2>2
<1>15. PutInto(text, S, Z, new) = (a \o new) \o tail
  <2>2. Between(text, a, old, tail, S, Z)
    BY <1>12, <1>13 DEF Between
  <2>4. PutGives(text, S, Z, new, a, tail)
    BY <2>2, PutBetween
  <2> QED BY <2>4 DEF PutGives
<1>16. PICK ts \in Nat, te \in Nat, tw \in Nat :
         /\ ts = t.s /\ te = t.e /\ tw = Len(t.new) /\ S <= ts /\ ts <= te /\ te <= Z
         /\ tw + o = w + (te - ts)
  <2>1. t.s \in Nat /\ t.e \in Nat /\ Len(t.new) \in Nat
    BY LenProperties DEF CutsInside
  <2> QED BY <1>5, <1>13, <1>14, <2>1 DEF CutsInside
<1>17. t.new \in Seq(Tokens) /\ PutInto(text, ts, te, t.new) = PutInto(text, S, Z, new)
  BY <1>5, <1>11, <1>14, <1>16 DEF CutsInside
<1>18. TextOf(r) = PutInto(text, ts, te, t.new) /\ KeepsAround(r, q, ts, te, tw)
  <2>1. ~Refused(q, ts, te) /\ ts <= te
    BY <1>16
  <2>2. r = TrackedReplace(q, ts, te, t.new, AI, next).p
    BY <1>16
  <2>3. /\ TextOf(TrackedReplace(q, ts, te, t.new, AI, next).p) = PutInto(TextOf(q), ts, te, t.new)
        /\ KeepsAround(TrackedReplace(q, ts, te, t.new, AI, next).p, q, ts, te, Len(t.new))
    BY <1>17, <2>1, TrackedReplaceShows
  <2> QED BY <1>11, <1>16, <2>2, <2>3
<1>19. TextOf(r) = v[m]
  BY <1>9, <1>10, <1>15, <1>17, <1>18
<1>20. ASSUME NEW k \in 1..m, Covering(d, steps, i, pid, k) = {}
       PROVE  ShownItem(r, Len(v[k])).in = ShownItem(Paragraph(d, pid), k).in
  <2>1. k \in Nat
    OBVIOUS
  <2>2. ~Inside(s, e, k) /\ Covering(d, steps, n, pid, k) = {}
    <3>1. CASE Inside(s, e, k)
      <4>1. Covering(d, steps, i, pid, k) # {}
        BY <2>1, <3>1, PiecesNext
      <4> QED BY <1>20, <4>1
    <3>2. CASE ~Inside(s, e, k)
      <4>1. /\ Piece(d, steps, i, pid, k) = Piece(d, steps, n, pid, k)
            /\ Covering(d, steps, i, pid, k) = Covering(d, steps, n, pid, k)
        BY <2>1, <3>2, PiecesNext
      <4> QED BY <1>20, <3>2, <4>1
    <3> QED BY <3>1, <3>2
  <2>3. k \in 1..Len(x) /\ p[k] = <<x[k]>>
    <3>1. p[k] = Piece(d, steps, n, pid, k)
      BY <1>1, <1>8 DEF PiecesOf
    <3> QED BY <1>1, <1>8, <2>2, <3>1, PieceIs DEF PieceFor
  <2>4. PICK c \in Nat, l \in Nat : c = Len(u[k]) /\ l = Len(u[m]) /\ 1 <= c /\ c <= l
    <3>1. k \in 0..Len(x) /\ m \in 0..Len(x)
      BY <1>8
    <3> QED BY <1>2, <1>8, <2>3, <3>1 DEF Places
  <2>5. ShownItem(q, c).in = ShownItem(Paragraph(d, pid), k).in
    BY <1>1, <2>2, <2>3, <2>4 DEF Tells
  <2>6. CASE k <= s
    <3>1. k \in 1..s
      BY <2>6
    <3>2. v[k] = u[k] /\ c <= S
      BY <1>2, <1>10, <1>13, <2>4, <3>1 DEF Places
    <3>3. c \in 1..ts
      BY <1>16, <2>4, <3>2
    <3>4. ShownItem(r, c) = ShownItem(q, c)
      BY <1>18, <3>3 DEF KeepsAround
    <3> QED BY <2>4, <2>5, <3>2, <3>4
  <2>7. CASE k > e
    <3>1. k \in (e + 1)..Len(x)
      BY <1>6, <1>8, <2>7
    <3>2. Len(v[k]) = c - o + w /\ Z + 1 <= c
      BY <1>2, <1>5, <1>10, <1>13, <2>3, <2>4, <3>1 DEF Places
    <3>3. c \in (te + 1)..Len(TextOf(q))
      <4>1. te + 1 <= c /\ c <= l
        BY ONLY <1>16, <2>4, <3>2, te \in Nat, Z \in Nat, c \in Nat
      <4>2. Len(TextOf(q)) = l
        BY <1>11, <1>12, <2>4
      <4> QED BY <4>1, <4>2
    <3>4. ShownItem(r, c - (te - ts) + tw) = ShownItem(q, c)
      BY <1>18, <3>3 DEF KeepsAround
    <3>5. c - (te - ts) + tw = c - o + w
      <4>1. tw + o = w + (te - ts)
        BY <1>16
      <4> QED BY ONLY <4>1, c \in Nat, te \in Nat, ts \in Nat, tw \in Nat, o \in Nat, w \in Nat
    <3> QED BY <2>5, <3>2, <3>4, <3>5
  <2> QED BY <1>6, <2>1, <2>2, <2>6, <2>7 DEF Inside
<1>21. TextOf(r) = Substituted(d, steps, i, pid)
  BY <1>1, <1>8, <1>19 DEF Substituted
<1> QED BY <1>1, <1>8, <1>20, <1>21 DEF Tells

(* The same paragraphs, with the same ids.                                 *)
SameIds(w, view) ==
  /\ view \in Seq(Views) /\ Len(view) = Len(w)
  /\ \A j \in DOMAIN w : view[j].id = w[j].id

(* w is d with the first n steps done.                                     *)
TellsAll(w, d, steps, n, view) ==
  \A j \in DOMAIN w :
    IF HasParagraph(d, w[j].id) THEN Tells(w[j], d, steps, n, w[j].id) ELSE TextOf(w[j]) = view[j].text

Reaches(w, d, steps, n) ==
  /\ \E E : w \in Documents(E)
  /\ DistinctIds(w)
  /\ \A pid : HasParagraph(d, pid) => HasParagraph(w, pid)
  /\ SameIds(w, InsertedUpTo(d, steps)[n])
  /\ TellsAll(w, d, steps, n, InsertedUpTo(d, steps)[n])

(* Nothing is done at first. *)
LEMMA ReachesFirst ==
  ASSUME NEW E, NEW d \in Documents(E), DistinctIds(d), NEW steps \in Seq(StepRecords)
  PROVE  Reaches(d, d, steps, 0)
<1>1. PICK view : view = InsertedUpTo(d, steps)[0]
  OBVIOUS
<1>2. view = View(d)
  <2>1. TellsInserted(InsertedUpTo(d, steps), d, steps)
    BY LenProperties, InsertedIsOne
  <2> QED BY <1>1, <2>1 DEF TellsInserted
<1>3. SameIds(d, view)
  BY <1>2, ViewIs DEF SameIds
<1>4. TellsAll(d, d, steps, 0, view)
  <2>1. ASSUME NEW j \in DOMAIN d PROVE Tells(d[j], d, steps, 0, d[j].id) /\ HasParagraph(d, d[j].id)
    <3>1. PICK pid : pid = d[j].id
      OBVIOUS
    <3>2. HasParagraph(d, pid) /\ Paragraph(d, pid) = d[j]
      BY <3>1, TheOnlyPlace
    <3>3. Tells(Paragraph(d, pid), d, steps, 0, pid)
      BY <3>2, TellsFirst
    <3> QED BY <3>1, <3>2, <3>3
  <2> QED BY <2>1 DEF TellsAll
<1> QED BY <1>1, <1>3, <1>4 DEF Reaches

(* All is done: the document shows what is meant. *)
LEMMA ReachesGoal ==
  ASSUME NEW d, NEW steps \in Seq(StepRecords), NEW w, Reaches(w, d, steps, Len(steps))
  PROVE  View(w) = Goal(d, steps)
<1>1. PICK n : n = Len(steps)
  OBVIOUS
<1>2. PICK view : view = InsertedUpTo(d, steps)[n]
  OBVIOUS
<1>3. PICK E : w \in Documents(E)
  BY DEF Reaches
<1>4. /\ SameIds(w, view) /\ TellsAll(w, d, steps, n, view)
  BY <1>1, <1>2 DEF Reaches
<1> DEFINE told(j) == IF HasParagraph(d, view[j].id)
                      THEN [id |-> view[j].id, text |-> Substituted(d, steps, n, view[j].id)]
                        ELSE view[j]
<1>5. Goal(d, steps) = [j \in DOMAIN view |-> told(j)]
  BY <1>1, <1>2 DEF Goal, GoalAfter
<1>6. DOMAIN view = DOMAIN w
  <2>1. DOMAIN view = 1..Len(view)
    BY <1>4, LenProperties DEF SameIds
  <2> QED BY <1>3, <1>4, <2>1, ViewIs DEF SameIds
<1>7. ASSUME NEW j \in DOMAIN w PROVE told(j) = [id |-> w[j].id, text |-> TextOf(w[j])]
  <2>1. view[j].id = w[j].id
    BY <1>4 DEF SameIds
  <2>2. CASE HasParagraph(d, w[j].id)
    <3>1. TextOf(w[j]) = Substituted(d, steps, n, w[j].id)
      BY <1>4, <2>2 DEF TellsAll, Tells
    <3> QED BY <2>1, <2>2, <3>1
  <2>3. CASE ~HasParagraph(d, w[j].id)
    <3>1. TextOf(w[j]) = view[j].text
      BY <1>4, <2>3 DEF TellsAll
    <3>2. view[j] \in Views
      BY <1>4, <1>6, ElementOfSeq, LenProperties DEF SameIds
    <3>3. view[j] = [id |-> view[j].id, text |-> view[j].text]
      BY <3>2 DEF Views
    <3> QED BY <2>1, <2>3, <3>1, <3>3
  <2> QED BY <2>2, <2>3
<1> HIDE DEF told
<1>8. View(w) = [j \in DOMAIN w |-> told(j)]
  BY <1>7 DEF View
<1> QED BY <1>5, <1>6, <1>8

(* What is known of a step of a batch that was checked. *)
LEMMA StepAtIs ==
  ASSUME NEW E, NEW d \in Documents(E), NEW steps \in Seq(StepRecords), NEW n \in Nat, NEW i, NEW step,
         StepAt(d, steps, n, i, step)
  PROVE  /\ step \in StepRecords /\ Finds(d, step) /\ HasParagraph(d, step.pid)
         /\ i \in DOMAIN steps /\ n <= Len(steps) /\ i \in Nat /\ i <= Len(steps)
         /\ step.op = "replace" => \E s, e : Found(d, step) = <<s, e>>
<1>1. i \in DOMAIN steps /\ n <= Len(steps) /\ i \in Nat /\ i <= Len(steps)
  BY LenProperties DEF StepAt
<1>2. step \in StepRecords
  BY <1>1, ElementOfSeq, LenProperties DEF StepAt
<1>3. Finds(d, step)
  BY <1>1 DEF StepAt, Acceptable
<1>4. ASSUME step.op = "replace" PROVE \E s, e : Found(d, step) = <<s, e>>
  BY <1>2, <1>3, <1>4, RangeOf
<1> QED BY <1>1, <1>2, <1>3, <1>4 DEF Finds

(* The paragraph of a step is there, and tells of the steps before.        *)
LEMMA ParagraphTells ==
  ASSUME NEW E, NEW d \in Documents(E), NEW steps \in Seq(StepRecords), NEW n \in Nat, NEW i, NEW step,
         StepAt(d, steps, n, i, step), NEW w, Reaches(w, d, steps, n)
  PROVE  /\ HasParagraph(w, step.pid) /\ Tells(Paragraph(w, step.pid), d, steps, n, step.pid)
<1>1. HasParagraph(d, step.pid)
  BY StepAtIs
<1>2. HasParagraph(w, step.pid)
  BY <1>1 DEF Reaches
<1>3. PICK j \in DOMAIN w : j = IndexOf(w, step.pid) /\ w[j].id = step.pid
  BY <1>2, PlaceOf
<1>4. TellsAll(w, d, steps, n, InsertedUpTo(d, steps)[n])
  BY DEF Reaches
<1>5. Tells(w[j], d, steps, n, step.pid)
  BY <1>1, <1>3, <1>4 DEF TellsAll
<1> QED BY <1>2, <1>3, <1>5 DEF Paragraph

(* What is shown once is found where it is.                                *)
LEMMA FoundThere ==
  ASSUME NEW w, NEW step \in StepRecords, step.op = "replace", Finds(w, step),
         Len(TextOf(Paragraph(w, step.pid))) \in Nat, NEW range,
         Covers(range, TextOf(Paragraph(w, step.pid)), step.old),
         range[1] \in Matches(TextOf(Paragraph(w, step.pid)), step.old)
  PROVE  Found(w, step) = range
<1>1. PICK S : S = Matches(TextOf(Paragraph(w, step.pid)), step.old)
  OBVIOUS
<1>2. Cardinality(S) = 1
  BY <1>1 DEF Finds
<1>3. IsFiniteSet(S)
  <2>1. PICK o \in Nat, l \in Nat : o = Len(step.old) /\ l = Len(TextOf(Paragraph(w, step.pid)))
    BY StepIs, LenProperties
  <2>2. S \in SUBSET (0..l)
    <3>1. S \in SUBSET (0..(l - o))
      BY <1>1, <2>1 DEF Matches
    <3>2. 0..(l - o) \in SUBSET (0..l)
      OBVIOUS
    <3> QED BY <3>1, <3>2
  <2>3. IsFiniteSet(0..l)
    BY FS_Interval
  <2> QED BY <2>2, <2>3, FS_Subset
<1>4. PICK x : S = {x}
  BY <1>2, <1>3, FS_Singleton
<1>5. (CHOOSE s \in S : TRUE) = range[1]
  BY <1>1, <1>4
<1>6. Found(w, step) = <<range[1], range[1] + Len(step.old)>>
  BY <1>1, <1>5 DEF Found
<1>7. range = <<range[1], range[2]>> /\ range[2] = range[1] + Len(step.old)
  BY DEF Covers
<1> QED BY <1>6, <1>7

Elsewhere(step, pid) == step.op # "replace" \/ step.pid # pid

(* So said of a step of the batch. *)
LEMMA TellsOn ==
  ASSUME NEW E, NEW d \in Documents(E), NEW steps \in Seq(StepRecords), NEW n \in Nat, NEW i, NEW step,
         StepAt(d, steps, n, i, step), NEW pid, HasParagraph(d, pid), Elsewhere(step, pid),
         NEW q, Tells(q, d, steps, n, pid)
  PROVE  Tells(q, d, steps, i, pid)
<1>1. n < Len(steps) /\ i = n + 1
  BY DEF StepAt
<1>2. steps[i].op # "replace" \/ steps[i].pid # pid
  BY DEF StepAt, Elsewhere
<1> QED BY <1>1, <1>2, TellsKept

(* When n steps are done the text of the step is found once, in one parent. *)
Clear(d, steps, n, step) ==
  step.op = "replace" =>
    /\ Cardinality(Matches(Substituted(d, steps, n, step.pid), step.old)) = 1
    /\ OneParent(Paragraph(d, step.pid), Found(d, step)[1], Found(d, step)[2])

(* The trial uses the whole range, the edit a part of it. *)
IsCut(t, w, step) == t = Whole(w, step) \/ t = Trimmed(step, Found(w, step))

(* The paragraph q of a step shows its old text at the range.              *)
ShowsAt(q, range, w, step) ==
  /\ q = Paragraph(w, step.pid) /\ Covers(range, TextOf(q), step.old) /\ range[1] < range[2]
  /\ Finds(w, step) => Found(w, step) = range

(* The text of a replacement is found where it was moved, if it is clear. *)
LEMMA ReplaceStands ==
  ASSUME NEW E, NEW d \in Documents(E), NEW steps \in Seq(StepRecords), NEW n \in Nat, NEW i, NEW step,
         StepAt(d, steps, n, i, step), step.op = "replace", NEW w, Reaches(w, d, steps, n),
         NEW s, NEW e, Found(d, step) = <<s, e>>, NEW q, q = Paragraph(w, step.pid),
         NEW range, range = Shifted(SubstitutedUpTo(d, steps, n, step.pid), s, step.old)
  PROVE  /\ ShowsAt(q, range, w, step)
         /\ Clear(d, steps, n, step) <=> Finds(w, step) /\ OneParent(q, range[1], range[2])
<1>1. /\ step \in StepRecords /\ HasParagraph(d, step.pid)
      /\ Acceptable(d, steps) /\ n < Len(steps) /\ i = n + 1 /\ step = steps[i]
  BY StepAtIs DEF StepAt
<1>2. HasParagraph(w, step.pid) /\ Tells(q, d, steps, n, step.pid)
  BY ParagraphTells
<1>3. /\ Covers(range, TextOf(q), step.old) /\ range[1] \in Matches(TextOf(q), step.old)
      /\ OneParent(q, range[1], range[2]) <=> OneParent(Paragraph(d, step.pid), s, e)
      /\ range[1] < range[2]
  <2>1. /\ StandsAt(q, range, step.old)
        /\ OneParent(q, range[1], range[2]) <=> OneParent(Paragraph(d, step.pid), s, e)
    BY <1>2, StepStands
  <2> QED BY <2>1 DEF StandsAt
<1>4. Len(TextOf(q)) \in Nat
  <2>1. PICK F : w \in Documents(F)
    BY DEF Reaches
  <2>2. PICK j \in DOMAIN w : j = IndexOf(w, step.pid)
    BY <1>2, PlaceOf
  <2>3. TextOf(w[j]) \in Seq(Tokens)
    BY <2>1, ViewIs
  <2> QED BY <2>2, <2>3, LenProperties DEF Paragraph
<1>5. ASSUME Finds(w, step) PROVE Found(w, step) = range
  BY <1>1, <1>3, <1>4, <1>5, FoundThere
<1>6. TextOf(q) = Substituted(d, steps, n, step.pid)
  BY <1>2 DEF Tells
<1>7. Finds(w, step) <=> Cardinality(Matches(Substituted(d, steps, n, step.pid), step.old)) = 1
  BY <1>2, <1>6 DEF Finds
<1>8. OneParent(Paragraph(d, step.pid), s, e)
        <=> OneParent(Paragraph(d, step.pid), Found(d, step)[1], Found(d, step)[2])
  OBVIOUS
<1> QED BY <1>3, <1>5, <1>7, <1>8 DEF ShowsAt, Clear

(* What the trial can do is clear.                                         *)
LEMMA TriedIsClear ==
  ASSUME NEW E, NEW d \in Documents(E), NEW steps \in Seq(StepRecords), NEW n \in Nat, NEW i, NEW step,
         StepAt(d, steps, n, i, step), NEW w, Reaches(w, d, steps, n), Finds(w, step),
         Applies(w, step, Whole(w, step))
  PROVE  Clear(d, steps, n, step)
<1> SUFFICES ASSUME step.op = "replace" PROVE Clear(d, steps, n, step)
  BY DEF Clear
<1>1. PICK s, e : Found(d, step) = <<s, e>>
  BY StepAtIs
<1>2. PICK q, range : q = Paragraph(w, step.pid)
        /\ range = Shifted(SubstitutedUpTo(d, steps, n, step.pid), s, step.old)
  OBVIOUS
<1>3. /\ ShowsAt(q, range, w, step)
      /\ Clear(d, steps, n, step) <=> Finds(w, step) /\ OneParent(q, range[1], range[2])
  BY <1>1, <1>2, ReplaceStands
<1>4. Found(w, step) = range
  BY <1>3 DEF ShowsAt
<1>5. ~Refused(q, range[1], range[2])
  <2>1. Whole(w, step) = [s |-> range[1], e |-> range[2], new |-> step.new]
    BY <1>4 DEF Whole
  <2>2. Whole(w, step).s = range[1] /\ Whole(w, step).e = range[2]
    BY <2>1
  <2> QED BY <1>2, <2>2 DEF Applies
<1>6. PICK F : q \in ParagraphsIn(F)
  <2>1. PICK F : w \in Documents(F)
    BY DEF Reaches
  <2>2. PICK j \in DOMAIN w : j = IndexOf(w, step.pid)
    BY PlaceOf DEF Finds
  <2> QED BY <1>2, <2>1, <2>2, ParagraphOf DEF Paragraph
<1>7. PICK a \in Nat, b \in Nat : a = range[1] /\ b = range[2]
  BY <1>3 DEF ShowsAt, Covers
<1>8. OneParent(q, a, b)
  BY <1>5, <1>6, <1>7, RefusedIs
<1> QED BY <1>3, <1>7, <1>8

Ranged(step, t) == step.op = "replace" => t.s \in Nat /\ t.e \in Nat /\ t.new \in Seq(Tokens)

(* What is clear can be done, tried or not. *)
LEMMA ClearCanBeDone ==
  ASSUME NEW E, NEW d \in Documents(E), NEW steps \in Seq(StepRecords), NEW n \in Nat, NEW i, NEW step,
         StepAt(d, steps, n, i, step), NEW w, Reaches(w, d, steps, n), Clear(d, steps, n, step),
         NEW t, IsCut(t, w, step)
  PROVE  Finds(w, step) /\ Applies(w, step, t) /\ Ranged(step, t)
<1>0. HasParagraph(w, step.pid)
  BY ParagraphTells
<1>1. CASE step.op # "replace"
  BY <1>0, <1>1 DEF Finds, Applies, Ranged
<1>2. CASE step.op = "replace"
  <2>1. PICK s, e : Found(d, step) = <<s, e>>
    BY <1>2, StepAtIs
  <2>2. PICK q, range : q = Paragraph(w, step.pid)
          /\ range = Shifted(SubstitutedUpTo(d, steps, n, step.pid), s, step.old)
    OBVIOUS
  <2>3. /\ ShowsAt(q, range, w, step)
        /\ Clear(d, steps, n, step) <=> Finds(w, step) /\ OneParent(q, range[1], range[2])
    BY <1>2, <2>1, <2>2, ReplaceStands
  <2>4. Finds(w, step) /\ OneParent(q, range[1], range[2])
    BY <2>3
  <2>5. Found(w, step) = range /\ Covers(range, TextOf(q), step.old) /\ range[1] < range[2]
    BY <2>3, <2>4 DEF ShowsAt
  <2>6. PICK F : q \in ParagraphsIn(F)
    <3>1. PICK F : w \in Documents(F)
      BY DEF Reaches
    <3>2. PICK j \in DOMAIN w : j = IndexOf(w, step.pid)
      BY <1>0, PlaceOf
    <3> QED BY <2>2, <3>1, <3>2, ParagraphOf DEF Paragraph
  <2>7. step \in StepRecords
    BY StepAtIs
  <2>8. CutsInside(t, range, TextOf(q), step)
    <3>1. CASE t = Whole(w, step)
      BY <1>2, <2>5, <2>7, <3>1, WholeCuts
    <3>2. CASE t = Trimmed(step, range)
      <4>1. TextOf(q) \in Seq(Tokens)
        <5>1. q.body \in Bodies(F)
          BY <2>6 DEF ParagraphsIn
        <5> QED BY <5>1, TextOfBody
      <4> QED BY <1>2, <2>5, <2>7, <3>2, <4>1, TrimmedCuts
    <3> QED BY <2>5, <3>1, <3>2 DEF IsCut
  <2>9. ~Refused(q, t.s, t.e)
    BY <2>4, <2>5, <2>6, <2>7, <2>8, StepAllowed
  <2>10. Ranged(step, t)
    BY <2>8 DEF CutsInside, Ranged
  <2> QED BY <1>0, <2>2, <2>4, <2>9, <2>10 DEF Applies
<1> QED BY <1>1, <1>2

(* The next step of what is shown. *)
LEMMA InsertedIsNext ==
  ASSUME NEW d, NEW steps \in Seq(StepRecords), NEW n \in Nat, NEW i, NEW step, StepAt(d, steps, n, i, step)
  PROVE  InsertedUpTo(d, steps)[i] = InsertedNext(InsertedUpTo(d, steps)[n], step)
<1>1. n < Len(steps) /\ i = n + 1 /\ step = steps[i]
  BY DEF StepAt
<1>2. PICK l \in Nat : l = Len(steps)
  BY LenProperties
<1>3. i \in 1..Len(steps) /\ i - 1 = n
  BY <1>1, <1>2
<1>4. TellsInserted(InsertedUpTo(d, steps), d, steps)
  BY LenProperties, InsertedIsOne
<1>5. InsertedUpTo(d, steps)[i] = InsertedNext(InsertedUpTo(d, steps)[i - 1], steps[i])
  BY <1>3, <1>4 DEF TellsInserted
<1> QED BY <1>1, <1>3, <1>5

(* Its ids are found, and new ones are given, as in the document. *)
LEMMA SamePlaces ==
  ASSUME NEW F, NEW w \in Documents(F), DistinctIds(w), NEW view, SameIds(w, view), NEW pid, HasParagraph(w, pid)
  PROVE  IndexOf(view, pid) = IndexOf(w, pid) /\ FreshPid(view) = FreshPid(w)
<1>1. DOMAIN view = DOMAIN w /\ \A j \in DOMAIN w : view[j].id = w[j].id
  <2>1. DOMAIN view = 1..Len(view)
    BY LenProperties DEF SameIds
  <2> QED BY <2>1, ViewIs DEF SameIds
<1>2. IndexOf(view, pid) = IndexOf(w, pid)
  <2>1. HasParagraph(view, pid)
    BY <1>1 DEF HasParagraph
  <2>2. PICK j : j = IndexOf(view, pid) /\ j \in DOMAIN view /\ view[j].id = pid
    BY <2>1, PlaceOf
  <2>3. PICK l : l = IndexOf(w, pid) /\ l \in DOMAIN w /\ w[l].id = pid
    BY PlaceOf
  <2>4. j = l
    BY <1>1, <2>2, <2>3 DEF DistinctIds
  <2> QED BY <2>2, <2>3, <2>4
<1>3. {p.id : p \in Range(view)} = {p.id : p \in Range(w)}
  <2>1. ASSUME NEW x \in {p.id : p \in Range(view)} PROVE x \in {p.id : p \in Range(w)}
    <3>1. PICK j \in DOMAIN view : x = view[j].id
      BY DEF Range
    <3>2. w[j] \in Range(w) /\ x = w[j].id
      BY <1>1, <3>1 DEF Range
    <3> QED BY <3>2
  <2>2. ASSUME NEW x \in {p.id : p \in Range(w)} PROVE x \in {p.id : p \in Range(view)}
    <3>1. PICK j \in DOMAIN w : x = w[j].id
      BY DEF Range
    <3>2. view[j] \in Range(view) /\ x = view[j].id
      BY <1>1, <3>1 DEF Range
    <3> QED BY <3>2
  <2> QED BY <2>1, <2>2
<1> QED BY <1>2, <1>3 DEF FreshPid

(* A replacement that is clear brings the document one step further.       *)
LEMMA ReplaceReaches ==
  ASSUME Tracked, NEW E, NEW d \in Documents(E), NEW steps \in Seq(StepRecords), NEW n \in Nat, NEW i,
         NEW step, StepAt(d, steps, n, i, step), step.op = "replace", NEW w, Reaches(w, d, steps, n),
         Clear(d, steps, n, step), NEW t, IsCut(t, w, step), NEW next \in Nat
  PROVE  Reaches(Applied(w, next, step, t).doc, d, steps, i)
<1>1. /\ step \in StepRecords /\ HasParagraph(d, step.pid)
  BY StepAtIs
<1>2. HasParagraph(w, step.pid) /\ Tells(Paragraph(w, step.pid), d, steps, n, step.pid)
  BY ParagraphTells
<1>3. PICK F : w \in Documents(F)
  BY DEF Reaches
<1>4. PICK j \in DOMAIN w : j = IndexOf(w, step.pid) /\ w[j].id = step.pid
  BY <1>2, PlaceOf
<1>5. PICK q \in ParagraphsIn(F) : q = w[j] /\ q = Paragraph(w, step.pid)
  BY <1>3, <1>4, ParagraphOf DEF Paragraph
<1>6. Finds(w, step) /\ Applies(w, step, t) /\ Ranged(step, t)
  BY ClearCanBeDone
<1>7. PICK r : r = TrackedReplace(q, t.s, t.e, t.new, AI, next).p /\ r.id = step.pid
  BY <1>4, <1>5, ReplaceKeepsId
<1>8. PICK z : z = Applied(w, next, step, t).doc /\ z = [w EXCEPT ![j] = r]
  BY <1>4, <1>5, <1>7 DEF Applied
<1>9. \E G : z \in Documents(G)
  <2>1. step.op = "replace" => t.s \in Nat /\ t.e \in Nat /\ t.new \in Seq(Tokens)
    BY <1>6 DEF Ranged
  <2>2. LET x == Applied(w, next, step, t)
        IN /\ x.next \in Nat /\ next <= x.next
           /\ Tracked => x.doc \in Documents(F \cup Given(AI, next, x.next))
           /\ ~Tracked => x.doc \in Documents(F) /\ x.next = next
    BY <1>1, <1>3, <1>6, <2>1, AppliedAdds
  <2> QED BY <1>8, <2>2
<1>10. DistinctIds(w)
  BY DEF Reaches
<1>11. DistinctIds(z)
  <2>1. r.id = w[j].id
    BY <1>4, <1>7
  <2>2. /\ DistinctIds([w EXCEPT ![j] = r])
        /\ \A pid : pid # w[j].id => Stays(w, [w EXCEPT ![j] = r], pid)
    BY <1>10, <2>1, ReplacedLeavesOthers
  <2> QED BY <1>8, <2>2
<1>12. DOMAIN z = DOMAIN w /\ Len(z) = Len(w) /\ \A l \in DOMAIN w : z[l].id = w[l].id
         /\ (l # j => z[l] = w[l])
  <2>1. DOMAIN z = DOMAIN w /\ z[j] = r /\ \A l \in DOMAIN w : l # j => z[l] = w[l]
    BY <1>4, <1>8
  <2>2. Len(z) = Len(w)
    <3>1. DOMAIN w = 1..Len(w) /\ Len(w) \in Nat
      BY <1>3, ViewIs
    <3>2. DOMAIN z = 1..Len(z) /\ Len(z) \in Nat
      BY <1>9, ViewIs
    <3> QED BY <2>1, <3>1, <3>2
  <2> QED BY <1>4, <1>7, <2>1, <2>2
<1>13. \A pid : HasParagraph(d, pid) => HasParagraph(z, pid)
  BY <1>12 DEF Reaches, HasParagraph
<1>14. PICK view : view = InsertedUpTo(d, steps)[n] /\ view = InsertedUpTo(d, steps)[i]
  <2>1. InsertedUpTo(d, steps)[i] = InsertedNext(InsertedUpTo(d, steps)[n], step)
    BY InsertedIsNext
  <2> QED BY <2>1 DEF InsertedNext
<1>15. SameIds(w, view) /\ TellsAll(w, d, steps, n, view)
  BY <1>14 DEF Reaches
<1>16. SameIds(z, view)
  BY <1>12, <1>15 DEF SameIds
<1>17. Tells(r, d, steps, i, step.pid)
  <2>1. PICK s, e : Found(d, step) = <<s, e>>
    BY StepAtIs
  <2>2. PICK range : range = Shifted(SubstitutedUpTo(d, steps, n, step.pid), s, step.old)
    OBVIOUS
  <2>3. ShowsAt(q, range, w, step)
    BY <1>5, <2>1, <2>2, ReplaceStands
  <2>4. Found(w, step) = range /\ Covers(range, TextOf(q), step.old)
    BY <1>6, <2>3 DEF ShowsAt
  <2>5. CutsInside(t, range, TextOf(q), step)
    <3>1. CASE t = Whole(w, step)
      BY <1>1, <2>4, <3>1, WholeCuts
    <3>2. CASE t = Trimmed(step, range)
      <4>1. TextOf(q) \in Seq(Tokens)
        <5>1. q.body \in Bodies(F)
          BY DEF ParagraphsIn
        <5> QED BY <5>1, TextOfBody
      <4> QED BY <1>1, <2>4, <3>2, <4>1, TrimmedCuts
    <3> QED BY <2>4, <3>1, <3>2 DEF IsCut
  <2>6. ~Refused(q, t.s, t.e)
    BY <1>5, <1>6 DEF Applies
  <2>7. Tells(q, d, steps, n, step.pid)
    BY <1>2, <1>5
  <2> QED BY <1>7, <2>1, <2>2, <2>5, <2>6, <2>7, TellsNext
<1>18. TellsAll(z, d, steps, i, view)
  <2>1. ASSUME NEW l \in DOMAIN w
        PROVE  IF HasParagraph(d, z[l].id) THEN Tells(z[l], d, steps, i, z[l].id)
          ELSE TextOf(z[l]) = view[l].text
    <3>1. CASE l = j
      <4>1. z[l] = r /\ z[l].id = step.pid
        BY <1>4, <1>7, <1>8, <3>1
      <4> QED BY <1>1, <1>17, <4>1
    <3>2. CASE l # j
      <4>1. z[l] = w[l] /\ w[l].id # step.pid
        BY <1>4, <1>10, <1>12, <3>2 DEF DistinctIds
      <4>2. IF HasParagraph(d, w[l].id) THEN Tells(w[l], d, steps, n, w[l].id)
              ELSE TextOf(w[l]) = view[l].text
        BY <1>15 DEF TellsAll
      <4>3. ASSUME HasParagraph(d, w[l].id) PROVE Tells(w[l], d, steps, i, w[l].id)
        <5>1. Elsewhere(step, w[l].id)
          BY <4>1 DEF Elsewhere
        <5> QED BY <4>2, <4>3, <5>1, TellsOn
      <4> QED BY <4>1, <4>2, <4>3
    <3> QED BY <3>1, <3>2
  <2> QED BY <1>12, <2>1 DEF TellsAll
<1> QED BY <1>8, <1>9, <1>11, <1>13, <1>14, <1>16, <1>18 DEF Reaches

(* So does an insertion. *)
LEMMA InsertReaches ==
  ASSUME Tracked, NEW E, NEW d \in Documents(E), NEW steps \in Seq(StepRecords), NEW n \in Nat, NEW i,
         NEW step, StepAt(d, steps, n, i, step), step.op # "replace", NEW w, Reaches(w, d, steps, n),
         NEW t, NEW next \in Nat
  PROVE  Reaches(Applied(w, next, step, t).doc, d, steps, i)
<1>1. step \in StepRecords /\ HasParagraph(w, step.pid)
  BY StepAtIs, ParagraphTells
<1>2. PICK E2 : w \in Documents(E2)
  BY DEF Reaches
<1>3. DistinctIds(w)
  BY DEF Reaches
<1>4a. PICK k \in Nat :
         \E p, F :
           /\ k <= Len(w)
           /\ k + 1 = (IF step.pos = "AFTER" THEN IndexOf(w, step.pid) + 1 ELSE IndexOf(w, step.pid))
           /\ w \in Documents(F) /\ p \in ParagraphsIn(F)
           /\ p.id = FreshPid(w) /\ TextOf(p) = step.new
           /\ Applied(w, next, step, t).doc = InsertAt(w, k + 1, p)
  BY <1>1, <1>2, InsertedIs
<1>4. PICK p, F :
         /\ k <= Len(w)
         /\ k + 1 = (IF step.pos = "AFTER" THEN IndexOf(w, step.pid) + 1 ELSE IndexOf(w, step.pid))
         /\ w \in Documents(F) /\ p \in ParagraphsIn(F)
         /\ p.id = FreshPid(w) /\ TextOf(p) = step.new
         /\ Applied(w, next, step, t).doc = InsertAt(w, k + 1, p)
  BY <1>4a
<1>5. PICK z : z = InsertAt(w, k + 1, p)
  OBVIOUS
<1>6. z \in Documents(F) /\ IsInsert(z, w, k, p)
  <2>1. PICK v : v = [id |-> p.id, text |-> TextOf(p)]
    OBVIOUS
  <2> QED BY <1>4, <1>5, <2>1, ViewOfInserted
<1>7. DOMAIN w # {}
  BY <1>1, PlaceOf
<1>8. FreshPid(w) \in Nat /\ \A j \in DOMAIN w : w[j].id # p.id
  BY <1>2, <1>4, <1>7, FreshPidIsNew
<1>9. DistinctIds(z) /\ \A pid : Stays(w, z, pid)
  BY <1>3, <1>4, <1>6, <1>8, InsertedLeavesOthers
<1>10. \A pid : HasParagraph(d, pid) => HasParagraph(z, pid)
  BY <1>9 DEF Reaches, Stays
<1>11. PICK view : view = InsertedUpTo(d, steps)[n] /\ SameIds(w, view)
         /\ TellsAll(w, d, steps, n, view)
  BY DEF Reaches
<1>12. view \in Seq(Views) /\ Len(view) = Len(w) /\ k <= Len(view)
  BY <1>4, <1>11 DEF SameIds
<1>13. IndexOf(view, step.pid) = IndexOf(w, step.pid) /\ FreshPid(view) = FreshPid(w)
  BY <1>1, <1>2, <1>3, <1>11, SamePlaces
<1>14a. PICK x \in Views : x = [id |-> FreshPid(w), text |-> step.new]
  <2>1. step.new \in Seq(Tokens)
    BY <1>1, StepIs
  <2>2. [id |-> FreshPid(w), text |-> step.new] \in Views
    BY <1>8, <2>1 DEF Views
  <2> QED BY <2>2
<1>14. x.id = p.id /\ x.text = TextOf(p)
  <2>1. x.id = FreshPid(w) /\ x.text = step.new
    BY <1>14a
  <2> QED BY <1>4, <2>1
<1>15. PICK next1 : next1 = InsertedUpTo(d, steps)[i] /\ next1 = InsertAt(view, k + 1, x)
  <2>1. InsertedUpTo(d, steps)[i] = InsertedNext(view, step)
    BY <1>11, InsertedIsNext
  <2>2. InsertedNext(view, step) = InsertedAt(view, IndexOf(view, step.pid), step.pos, [id |-> FreshPid(view), text |-> step.new])
    BY DEF InsertedNext
  <2>3. InsertedNext(view, step) = InsertedAt(view, IndexOf(w, step.pid), step.pos, x)
    BY <1>13, <1>14a, <2>2
  <2>4. InsertedAt(view, IndexOf(w, step.pid), step.pos, x)
          = InsertAt(view, IF step.pos = "AFTER" THEN IndexOf(w, step.pid) + 1
            ELSE IndexOf(w, step.pid), x)
    BY DEF InsertedAt
  <2> QED BY <1>4, <2>1, <2>3, <2>4
<1>16. next1 \in Seq(Views) /\ IsInsert(next1, view, k, x)
  BY <1>12, <1>15, InsertAtInserts
<1>17. PICK l \in Nat : l = Len(w) /\ DOMAIN w = 1..l /\ k <= l
  BY <1>2, <1>4, ViewIs
<1>18. DOMAIN z = 1..(l + 1) /\ Len(z) = l + 1 /\ Len(next1) = l + 1
  <2>1. Len(z) = Len(w) + 1 /\ Len(next1) = Len(view) + 1
    BY <1>6, <1>16 DEF IsInsert
  <2>2. DOMAIN z = 1..Len(z)
    BY <1>6, ViewIs
  <2> QED BY <1>12, <1>17, <2>1, <2>2
<1>19. /\ z[k + 1] = p /\ next1[k + 1] = x
       /\ \A j \in 1..k : z[j] = w[j] /\ next1[j] = view[j]
       /\ \A j \in (k + 2)..(l + 1) : z[j] = w[j - 1] /\ next1[j] = view[j - 1]
  BY <1>6, <1>12, <1>16, <1>17 DEF IsInsert
<1>20. ASSUME NEW j \in 1..(l + 1), j # k + 1
       PROVE  \E m \in DOMAIN w : z[j] = w[m] /\ next1[j] = view[m]
  <2>1. CASE j <= k
    <3>1. j \in 1..k /\ j \in DOMAIN w
      BY <1>17, <2>1
    <3> QED BY <1>19, <3>1
  <2>2. CASE j > k
    <3>1. j \in (k + 2)..(l + 1) /\ j - 1 \in DOMAIN w
      BY <1>17, <1>20, <2>2
    <3> QED BY <1>19, <3>1
  <2> QED BY <2>1, <2>2
<1>21. SameIds(z, next1)
  <2>1. ASSUME NEW j \in DOMAIN z PROVE next1[j].id = z[j].id
    <3>1. CASE j = k + 1
      BY <1>14, <1>19, <3>1
    <3>2. CASE j # k + 1
      <4>1. PICK m \in DOMAIN w : z[j] = w[m] /\ next1[j] = view[m]
        BY <1>18, <1>20, <3>2
      <4> QED BY <1>11, <4>1 DEF SameIds
    <3> QED BY <3>1, <3>2
  <2> QED BY <1>16, <1>18, <2>1 DEF SameIds
<1>22. ~HasParagraph(d, p.id)
  <2>1. ~HasParagraph(w, p.id)
    BY <1>8 DEF HasParagraph
  <2> QED BY <2>1 DEF Reaches
<1>23. TellsAll(z, d, steps, i, next1)
  <2>1. ASSUME NEW j \in DOMAIN z
        PROVE  IF HasParagraph(d, z[j].id) THEN Tells(z[j], d, steps, i, z[j].id)
          ELSE TextOf(z[j]) = next1[j].text
    <3>1. CASE j = k + 1
      BY <1>14, <1>19, <1>22, <3>1
    <3>2. CASE j # k + 1
      <4>1. PICK m \in DOMAIN w : z[j] = w[m] /\ next1[j] = view[m]
        BY <1>18, <1>20, <3>2
      <4>2. IF HasParagraph(d, w[m].id) THEN Tells(w[m], d, steps, n, w[m].id)
              ELSE TextOf(w[m]) = view[m].text
        BY <1>11 DEF TellsAll
      <4>3. ASSUME HasParagraph(d, w[m].id) PROVE Tells(w[m], d, steps, i, w[m].id)
        <5>1. Elsewhere(step, w[m].id)
          BY DEF Elsewhere
        <5> QED BY <4>2, <4>3, <5>1, TellsOn
      <4> QED BY <4>1, <4>2, <4>3
    <3> QED BY <3>1, <3>2
  <2> QED BY <2>1 DEF TellsAll
<1> QED BY <1>4, <1>5, <1>6, <1>9, <1>10, <1>15, <1>21, <1>23 DEF Reaches

(* Every step of a batch that is clear brings it on. *)
LEMMA StepReaches ==
  ASSUME Tracked, NEW E, NEW d \in Documents(E), NEW steps \in Seq(StepRecords), NEW n \in Nat, NEW i,
         NEW step, StepAt(d, steps, n, i, step), NEW w, Reaches(w, d, steps, n),
         Clear(d, steps, n, step), NEW t, IsCut(t, w, step), NEW next \in Nat
  PROVE  Reaches(Applied(w, next, step, t).doc, d, steps, i)
<1>1. CASE step.op = "replace"
  BY <1>1, ReplaceReaches
<1>2. CASE step.op # "replace"
  BY <1>2, InsertReaches
<1> QED BY <1>1, <1>2

(* Every step is clear where those before it are done. *)
AllClear(d, steps) == \A i \in 1..Len(steps) : Clear(d, steps, i - 1, steps[i])

ClearUpTo(d, steps, n) == \A i \in 1..n : Clear(d, steps, i - 1, steps[i])

(* The trial so far: what passed is clear, and done on the copy.           *)
IsTrial(acc) == acc.ok \in BOOLEAN /\ acc = [ok |-> acc.ok, doc |-> acc.doc, next |-> acc.next]

Tried(acc, d, steps, n) ==
  /\ IsTrial(acc)
  /\ acc.ok => acc.next \in Nat /\ Reaches(acc.doc, d, steps, n) /\ ClearUpTo(d, steps, n)

(* The trial of one more step. *)
LEMMA TriedNext ==
  ASSUME Tracked, NEW E, NEW d \in Documents(E), NEW steps \in Seq(StepRecords), NEW n \in Nat, NEW i,
         NEW step, StepAt(d, steps, n, i, step), NEW acc, Tried(acc, d, steps, n)
  PROVE  Tried(RehearsedNext(acc, step), d, steps, i)
<1>1. PICK z : z = RehearsedNext(acc, step)
  OBVIOUS
<1>2. PICK r : r = Applied(acc.doc, acc.next, step, Whole(acc.doc, step))
  OBVIOUS
<1>3. CASE acc.ok /\ Finds(acc.doc, step) /\ Applies(acc.doc, step, Whole(acc.doc, step))
  <2>1. z = [ok |-> TRUE, doc |-> r.doc, next |-> r.next]
    BY <1>1, <1>2, <1>3 DEF RehearsedNext
  <2>2. z.ok = TRUE /\ z.doc = r.doc /\ z.next = r.next
    BY <2>1
  <2>3. IsTrial(z)
    BY <2>1, <2>2 DEF IsTrial
  <2>4. acc.next \in Nat /\ Reaches(acc.doc, d, steps, n) /\ ClearUpTo(d, steps, n)
    BY <1>3 DEF Tried
  <2>5a. PICK w, t : w = acc.doc /\ t = Whole(w, step)
    OBVIOUS
  <2>5b. PICK next \in Nat : next = acc.next
    BY <2>4
  <2>5. w = acc.doc /\ t = Whole(w, step) /\ next = acc.next
    BY <2>5a, <2>5b
  <2>6. Clear(d, steps, n, step)
    BY <1>3, <2>4, TriedIsClear
  <2>7. IsCut(t, w, step) /\ Reaches(w, d, steps, n)
    BY <2>4, <2>5 DEF IsCut
  <2>8. Reaches(Applied(w, next, step, t).doc, d, steps, i)
    BY <2>6, <2>7, StepReaches
  <2>9. Reaches(z.doc, d, steps, i)
    BY <1>2, <2>2, <2>5, <2>8
  <2>10. z.next \in Nat
    <3>1. Applies(w, step, t) /\ Ranged(step, t)
      BY <2>6, <2>7, ClearCanBeDone
    <3>2. PICK F : w \in Documents(F)
      BY <2>7 DEF Reaches
    <3>3. step \in StepRecords
      BY StepAtIs
    <3>4. step.op = "replace" => t.s \in Nat /\ t.e \in Nat /\ t.new \in Seq(Tokens)
      BY <3>1 DEF Ranged
    <3>5. LET x == Applied(w, next, step, t)
          IN /\ x.next \in Nat /\ next <= x.next
             /\ Tracked => x.doc \in Documents(F \cup Given(AI, next, x.next))
             /\ ~Tracked => x.doc \in Documents(F) /\ x.next = next
      BY <3>1, <3>2, <3>3, <3>4, AppliedAdds
    <3> QED BY <1>2, <2>2, <2>5, <3>5
  <2>11. ClearUpTo(d, steps, i)
    <3>1. ASSUME NEW m \in 1..i PROVE Clear(d, steps, m - 1, steps[m])
      <4>1. i = n + 1 /\ step = steps[i]
        BY DEF StepAt
      <4>2. CASE m = i
        <5>1. m - 1 = n /\ steps[m] = step
          BY <4>1, <4>2
        <5> QED BY <2>6, <5>1
      <4>3. CASE m # i
        <5>1. m \in 1..n
          BY <4>1, <4>3
        <5> QED BY <2>4, <5>1 DEF ClearUpTo
      <4> QED BY <4>2, <4>3
    <3> QED BY <3>1 DEF ClearUpTo
  <2> QED BY <1>1, <2>3, <2>9, <2>10, <2>11 DEF Tried
<1>4. CASE ~(acc.ok /\ Finds(acc.doc, step) /\ Applies(acc.doc, step, Whole(acc.doc, step)))
  <2>1. z = [acc EXCEPT !.ok = FALSE]
    BY <1>1, <1>4 DEF RehearsedNext
  <2>2. acc = [ok |-> acc.ok, doc |-> acc.doc, next |-> acc.next]
    BY DEF Tried, IsTrial
  <2>3. z = [ok |-> FALSE, doc |-> acc.doc, next |-> acc.next]
    BY <2>1, <2>2
  <2>4. z.ok = FALSE /\ z.doc = acc.doc /\ z.next = acc.next
    BY <2>3
  <2> QED BY <1>1, <2>3, <2>4 DEF Tried, IsTrial
<1> QED BY <1>3, <1>4

(* A batch whose trial passes is clear. *)
LEMMA RehearsedIsClear ==
  ASSUME Tracked, NEW E, NEW d \in Documents(E), DistinctIds(d), NEW steps \in Seq(StepRecords),
         Acceptable(d, steps), NEW next \in Nat, Rehearsed(d, next, steps)
  PROVE  AllClear(d, steps)
<1>1. PICK l \in Nat : l = Len(steps)
  BY LenProperties
<1>2. PICK R : R = RehearsedUpTo(d, next, steps) /\ IsRehearsed(R, d, next, steps)
  BY LenProperties, RehearsedIsOne
<1> DEFINE G == {n \in 0..l : Tried(R[n], d, steps, n)}
<1>3. 0 \in G
  <2>1. R[0] = [ok |-> TRUE, doc |-> d, next |-> next]
    BY <1>2 DEF IsRehearsed
  <2>2. R[0].ok = TRUE /\ R[0].doc = d /\ R[0].next = next
    BY <2>1
  <2>3. Reaches(d, d, steps, 0) /\ ClearUpTo(d, steps, 0)
    BY ReachesFirst DEF ClearUpTo
  <2>4. IsTrial(R[0])
    BY <2>1, <2>2 DEF IsTrial
  <2>5. Tried(R[0], d, steps, 0)
    BY <2>2, <2>3, <2>4 DEF Tried
  <2> QED BY <2>5
<1>4. ASSUME NEW i \in 1..l, i - 1 \in G PROVE i \in G
  <2>1. PICK n \in Nat : n = i - 1 /\ i = n + 1 /\ n < l
    <3>1. i - 1 \in Nat /\ i = (i - 1) + 1 /\ i - 1 < l
      OBVIOUS
    <3> QED BY <3>1
  <2>2. StepAt(d, steps, n, i, steps[i])
    BY <1>1, <2>1 DEF StepAt
  <2>3. Tried(R[n], d, steps, n)
    BY <1>4, <2>1
  <2>4. Tried(RehearsedNext(R[n], steps[i]), d, steps, i)
    BY <2>2, <2>3, TriedNext
  <2>5. R[i] = RehearsedNext(R[n], steps[i])
    BY <1>1, <1>2, <2>1 DEF IsRehearsed
  <2>6. Tried(R[i], d, steps, i) /\ i \in 0..l
    BY <2>4, <2>5
  <2> QED BY <2>6
<1>5. \A n \in 0..l : n \in G
  <2> HIDE DEF G
  <2> QED BY <1>3, <1>4, InductionUpTo
<1>6. Tried(R[l], d, steps, l)
  <2>1. l \in 0..l
    OBVIOUS
  <2> QED BY <1>5, <2>1
<1>7. R[l].ok
  BY <1>1, <1>2 DEF Rehearsed
<1> QED BY <1>1, <1>6, <1>7 DEF Tried, ClearUpTo, AllClear

(***************************************************************************)
(* A batch that nobody disturbed knows what it means to do, and is on its  *)
(* way there                                                               *)
(***************************************************************************)

(* w is what a batch has made of the text it was checked against.          *)
UnderWay(x, w) ==
  \E d, E :
    /\ d \in Documents(E) /\ DistinctIds(d)
    /\ Acceptable(d, x.req.steps) /\ AllClear(d, x.req.steps) /\ x.goal = Goal(d, x.req.steps)
    /\ Reaches(w, d, x.req.steps, x.done)

(* Before the trial, between the steps, and after the last one.            *)
Meant(x, ss, cur) ==
  x.pc \in {"context", "scan", "preview"} =>
    /\ x.home = cur
    /\ Acceptable(ss[x.home].doc, x.req.steps) /\ x.goal = Goal(ss[x.home].doc, x.req.steps)

Doing(x, ss, cur) ==
  x.pc \in {"steps", "step"} =>
    x.home = cur /\ UnderWay(x, ss[x.home].doc) /\ (x.pc = "step" => x.at = x.home)

Finished(x, ss) ==
  x.pc = "idle" /\ x.out \in {"ok", "partial"} =>
    x.out = "ok" /\ x.home \in DOMAIN ss /\ View(ss[x.home].doc) = x.goal

Sound(x, ss, cur) ==
  x.req.batch /\ x.moved = {} => Meant(x, ss, cur) /\ Doing(x, ss, cur) /\ Finished(x, ss)

InOrder == \A c \in Callers : Sound(calls[c], sessions, current)

(* An action tells a call of what it does to the call's session.           *)
Undisturbed(x, y) ==
  y.moved = {} =>
    /\ x.moved = {}
    /\ x.home \in DOMAIN sessions =>
         /\ x.home \in DOMAIN sessions' /\ sessions'[x.home].doc = sessions[x.home].doc
         /\ x.home = current => current' = current

(* What a call learns is all that changes.                                 *)
LEMMA MovedOnly ==
  ASSUME NEW x, IsCall(x), NEW m, NEW y, y = [x EXCEPT !.moved = m]
  PROVE  /\ y.moved = m /\ y.pc = x.pc /\ y.req = x.req /\ y.home = x.home /\ y.at = x.at
         /\ y.done = x.done /\ y.out = x.out /\ y.goal = x.goal
BY DEF IsCall, CallsWith

(* A call nobody disturbs stays sound. *)
LEMMA SoundOn ==
  ASSUME NEW x, IsCall(x), Placed(x, sessions), Sound(x, sessions, current), NEW y, Moved(x, y),
         Undisturbed(x, y)
  PROVE  Sound(y, sessions', current')
<1> SUFFICES ASSUME y.req.batch, y.moved = {}
             PROVE  Meant(y, sessions', current') /\ Doing(y, sessions', current')
               /\ Finished(y, sessions')
  BY DEF Sound
<1>1. /\ y.pc = x.pc /\ y.req = x.req /\ y.home = x.home /\ y.at = x.at /\ y.done = x.done
      /\ y.out = x.out /\ y.goal = x.goal
  BY MovedOnly DEF Moved
<1>2. Meant(x, sessions, current) /\ Doing(x, sessions, current) /\ Finished(x, sessions)
  BY <1>1 DEF Sound, Undisturbed
<1>3. x.home \in DOMAIN sessions =>
        /\ x.home \in DOMAIN sessions' /\ sessions'[x.home].doc = sessions[x.home].doc
        /\ x.home = current => current' = current
  BY DEF Undisturbed
<1>4. x.pc \notin {"idle", "resolve"} => x.home \in DOMAIN sessions
  BY DEF Placed
<1>5. Meant(y, sessions', current')
  <2> SUFFICES ASSUME y.pc \in {"context", "scan", "preview"}
               PROVE  /\ y.home = current' /\ Acceptable(sessions'[y.home].doc, y.req.steps)
                      /\ y.goal = Goal(sessions'[y.home].doc, y.req.steps)
    BY DEF Meant
  <2>1. /\ x.home = current /\ Acceptable(sessions[x.home].doc, x.req.steps)
        /\ x.goal = Goal(sessions[x.home].doc, x.req.steps)
    BY <1>1, <1>2 DEF Meant
  <2>2. x.home \in DOMAIN sessions
    BY <1>1, <1>4
  <2> QED BY <1>1, <1>3, <2>1, <2>2
<1>6. Doing(y, sessions', current')
  <2> SUFFICES ASSUME y.pc \in {"steps", "step"}
               PROVE  /\ y.home = current' /\ UnderWay(y, sessions'[y.home].doc)
                      /\ y.pc = "step" => y.at = y.home
    BY DEF Doing
  <2>1. x.home = current /\ UnderWay(x, sessions[x.home].doc) /\ (x.pc = "step" => x.at = x.home)
    BY <1>1, <1>2 DEF Doing
  <2>2. x.home \in DOMAIN sessions
    BY <1>1, <1>4
  <2>3. sessions'[y.home].doc = sessions[x.home].doc /\ y.home = current'
    BY <1>1, <1>3, <2>1, <2>2
  <2>4. UnderWay(y, sessions[x.home].doc)
    BY <1>1, <2>1 DEF UnderWay
  <2> QED BY <1>1, <2>1, <2>3, <2>4
<1>7. Finished(y, sessions')
  BY <1>1, <1>2, <1>3 DEF Finished
<1> QED BY <1>5, <1>6, <1>7

(* Other calls have nothing to show. *)
LEMMA SoundAway ==
  ASSUME NEW x, NEW ss, NEW cur,
         \/ x.pc \in {"resolve", "validate", "match", "mutate"}
         \/ x.pc = "idle" /\ x.out \notin {"ok", "partial"}
         \/ ~x.req.batch
         \/ x.moved # {}
  PROVE  Sound(x, ss, cur)
BY DEF Sound, Meant, Doing, Finished

(* An action of one call leaves the others in order, if it tells them.     *)
LEMMA OneInOrder ==
  ASSUME Shape, InOrder, NEW c \in Callers, Moves(c),
         \A b \in Callers \ {c} : Undisturbed(calls[b], calls'[b]),
         Sound(calls'[c], sessions', current')
  PROVE  InOrder'
<1>1. ASSUME NEW b \in Callers \ {c} PROVE Sound(calls'[b], sessions', current')
  <2>1. IsCall(calls[b]) /\ Placed(calls[b], sessions) /\ Sound(calls[b], sessions, current)
    BY DEF Shape, InOrder
  <2>2. Moved(calls[b], calls'[b]) /\ Undisturbed(calls[b], calls'[b])
    BY DEF Moves
  <2> QED BY <2>1, <2>2, SoundOn
<1> QED BY <1>1 DEF InOrder

(* Where no document changes and no session is left.                       *)
LEMMA QuietInOrder ==
  ASSUME Shape, InOrder, NEW c \in Callers, NEW y, calls' = [calls EXCEPT ![c] = y], DocsKept,
         current' = current \/ current' = OpenAt, Sound(y, sessions', current')
  PROVE  InOrder'
<1>1. Moves(c) /\ calls'[c] = y /\ DOMAIN calls = Callers
  BY OneCall DEF Shape
<1>2. ASSUME NEW b \in Callers \ {c} PROVE Undisturbed(calls[b], calls'[b])
  <2>1. PICK x : x = calls[b] /\ x = calls'[b]
    BY <1>1
  <2>2. ASSUME x.home \in DOMAIN sessions, x.home = current PROVE current' = current
    <3>1. current # 0
      BY <2>2, LenProperties DEF Shape
    <3> QED BY <3>1 DEF OpenAt
  <2>3. ASSUME x.home \in DOMAIN sessions
        PROVE  x.home \in DOMAIN sessions' /\ sessions'[x.home].doc = sessions[x.home].doc
    BY <2>3 DEF DocsKept
  <2>4. Undisturbed(x, x)
    BY <2>2, <2>3 DEF Undisturbed
  <2> QED BY <2>1, <2>4
<1> QED BY <1>1, <1>2, OneInOrder

(* An edit is told to those who are in the session. *)
LEMMA EditInOrder ==
  ASSUME Shape, InOrder, NEW c \in Callers, NEW a \in DOMAIN sessions, DocsStay({a}),
         current' = current, NEW pid, NEW y, calls' = Noted([calls EXCEPT ![c] = y], c, a, pid),
         Sound(y, sessions', current')
  PROVE  InOrder'
<1>1. DOMAIN calls = Callers /\ \A x \in Callers : IsCall(calls[x])
  BY DEF Shape
<1>2. Moves(c) /\ calls'[c] = y
  BY NotedMoves
<1>3. ASSUME NEW b \in Callers \ {c} PROVE Undisturbed(calls[b], calls'[b])
  <2>1. PICK x, z : x = calls[b] /\ z = calls'[b] /\ IsCall(x)
    BY <1>1
  <2>2. CASE x.home = a
    <3>1. PICK m : m = x.moved \cup {pid}
      OBVIOUS
    <3>2. z = [x EXCEPT !.moved = m]
      BY <1>1, <2>1, <2>2, <3>1 DEF Noted
    <3>3. z.moved = m
      BY <2>1, <3>2, MovedOnly
    <3>4. z.moved # {}
      BY <3>1, <3>3
    <3> QED BY <2>1, <3>4 DEF Undisturbed
  <2>3. CASE x.home # a
    <3>1. z = x
      BY <1>1, <2>1, <2>3 DEF Noted
    <3>2. x.home \in DOMAIN sessions =>
            x.home \in DOMAIN sessions' /\ sessions'[x.home].doc = sessions[x.home].doc
      BY <2>3 DEF DocsStay
    <3> QED BY <2>1, <3>1, <3>2 DEF Undisturbed
  <2> QED BY <2>2, <2>3
<1> QED BY <1>2, <1>3, OneInOrder

(* A call that does not come to do a step. *)
LEMMA CallsInOrder ==
  ASSUME Shape, InOrder, NEW c \in Callers,
         \/ \E r \in Requests : Begin(c, r)
         \/ GetSession(c) \/ Match(c)
  PROVE  InOrder'
<1>1. IsCall(calls[c]) /\ Placed(calls[c], sessions) /\ DOMAIN calls = Callers
  BY DEF Shape
<1>2. ASSUME NEW r \in Requests, Begin(c, r) PROVE InOrder'
  <2> DEFINE y == [Idle EXCEPT !.pc = "resolve", !.req = r]
  <2>1. calls' = [calls EXCEPT ![c] = y] /\ UNCHANGED sessions /\ current' = current
    BY <1>2 DEF Begin
  <2>2. y.pc = "resolve"
    BY DEF Idle
  <2> HIDE DEF y
  <2>3. Sound(y, sessions', current')
    BY <2>2, SoundAway
  <2> QED BY <2>1, <2>3, NothingDone, QuietInOrder
<1>3. ASSUME GetSession(c) PROVE InOrder'
  <2> DEFINE x == calls[c]
             to == IF x.req.batch THEN "validate" ELSE IF Tracked THEN "context" ELSE "match"
             y == [x EXCEPT !.home = OpenAt, !.pc = to]
  <2>1. calls' = [calls EXCEPT ![c] = y] /\ sessions' = Opened /\ current' = OpenAt
    BY <1>1, <1>3 DEF GetSession
  <2>2. y.pc = to /\ y.req = x.req
    BY <1>1 DEF IsCall, CallsWith
  <2> HIDE DEF y
  <2>3. y.pc = "validate" \/ ~y.req.batch
    BY <2>2
  <2>4. Sound(y, sessions', current')
    BY <2>3, SoundAway
  <2> QED BY <2>1, <2>4, OpeningKeeps, QuietInOrder
<1>4. ASSUME Match(c) PROVE InOrder'
  <2> DEFINE x == calls[c]
             refused == [x EXCEPT !.pc = "idle", !.out = "refused"]
             y == [x EXCEPT !.range = Found(Doc(c), OnlyStep(c)), !.moved = Apart(c),
                            !.pc = IF Tracked THEN "preview" ELSE "mutate"]
  <2>1. UNCHANGED sessions /\ current' = current /\ x.pc = "match"
    BY <1>4 DEF Match
  <2>2. ~x.req.batch
    BY <1>1, <2>1 DEF Placed
  <2>3. CASE ~Finds(Doc(c), OnlyStep(c))
    <3>1. calls' = [calls EXCEPT ![c] = refused]
      BY <1>1, <1>4, <2>3 DEF Match, Answer
    <3>2. refused.req = x.req
      BY <1>1 DEF IsCall, CallsWith
    <3> HIDE DEF refused
    <3>3. Sound(refused, sessions', current')
      BY <2>2, <3>2, SoundAway
    <3> QED BY <2>1, <3>1, <3>3, NothingDone, QuietInOrder
  <2>4. CASE Finds(Doc(c), OnlyStep(c))
    <3>1. calls' = [calls EXCEPT ![c] = y]
      BY <1>1, <1>4, <2>4 DEF Match
    <3>2. y.req = x.req
      BY <1>1 DEF IsCall, CallsWith
    <3> HIDE DEF y
    <3>3. Sound(y, sessions', current')
      BY <2>2, <3>2, SoundAway
    <3> QED BY <2>1, <3>1, <3>3, NothingDone, QuietInOrder
  <2> QED BY <2>3, <2>4
<1> QED BY <1>2, <1>3, <1>4

(* A batch that was checked goes on to mean what it meant while it waits   *)
(* for the counter.                                                        *)
LEMMA MeantOn ==
  ASSUME NEW x, NEW y, NEW ss, NEW tt, NEW cur, Sound(x, ss, cur), x.pc \in {"context", "scan"},
         y.pc \in {"scan", "preview"} \/ ~y.req.batch, y.req = x.req, y.home = x.home, y.goal = x.goal,
         y.moved = x.moved, tt[x.home].doc = ss[x.home].doc
  PROVE  Sound(y, tt, cur)
<1> SUFFICES ASSUME y.req.batch, y.moved = {}
             PROVE  Meant(y, tt, cur) /\ Doing(y, tt, cur) /\ Finished(y, tt)
  BY DEF Sound
<1>1. Meant(x, ss, cur)
  BY DEF Sound
<1>2. Meant(y, tt, cur)
  BY <1>1 DEF Meant
<1>3. Doing(y, tt, cur) /\ Finished(y, tt)
  BY DEF Doing, Finished
<1> QED BY <1>2, <1>3

(* A batch waits for the counter of its session. *)
LEMMA WaitingInOrder ==
  ASSUME Shape, InOrder, NEW c \in Callers, HaveContext(c) \/ StartScan(c) \/ EndScan(c)
  PROVE  InOrder'
<1> DEFINE x == calls[c]
           h == x.home
           s == sessions[h]
           seed == IF s.scan # 0 THEN s.scan ELSE FreshId(s.doc)
           started == [x EXCEPT !.pc = "scan", !.seed = seed]
           ended == [x EXCEPT !.pc = AfterContext(c)]
           begun == [s EXCEPT !.scan = seed]
           done == [s EXCEPT !.next = Seeded(@, x.seed), !.scan = 0]
<1>1. IsCall(x) /\ Placed(x, sessions) /\ DOMAIN calls = Callers /\ Sound(x, sessions, current)
  BY DEF Shape, InOrder
<1>2. x.pc \in {"context", "scan"} /\ current' = current
  BY DEF HaveContext, StartScan, EndScan
<1>3. h \in DOMAIN sessions
  BY <1>1, <1>2 DEF Placed
<1>4. s \in Sessions
  BY <1>3, LenProperties, ElementOfSeq DEF Shape
<1>5. /\ started.pc = "scan" /\ started.req = x.req /\ started.home = x.home /\ started.goal = x.goal
      /\ started.moved = x.moved
  BY <1>1 DEF IsCall, CallsWith
<1>6. /\ ended.pc = AfterContext(c) /\ ended.req = x.req /\ ended.home = x.home /\ ended.goal = x.goal
      /\ ended.moved = x.moved
  BY <1>1 DEF IsCall, CallsWith
<1>7. begun.doc = s.doc /\ done.doc = s.doc
  BY <1>4 DEF Sessions
<1>8. /\ calls' = [calls EXCEPT ![c] = started] \/ calls' = [calls EXCEPT ![c] = ended]
      /\ \/ UNCHANGED sessions
         \/ sessions' = [sessions EXCEPT ![h] = begun]
         \/ sessions' = [sessions EXCEPT ![h] = done]
  <2>1. ASSUME HaveContext(c) PROVE calls' = [calls EXCEPT ![c] = ended] /\ UNCHANGED sessions
    BY <1>1, <2>1 DEF HaveContext
  <2>2. ASSUME StartScan(c)
        PROVE  calls' = [calls EXCEPT ![c] = started] /\ sessions' = [sessions EXCEPT ![h] = begun]
    BY <1>1, <1>3, <2>2 DEF StartScan
  <2>3. ASSUME EndScan(c)
        PROVE  calls' = [calls EXCEPT ![c] = ended] /\ sessions' = [sessions EXCEPT ![h] = done]
    BY <1>1, <1>3, <2>3 DEF EndScan
  <2> QED BY <2>1, <2>2, <2>3
<1> HIDE DEF started, ended, begun, done
<1>9. sessions'[h].doc = s.doc /\ DocsStay({})
  BY <1>3, <1>7, <1>8 DEF DocsStay
<1>10. DocsKept
  BY <1>9 DEF DocsStay, DocsKept
<1>11. Sound(started, sessions', current)
  BY <1>1, <1>2, <1>5, <1>9, MeantOn
<1>12. Sound(ended, sessions', current)
  <2>1. ended.pc \in {"scan", "preview"} \/ ~ended.req.batch
    BY <1>6 DEF AfterContext
  <2> QED BY <1>1, <1>2, <1>6, <1>9, <2>1, MeantOn
<1>13. CASE calls' = [calls EXCEPT ![c] = started]
  BY <1>2, <1>10, <1>11, <1>13, QuietInOrder
<1>14. CASE calls' = [calls EXCEPT ![c] = ended]
  BY <1>2, <1>10, <1>12, <1>14, QuietInOrder
<1> QED BY <1>8, <1>13, <1>14

(* A batch is checked against the text its session shows. *)
LEMMA ValidateInOrder ==
  ASSUME Tracked, Shape, InOrder, NEW c \in Callers, Validate(c)
  PROVE  InOrder'
<1> DEFINE x == calls[c]
           refused == [x EXCEPT !.pc = "idle", !.out = "refused"]
           y == [x EXCEPT !.moved = Apart(c), !.goal = Goal(Doc(c), x.req.steps), !.pc = "context"]
<1>1. IsCall(x) /\ DOMAIN calls = Callers
  BY DEF Shape
<1>2. UNCHANGED sessions /\ current' = current
  BY DEF Validate
<1>3. CASE ~Acceptable(Doc(c), x.req.steps)
  <2>1. calls' = [calls EXCEPT ![c] = refused]
    BY <1>1, <1>3 DEF Validate, Answer
  <2>2. refused.pc = "idle" /\ refused.out = "refused"
    BY <1>1 DEF IsCall, CallsWith
  <2> HIDE DEF refused
  <2>3. Sound(refused, sessions', current')
    BY <2>2, SoundAway
  <2> QED BY <1>2, <2>1, <2>3, NothingDone, QuietInOrder
<1>4. CASE Acceptable(Doc(c), x.req.steps)
  <2>1. calls' = [calls EXCEPT ![c] = y]
    BY <1>1, <1>4 DEF Validate
  <2>2. /\ y.pc = "context" /\ y.req = x.req /\ y.home = x.home /\ y.moved = Apart(c)
        /\ y.goal = Goal(Doc(c), x.req.steps)
    BY <1>1 DEF IsCall, CallsWith
  <2> HIDE DEF y
  <2>3. ASSUME y.moved = {} PROVE Meant(y, sessions, current)
    <3>1. y.home = current
      BY <2>2, <2>3 DEF Apart
    <3> QED BY <1>4, <2>2, <3>1 DEF Meant, Doc
  <2>4. Doing(y, sessions, current) /\ Finished(y, sessions)
    BY <2>2 DEF Doing, Finished
  <2>5. Sound(y, sessions', current')
    BY <1>2, <2>3, <2>4 DEF Sound
  <2> QED BY <1>2, <2>1, <2>5, NothingDone, QuietInOrder
<1> QED BY <1>3, <1>4

(* The trial of a batch: nothing is done yet, and every step is clear.     *)
LEMMA PreviewInOrder ==
  ASSUME Tracked, Shape, Looking, InOrder, NEW c \in Callers, Preview(c)
  PROVE  InOrder'
<1> DEFINE x == calls[c]
           d == sessions[x.home].doc
           steps == x.req.steps
           refused == [x EXCEPT !.pc = "idle", !.out = "refused"]
           y == [x EXCEPT !.pc = IF x.req.batch THEN "steps" ELSE "mutate"]
<1>1. /\ IsCall(x) /\ Placed(x, sessions) /\ DOMAIN calls = Callers
      /\ Sound(x, sessions, current)
  BY DEF Shape, InOrder
<1>2. x.pc = "preview" /\ UNCHANGED sessions /\ current' = current
  BY DEF Preview
<1>3. CASE ~Passes(c)
  <2>1. calls' = [calls EXCEPT ![c] = refused]
    BY <1>1, <1>3 DEF Preview, Answer
  <2>2. refused.pc = "idle" /\ refused.out = "refused"
    BY <1>1 DEF IsCall, CallsWith
  <2> HIDE DEF refused
  <2>3. Sound(refused, sessions', current')
    BY <2>2, SoundAway
  <2> QED BY <1>2, <2>1, <2>3, NothingDone, QuietInOrder
<1>4. CASE Passes(c)
  <2>1. calls' = [calls EXCEPT ![c] = y]
    BY <1>1, <1>4 DEF Preview
  <2>2. /\ y.req = x.req /\ y.home = x.home /\ y.goal = x.goal /\ y.moved = x.moved /\ y.done = x.done
        /\ y.pc = (IF x.req.batch THEN "steps" ELSE "mutate")
    BY <1>1 DEF IsCall, CallsWith
  <2> HIDE DEF y
  <2>3. ASSUME y.req.batch, y.moved = {} PROVE Doing(y, sessions, current)
    <3>1. Meant(x, sessions, current)
      BY <1>1, <2>2, <2>3 DEF Sound
    <3>2. x.home = current /\ Acceptable(d, steps) /\ x.goal = Goal(d, steps)
      BY <1>2, <3>1 DEF Meant
    <3>3. x.req \in Requests /\ x.home \in DOMAIN sessions /\ x.done = 0
      BY <1>1, <1>2 DEF Placed
    <3>4. steps \in Seq(StepRecords)
      BY <3>3, RequestIs
    <3>5. d \in Documents(All) /\ sessions[x.home].next \in Nat /\ DistinctIds(d)
      BY <3>3, SessionDoc DEF Looking
    <3>6. Rehearsed(d, sessions[x.home].next, steps)
      BY <1>4, <2>2, <2>3 DEF Passes, Doc
    <3>7. AllClear(d, steps) /\ Reaches(d, d, steps, 0)
      <4> HIDE DEF x, d, steps
      <4>1. PICK next \in Nat : next = sessions[x.home].next
        BY <3>5
      <4> QED BY <3>2, <3>4, <3>5, <3>6, <4>1, RehearsedIsClear, ReachesFirst
    <3>8. UnderWay(y, d)
      BY <2>2, <3>2, <3>3, <3>5, <3>7 DEF UnderWay
    <3> QED BY <2>2, <2>3, <3>2, <3>8 DEF Doing
  <2>4. Meant(y, sessions, current) /\ Finished(y, sessions)
    BY <2>2 DEF Meant, Finished
  <2>5. Sound(y, sessions', current')
    BY <1>2, <2>3, <2>4 DEF Sound
  <2> QED BY <1>2, <2>1, <2>5, NothingDone, QuietInOrder
<1> QED BY <1>3, <1>4

(* A step that resolves its session finds that of the batch.               *)
LEMMA StepSessionInOrder ==
  ASSUME Shape, InOrder, NEW c \in Callers, StepSession(c)
  PROVE  InOrder'
<1> DEFINE x == calls[c]
           y == [x EXCEPT !.pc = "step", !.at = OpenAt]
<1>1. /\ IsCall(x) /\ Placed(x, sessions) /\ DOMAIN calls = Callers
      /\ Sound(x, sessions, current)
  BY DEF Shape, InOrder
<1>2. calls' = [calls EXCEPT ![c] = y] /\ sessions' = Opened /\ current' = OpenAt /\ x.pc = "steps"
  BY <1>1 DEF StepSession
<1>3. /\ y.pc = "step" /\ y.at = OpenAt /\ y.req = x.req /\ y.home = x.home /\ y.goal = x.goal
      /\ y.moved = x.moved /\ y.done = x.done
  BY <1>1 DEF IsCall, CallsWith
<1> HIDE DEF y
<1>4. ASSUME y.req.batch, y.moved = {} PROVE Doing(y, sessions', current')
  <2>1. Doing(x, sessions, current)
    BY <1>1, <1>3, <1>4 DEF Sound
  <2>2. x.home = current /\ UnderWay(x, sessions[x.home].doc)
    BY <1>2, <2>1 DEF Doing
  <2>3. x.home \in DOMAIN sessions
    BY <1>1, <1>2 DEF Placed
  <2>4. current # 0
    BY <2>2, <2>3, LenProperties DEF Shape
  <2>5. OpenAt = x.home /\ sessions' = sessions
    BY <1>2, <2>2, <2>4 DEF OpenAt, Opened
  <2>6. UnderWay(y, sessions[x.home].doc)
    BY <1>3, <2>2 DEF UnderWay
  <2> QED BY <1>2, <1>3, <2>5, <2>6 DEF Doing
<1>5. Meant(y, sessions', current') /\ Finished(y, sessions')
  BY <1>3 DEF Meant, Finished
<1>6. Sound(y, sessions', current')
  BY <1>4, <1>5 DEF Sound
<1> QED BY <1>2, <1>6, OpeningKeeps, QuietInOrder

(* A standalone edit is told to the batches in its session. *)
LEMMA MutateInOrder ==
  ASSUME Shape, InOrder, NEW c \in Callers, Mutate(c)
  PROVE  InOrder'
<1> DEFINE x == calls[c]
           h == x.home
           s == sessions[h]
           step == OnlyStep(c)
           t == Trimmed(step, x.range)
           r == Applied(s.doc, s.next, step, t)
           y == [x EXCEPT !.pc = "idle", !.out = "ok"]
           refused == [x EXCEPT !.pc = "idle", !.out = "refused"]
           z == [s EXCEPT !.doc = r.doc, !.next = r.next]
<1>1. IsCall(x) /\ Placed(x, sessions) /\ DOMAIN calls = Callers
  BY DEF Shape
<1>2. x.pc = "mutate" /\ current' = current
  BY DEF Mutate
<1>3. ~x.req.batch /\ h \in DOMAIN sessions
  BY <1>1, <1>2 DEF Placed
<1>4. y.req = x.req /\ refused.req = x.req
  BY <1>1 DEF IsCall, CallsWith
<1>5. Sound(y, sessions', current') /\ Sound(refused, sessions', current')
  <2> HIDE DEF y, refused
  <2> QED BY <1>3, <1>4, SoundAway
<1>6. CASE ~Applies(s.doc, step, t)
  <2>1. calls' = [calls EXCEPT ![c] = refused] /\ UNCHANGED sessions
    BY <1>1, <1>6 DEF Mutate, Doc, Answer
  <2> HIDE DEF refused
  <2> QED BY <1>2, <1>5, <2>1, NothingDone, QuietInOrder
<1>7. CASE Applies(s.doc, step, t)
  <2>1. sessions' = [sessions EXCEPT ![h].doc = r.doc, ![h].next = r.next]
    BY <1>7 DEF Mutate, Doc
  <2>2. DocsStay({h})
    <3> HIDE DEF r
    <3> QED BY <1>3, <2>1 DEF DocsStay
  <2>3. calls' = Noted([calls EXCEPT ![c] = y], c, h, Touched(s.doc, step))
    <3>1. Answer(c, "ok") = [calls EXCEPT ![c] = y]
      BY <1>1 DEF Answer
    <3> QED BY <1>7, <3>1 DEF Mutate, Doc
  <2> HIDE DEF y, h, s, step
  <2> QED BY <1>2, <1>3, <1>5, <2>2, <2>3, EditInOrder
<1> QED BY <1>6, <1>7

(* A batch learns that its session is closed. *)
LEMMA CloseInOrder ==
  ASSUME Shape, InOrder, CloseFile
  PROVE  InOrder'
<1>1. UNCHANGED sessions
  BY DEF CloseFile
<1>2. ASSUME NEW c \in Callers PROVE Sound(calls'[c], sessions', current')
  <2>1. PICK x, y : x = calls[c] /\ y = calls'[c]
    OBVIOUS
  <2>2. IsCall(x) /\ Placed(x, sessions) /\ Sound(x, sessions, current)
    BY <2>1 DEF Shape, InOrder
  <2>3. CASE x.home = current
    <3>1. PICK m : m = x.moved \cup {0}
      OBVIOUS
    <3>2. y = [x EXCEPT !.moved = m]
      BY <2>1, <2>3, <3>1 DEF CloseFile
    <3>3. y.moved # {}
      BY <2>2, <3>1, <3>2, MovedOnly
    <3> QED BY <2>1, <3>3, SoundAway
  <2>4. CASE x.home # current
    <3>1. y = x
      BY <2>1, <2>4 DEF CloseFile
    <3>2. Undisturbed(x, y)
      BY <1>1, <2>4, <3>1 DEF Undisturbed
    <3>3. Moved(x, y)
      BY <2>2, <3>1, MovedNot
    <3> QED BY <2>1, <2>2, <3>2, <3>3, SoundOn
  <2> QED BY <2>3, <2>4
<1> QED BY <1>2 DEF InOrder

(* The next step of a batch under way can be done, and the batch stays     *)
(* under way.                                                              *)
LEMMA UnderWayOn ==
  ASSUME Tracked, NEW x, NEW w, UnderWay(x, w), x.req.steps \in Seq(StepRecords), NEW n \in Nat,
         x.done = n, n < Len(x.req.steps), NEW step, step = x.req.steps[n + 1],
         NEW t, t = Trimmed(step, Found(w, step)), NEW next \in Nat,
         NEW y, y.req = x.req, y.goal = x.goal, y.done = n + 1
  PROVE  /\ Finds(w, step) /\ Applies(w, step, t)
         /\ UnderWay(y, Applied(w, next, step, t).doc)
<1>1. PICK steps \in Seq(StepRecords), i \in Nat : steps = x.req.steps /\ i = n + 1
  OBVIOUS
<1>2. PICK d, E : /\ d \in Documents(E) /\ DistinctIds(d)
                  /\ Acceptable(d, steps) /\ AllClear(d, steps) /\ x.goal = Goal(d, steps)
                  /\ Reaches(w, d, steps, n)
  BY <1>1 DEF UnderWay
<1>3. StepAt(d, steps, n, i, step)
  BY <1>1, <1>2 DEF StepAt
<1>4. Clear(d, steps, n, step)
  <2>1. PICK l \in Nat : l = Len(steps)
    BY LenProperties
  <2>2. i \in 1..Len(steps) /\ i - 1 = n
    BY <1>1, <2>1
  <2> QED BY <1>1, <1>2, <2>2 DEF AllClear
<1>5. IsCut(t, w, step)
  BY DEF IsCut
<1>6. Finds(w, step) /\ Applies(w, step, t) /\ Ranged(step, t)
  BY <1>2, <1>3, <1>4, <1>5, ClearCanBeDone
<1>7. Reaches(Applied(w, next, step, t).doc, d, steps, i)
  BY <1>2, <1>3, <1>4, <1>5, StepReaches
<1>8. y.req.steps = steps /\ y.goal = x.goal /\ y.done = i
  BY <1>1
<1>9. UnderWay(y, Applied(w, next, step, t).doc)
  BY <1>2, <1>7, <1>8 DEF UnderWay
<1> QED BY <1>6, <1>9

(* After its last step a batch has come to what it means. *)
LEMMA UnderWayEnds ==
  ASSUME NEW x, NEW w, UnderWay(x, w), x.req.steps \in Seq(StepRecords), x.done = Len(x.req.steps)
  PROVE  View(w) = x.goal
<1>1. PICK steps \in Seq(StepRecords) : steps = x.req.steps
  OBVIOUS
<1>2. PICK d, E : x.goal = Goal(d, steps) /\ Reaches(w, d, steps, Len(steps))
  BY <1>1 DEF UnderWay
<1> QED BY <1>2, ReachesGoal

(* A step of a batch that nobody disturbed is done where it was meant.     *)
LEMMA StepInOrder ==
  ASSUME Tracked, Shape, InOrder, NEW c \in Callers, Step(c)
  PROVE  InOrder'
<1> DEFINE x == calls[c]
           h == x.home
           a == x.at
           n == x.done
           d == sessions[a].doc
           step == x.req.steps[n + 1]
           t == Trimmed(step, Found(d, step))
           r == Applied(d, sessions[h].next, step, t)
           last == n + 1 = Len(x.req.steps)
           ended == [x EXCEPT !.pc = "idle", !.out = "ok", !.done = n + 1]
           going == [x EXCEPT !.pc = "steps", !.done = n + 1]
           y == IF last THEN ended ELSE going
           partial == [x EXCEPT !.pc = "idle", !.out = "partial"]
<1>1. /\ IsCall(x) /\ Placed(x, sessions) /\ DOMAIN calls = Callers
      /\ Sound(x, sessions, current)
  BY DEF Shape, InOrder
<1>2. x.pc = "step" /\ current' = current
  BY DEF Step
<1>3. /\ x.req \in Requests /\ h \in DOMAIN sessions /\ a \in DOMAIN sessions /\ n < Len(x.req.steps)
      /\ x.req.batch
  BY <1>1, <1>2 DEF Placed
<1>4. n \in Nat /\ x.req.steps \in Seq(StepRecords) /\ sessions[h].next \in Nat
  BY <1>1, <1>3, RequestIs, SessionDoc DEF IsCall, CallsWith
<1>5. /\ partial.moved = x.moved
      /\ ended.pc = "idle" /\ ended.out = "ok" /\ ended.req = x.req /\ ended.home = x.home
      /\ ended.goal = x.goal /\ ended.moved = x.moved /\ ended.done = n + 1
      /\ going.pc = "steps" /\ going.req = x.req /\ going.home = x.home
      /\ going.goal = x.goal /\ going.moved = x.moved /\ going.done = n + 1
  BY <1>1 DEF IsCall, CallsWith
<1>6. /\ y.pc = (IF last THEN "idle" ELSE "steps") /\ y.req = x.req /\ y.home = x.home
      /\ y.goal = x.goal /\ y.moved = x.moved /\ y.done = n + 1 /\ (last => y.out = "ok")
  <2> HIDE DEF ended, going
  <2> QED BY <1>5
<1>7. ASSUME x.moved = {}
      PROVE  h = current /\ a = h /\ UnderWay(x, d)
  <2>1. Doing(x, sessions, current)
    BY <1>1, <1>3, <1>7 DEF Sound
  <2> QED BY <1>2, <2>1 DEF Doing
<1>8. ASSUME x.moved = {} PROVE Finds(d, step) /\ Applies(d, step, t) /\ UnderWay(y, r.doc)
  <2>1. UnderWay(x, d)
    BY <1>7, <1>8
  <2> HIDE DEF x, y, h, a, d, n
  <2>2. PICK m \in Nat, next \in Nat : m = n /\ next = sessions[h].next
    BY <1>4
  <2>3. PICK s, w, u : s = step /\ w = d /\ u = t
    OBVIOUS
  <2>4. /\ x.done = m /\ m < Len(x.req.steps) /\ s = x.req.steps[m + 1] /\ u = Trimmed(s, Found(w, s))
        /\ y.req = x.req /\ y.goal = x.goal /\ y.done = m + 1
    BY <1>3, <1>6, <2>2, <2>3 DEF n
  <2>5. UnderWay(x, w) /\ x.req.steps \in Seq(StepRecords)
    BY <1>4, <2>1, <2>3
  <2> HIDE DEF step, t
  <2>6. Finds(w, s) /\ Applies(w, s, u) /\ UnderWay(y, Applied(w, next, s, u).doc)
    BY <2>4, <2>5, UnderWayOn
  <2> QED BY <2>2, <2>3, <2>6
<1>9. CASE ~(Finds(d, step) /\ Applies(d, step, t))
  <2>1. calls' = [calls EXCEPT ![c] = partial] /\ UNCHANGED sessions
    BY <1>1, <1>9 DEF Step, Answer
  <2>2. partial.moved # {}
    BY <1>5, <1>8, <1>9
  <2> HIDE DEF partial
  <2>3. Sound(partial, sessions', current')
    BY <2>2, SoundAway
  <2> QED BY <1>2, <2>1, <2>3, NothingDone, QuietInOrder
<1>10. CASE Finds(d, step) /\ Applies(d, step, t)
  <2>1. sessions'[a].doc = r.doc /\ DocsStay({a})
    <3>1. PICK b : b = (sessions[a].crossed \/ a # h)
      OBVIOUS
    <3>2. sessions' = [sessions EXCEPT ![h].next = r.next, ![a].doc = r.doc,
                                       ![a].crossed = @ \/ a # h]
      BY <1>10 DEF Step
    <3>3. sessions' = [sessions EXCEPT ![h].next = r.next, ![a].doc = r.doc, ![a].crossed = b]
      <4> HIDE DEF r, h, a
      <4>1. CASE a = h
        BY <1>3, <3>1, <3>2, <4>1
      <4>2. CASE a # h
        BY <1>3, <3>1, <3>2, <4>2
      <4> QED BY <4>1, <4>2
    <3> HIDE DEF r, h, a
    <3> QED BY <1>3, <3>3, BatchStepDocs
  <2>2. calls' = Noted([calls EXCEPT ![c] = y], c, a, Touched(d, step))
    <3>1. CASE last
      <4>1. [Answer(c, "ok") EXCEPT ![c].done = @ + 1] = [calls EXCEPT ![c] = y]
        BY <1>1, <3>1 DEF Answer
      <4>2. calls' = Noted([Answer(c, "ok") EXCEPT ![c].done = @ + 1], c, a, Touched(d, step))
        BY <1>10, <3>1 DEF Step
      <4> QED BY <4>1, <4>2
    <3>2. CASE ~last
      <4>1. [[calls EXCEPT ![c].pc = "steps"] EXCEPT ![c].done = @ + 1] = [calls EXCEPT ![c] = y]
        BY <1>1, <3>2
      <4>2. calls' = Noted([[calls EXCEPT ![c].pc = "steps"] EXCEPT ![c].done = @ + 1],
                           c, a, Touched(d, step))
        BY <1>10, <3>2 DEF Step
      <4> QED BY <4>1, <4>2
    <3> QED BY <3>1, <3>2
  <2>3. Sound(y, sessions', current')
    <3> HIDE DEF x, y, r, a, d, h, n, step, t, last
    <3> SUFFICES ASSUME y.moved = {}
                 PROVE  Meant(y, sessions', current') /\ Doing(y, sessions', current')
                        /\ Finished(y, sessions')
      BY DEF Sound
    <3>1. h = current /\ a = h /\ UnderWay(y, r.doc) /\ y.home = h
      BY <1>6, <1>7, <1>8 DEF h
    <3>2. sessions'[y.home].doc = r.doc /\ y.home \in DOMAIN sessions' /\ y.home = current'
      BY <1>2, <1>3, <2>1, <3>1 DEF DocsStay
    <3>3. Meant(y, sessions', current')
      BY <1>6 DEF Meant
    <3>4. Doing(y, sessions', current')
      <4>1. y.pc # "step"
        BY <1>6
      <4> QED BY <3>1, <3>2, <4>1 DEF Doing
    <3>5. Finished(y, sessions')
      <4> SUFFICES ASSUME y.pc = "idle"
                   PROVE  y.out = "ok" /\ View(sessions'[y.home].doc) = y.goal
        BY <3>2 DEF Finished
      <4>1. last
        BY <1>6
      <4>2. y.out = "ok" /\ y.done = Len(y.req.steps) /\ y.req.steps \in Seq(StepRecords)
        BY <1>4, <1>6, <4>1 DEF last
      <4>3. View(r.doc) = y.goal
        BY <3>1, <4>2, UnderWayEnds
      <4> QED BY <3>2, <4>2, <4>3
    <3> QED BY <3>3, <3>4, <3>5
  <2> HIDE DEF y, r, a, step, d
  <2> QED BY <1>2, <1>3, <2>1, <2>2, <2>3, EditInOrder
<1> QED BY <1>9, <1>10

(* Every step leaves every batch in order.                                 *)
LEMMA NextInOrder ==
  ASSUME Tracked, Shape, Looking, InOrder, [Next]_vars
  PROVE  InOrder'
<1>1. CASE UNCHANGED vars
  <2>1. sessions' = sessions /\ calls' = calls /\ current' = current
    BY <1>1 DEF vars
  <2> QED BY <2>1 DEF InOrder
<1>2. ASSUME NEW c \in Callers,
             \/ \E r \in Requests : Begin(c, r)
             \/ GetSession(c) \/ Match(c)
      PROVE  InOrder'
  BY <1>2, CallsInOrder
<1>3. ASSUME NEW c \in Callers, HaveContext(c) \/ StartScan(c) \/ EndScan(c) PROVE InOrder'
  BY <1>3, WaitingInOrder
<1>4. ASSUME NEW c \in Callers, Validate(c) PROVE InOrder'
  BY <1>4, ValidateInOrder
<1>5. ASSUME NEW c \in Callers, Preview(c) PROVE InOrder'
  BY <1>5, PreviewInOrder
<1>6. ASSUME NEW c \in Callers, Mutate(c) PROVE InOrder'
  BY <1>6, MutateInOrder
<1>7. ASSUME NEW c \in Callers, StepSession(c) PROVE InOrder'
  BY <1>7, StepSessionInOrder
<1>8. ASSUME NEW c \in Callers, Step(c) PROVE InOrder'
  BY <1>8, StepInOrder
<1>9. CASE CloseFile
  BY <1>9, CloseInOrder
<1> QED BY <1>1, <1>2, <1>3, <1>4, <1>5, <1>6, <1>7, <1>8, <1>9 DEF Next

(* A batch that passed its checks and that nobody disturbed does all its   *)
(* steps, and leaves the text with all the ranges it found replaced at the *)
(* same time and its new paragraphs where they were named, although each   *)
(* step is looked up in what the steps before it left (validateSteps,      *)
(* executeStepsOnDoc, executeSteps).  The session has an author: without   *)
(* one nothing is tried before the steps, and one of them may fail.  No    *)
(* two paragraphs of the file have one id.                                 *)
THEOREM BatchIsSimultaneousHolds ==
  ASSUME Tracked, DistinctIds(File)
  PROVE  Spec => []BatchIsSimultaneous
<1>1. Init => Looking /\ InOrder
  <2> SUFFICES ASSUME Init PROVE Looking /\ InOrder
    OBVIOUS
  <2>1. calls = [c \in Callers |-> Idle] /\ ~Idle.req.batch
    BY DEF Init, Idle
  <2>2. InOrder
    BY <2>1, SoundAway DEF InOrder
  <2> QED BY <2>2, InitIsAtomic
<1>2. Shape /\ Looking /\ InOrder /\ [Next]_vars => Looking' /\ InOrder'
  BY NextIsAtomic, NextInOrder
<1>3. InOrder => BatchIsSimultaneous
  BY DEF InOrder, Sound, Finished, BatchIsSimultaneous, Doc
<1> QED BY <1>1, <1>2, <1>3, SpecKeeps, PTL DEF Spec
=============================================================================
