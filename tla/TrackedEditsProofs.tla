-------------------------- MODULE TrackedEditsProofs --------------------------
(***************************************************************************)
(* Proofs about tracked edits: their types, that rejecting the editor's    *)
(* revisions gives back the document without the edits, that rejecting or  *)
(* accepting everything comes to the same with the editor's revisions      *)
(* resolved first, in either order, and that accepting everything comes to *)
(* the document edited without tracking.                                   *)
(***************************************************************************)
EXTENDS TrackedEdits, RedlinesProofs

(***************************************************************************)
(* Types                                                                   *)
(***************************************************************************)

All == Markup(Writers)

Page(d) == d \in Documents(All) /\ d # <<>> /\ DistinctIds(d)

(* No id on two revisions, and none that is yet to be given.               *)
OneEach(d) == \A r, q \in Revisions(d) : r.id = q.id => r = q
Before(d, n) == \A r \in Revisions(d) : r.id < n

Shape ==
  /\ Page(doc) /\ Page(clean) /\ Page(base)
  /\ OneEach(doc) /\ next \in Nat /\ Before(doc, next)
  /\ same \in BOOLEAN /\ apart \in BOOLEAN /\ edits \in 0..MaxEdits

(* What a document may hold that holds nothing but its own revisions.      *)
Own(d) == {e \in All : e.kind = "link" \/ e \in Revisions(d)}

LEMMA OwnHolds ==
  ASSUME NEW d \in Documents(All)
  PROVE  d \in Documents(Own(d)) /\ Own(d) \subseteq All
<1>1. \A e \in All : e.kind = "link" \/ e \in Revisions(d) => e \in Own(d)
  BY DEF Own
<1>2. d \in Documents(Own(d))
  BY <1>1, HoldsItsRevisions
<1> QED BY <1>2 DEF Own

LEMMA KindsAre == \A e \in All : e.kind \in {"ins", "del", "link"} /\ e.id \in Nat
BY DEF All, Markup

(* An edit gives new ids to the revisions it adds.                         *)
LEMMA NewRevisions ==
  ASSUME NEW d \in Documents(All), OneEach(d), NEW n \in Nat, Before(d, n), NEW m \in Nat, n <= m,
         NEW K \in [Nat -> {"ins", "del"}], NEW z \in Documents(Own(d) \cup GivenAs(K, AI, n, m))
  PROVE  z \in Documents(All) /\ OneEach(z) /\ Before(z, m)
<1>1. PICK G, F : G = GivenAs(K, AI, n, m) /\ F = Own(d) \cup G
  OBVIOUS
<1>2. ASSUME NEW e \in G PROVE e \in All /\ \E id \in n..(m - 1) : e = Element(K[id], AI, id) /\ e.id = id
  <2>1. PICK id \in n..(m - 1) : e = Element(K[id], AI, id)
    BY <1>1, <1>2 DEF GivenAs
  <2>2. id \in Nat /\ K[id] \in {"ins", "del"} /\ AI \in Writers
    BY DEF Writers
  <2>3. e \in All /\ e.id = id
    BY <2>1, <2>2 DEF Element, All, Markup
  <2> QED BY <2>1, <2>3
<1>3. F \subseteq All
  BY <1>1, <1>2 DEF Own
<1>4. z \in Documents(All)
  <2>1. Documents(F) \subseteq Documents(All)
    BY <1>3, DocumentsGrow
  <2> QED BY <1>1, <2>1
<1>5. \A r \in Revisions(z) : r \in Revisions(d) \/ r \in G
  <2>1. Revisions(z) \subseteq {e \in F : e.kind # "link"}
    BY <1>1, RevisionsAreIn
  <2> QED BY <1>1, <2>1 DEF Own
<1>6. \A r \in Revisions(d) : r.id < n /\ r.id \in Nat
  <2>1. Revisions(d) \subseteq {e \in All : e.kind # "link"}
    BY RevisionsAreIn
  <2> QED BY <2>1, KindsAre DEF Before
<1>7. \A r \in G : r.id \in n..(m - 1)
  BY <1>2
<1>8. Before(z, m)
  <2>1. ASSUME NEW r \in Revisions(z) PROVE r.id < m
    <3>1. CASE r \in Revisions(d)
      BY <1>6, <3>1
    <3>2. CASE r \in G
      BY <1>7, <3>2
    <3> QED BY <1>5, <3>1, <3>2
  <2> QED BY <2>1 DEF Before
<1>9. OneEach(z)
  <2>1. ASSUME NEW r \in Revisions(z), NEW q \in Revisions(z), r.id = q.id PROVE r = q
    <3>1. CASE r \in Revisions(d) /\ q \in Revisions(d)
      BY <2>1, <3>1 DEF OneEach
    <3>2. CASE r \in G /\ q \in G
      BY <1>2, <2>1, <3>2
    <3>3. CASE r \in Revisions(d) /\ q \in G
      BY <1>6, <1>7, <2>1, <3>3
    <3>4. CASE r \in G /\ q \in Revisions(d)
      BY <1>6, <1>7, <2>1, <3>4
    <3> QED BY <1>5, <3>1, <3>2, <3>3, <3>4
  <2> QED BY <2>1 DEF OneEach
<1> QED BY <1>4, <1>8, <1>9

(* The paragraph ids of the three documents are below NewPid.              *)
LEMMA NewPidIsNew ==
  ASSUME Page(doc), Page(clean), Page(base)
  PROVE  /\ NewPid \in Nat
         /\ \A j \in DOMAIN doc : doc[j].id # NewPid
         /\ \A j \in DOMAIN clean : clean[j].id # NewPid
<1>1. PICK S, pids : S = Range(doc) \cup Range(clean) \cup Range(base) /\ pids = {p.id : p \in S}
  OBVIOUS
<1>2. ASSUME NEW d, Page(d)
      PROVE  /\ IsFiniteSet(Range(d)) /\ Range(d) # {} /\ \A p \in Range(d) : p.id \in Nat
             /\ \A j \in DOMAIN d : d[j] \in Range(d)
  <2>1. DOMAIN d = 1..Len(d) /\ Len(d) \in Nat /\ DOMAIN d # {}
    <3>1. PICK P : Documents(All) = Seq(P)
      BY DEF Documents
    <3>2. d \in Seq(P) /\ d # <<>>
      BY <1>2, <3>1 DEF Page
    <3>3. DOMAIN d = 1..Len(d) /\ Len(d) \in Nat
      BY <3>2, LenProperties
    <3>4. Len(d) # 0
      BY <3>2, EmptySeq
    <3>5. 1 \in DOMAIN d
      BY <3>3, <3>4
    <3> QED BY <3>3, <3>5
  <2>2. \A j \in DOMAIN d : d[j].id \in Nat
    BY <1>2, ParagraphOf DEF Page, ParagraphsIn
  <2>3. d \in Surjection(DOMAIN d, Range(d))
    <3>1. d = [j \in DOMAIN d |-> d[j]]
      BY <1>2 DEF Page, Documents
    <3> QED BY <3>1 DEF Surjection, Range
  <2>4. IsFiniteSet(DOMAIN d)
    BY <2>1, FS_Interval
  <2> QED BY <2>1, <2>2, <2>3, <2>4, FS_Surjection DEF Range
<1>3. IsFiniteSet(S) /\ S # {} /\ \A p \in S : p.id \in Nat
  <2>1. IsFiniteSet(Range(doc) \cup Range(clean))
    BY <1>2, FS_Union
  <2> QED BY <1>1, <1>2, <2>1, FS_Union
<1>4. pids \in SUBSET Nat /\ pids # {} /\ \A p \in S : p.id \in pids
  BY <1>1, <1>3
<1>5. IsFiniteSet(pids)
  <2> DEFINE f == [p \in S |-> p.id]
  <2>1. f \in Surjection(S, pids)
    BY <1>1 DEF Surjection
  <2> QED BY <1>3, <2>1, FS_Surjection
<1>6. PICK top \in Nat : top = Max(pids) /\ \A n \in pids : n \in Nat /\ n <= top
  BY <1>4, <1>5, MaxIs
<1>7. NewPid = top + 1
  BY <1>1, <1>6 DEF NewPid
<1>8. \A n \in pids : n # NewPid
  BY <1>6, <1>7
<1> QED BY <1>1, <1>2, <1>4, <1>6, <1>7, <1>8

(***************************************************************************)
(* Every step keeps the types                                              *)
(***************************************************************************)

LEMMA InitShape == Init => Shape
<1> SUFFICES ASSUME Init PROVE Shape
  OBVIOUS
<1>1. doc \in Docs /\ clean = doc /\ base = doc /\ next = FreshId(doc)
  BY DEF Init
<1>2. Page(doc)
  BY <1>1, DocsAssumption DEF Page, DistinctIds, All
<1>3. OneEach(doc)
  BY <1>1, DocsAssumption DEF OneEach
<1>4. PICK ids : ids = Ids(Revisions(doc)) /\ ids \in SUBSET Nat /\ IsFiniteSet(ids)
  BY <1>2, IdsAreNaturals DEF Page, All
<1>5. FreshId(doc) \in Nat /\ Before(doc, FreshId(doc))
  <2>1. CASE Revisions(doc) = {}
    BY <2>1 DEF FreshId, Before
  <2>2. CASE Revisions(doc) # {}
    <3>1. ids # {} /\ \A r \in Revisions(doc) : r.id \in ids
      BY <1>4, <2>2 DEF Ids
    <3>2. PICK top \in Nat : top = Max(ids) /\ \A n \in ids : n \in Nat /\ n <= top
      BY <1>4, <3>1, MaxIs
    <3>3. FreshId(doc) = top + 1
      BY <1>4, <2>2, <3>2 DEF FreshId
    <3> QED BY <3>1, <3>2, <3>3 DEF Before
  <2> QED BY <2>1, <2>2
<1>6. Page(doc) /\ Page(clean) /\ Page(base)
  BY <1>1, <1>2
<1>7. next \in Nat /\ Before(doc, next)
  BY <1>1, <1>5
<1>8. same \in BOOLEAN /\ apart \in BOOLEAN
  BY DEF Init
<1>9. edits \in 0..MaxEdits
  BY MaxEditsAssumption DEF Init
<1> QED BY <1>3, <1>6, <1>7, <1>8, <1>9 DEF Shape
(* The arguments of a replacement.                                         *)
LEMMA RangeOfText ==
  ASSUME NEW d \in Documents(All), NEW j \in DOMAIN d, NEW s \in 0..Len(TextOf(d[j])),
         NEW e \in s..Len(TextOf(d[j])), NEW new \in News \cup {<<>>}
  PROVE  s \in Nat /\ e \in Nat /\ s <= e /\ new \in Seq(Tokens)
<1>1. d[j].body \in Bodies(All)
  BY ParagraphOf DEF ParagraphsIn
<1>2. TextOf(d[j]) \in Seq(Tokens)
  BY <1>1, TextOfBody
<1>3. PICK n : n = Len(TextOf(d[j])) /\ n \in Nat
  BY <1>2, LenProperties
<1>4. s \in Nat /\ e \in Nat /\ s <= e
  BY <1>3
<1> QED BY <1>4, NewsAssumption, EmptySeq

(* A document keeps a paragraph and distinct ids when a call without       *)
(* tracking blanks one.                                                    *)
LEMMA RemovedIds ==
  ASSUME NEW d \in Documents(All), DistinctIds(d), NEW j \in DOMAIN d, Len(d) > 1
  PROVE  RemoveAt(d, j) # <<>> /\ DistinctIds(RemoveAt(d, j))
<1>1. PICK P : P = ParagraphsIn(All) /\ d \in Seq(P)
  BY DEF Documents, ParagraphsIn
<1>2. PICK n : n = Len(d) /\ n \in Nat /\ n > 1 /\ DOMAIN d = 1..n /\ j \in 1..n
  BY ParagraphOf
<1>3. PICK z, x : z = RemoveAt(d, j) /\ x = <<>>
  OBVIOUS
<1>4. x \in Seq(P) /\ Len(x) = 0
  BY <1>3, EmptySeq
<1>5. j - 1 \in Nat /\ j \in Nat /\ j - 1 <= j /\ j <= Len(d)
  BY <1>2
<1>6. PutInto(d, j - 1, j, x) \in Seq(P) /\ IsPut(PutInto(d, j - 1, j, x), d, j - 1, j, x)
  BY <1>1, <1>4, <1>5, Joined
<1>7. PutInto(d, j - 1, j, x) = z
  <2>1. SubSeq(d, 1, j - 1) \in Seq(P)
    BY <1>1, <1>2, ElementOfSeq, SubSeqProperties
  <2>2. SubSeq(d, 1, j - 1) \o <<>> = SubSeq(d, 1, j - 1)
    BY <2>1, ConcatEmptySeq
  <2> QED BY <1>3, <2>2 DEF PutInto, RemoveAt
<1>8. z \in Seq(P) /\ IsPut(z, d, j - 1, j, x)
  BY <1>6, <1>7
<1>9. /\ Len(z) = n - 1
      /\ \A k \in 1..(j - 1) : z[k] = d[k]
      /\ \A k \in j..(n - 1) : z[k] = d[k + 1]
  <2>1. /\ Len(z) = Len(d) - (j - (j - 1)) + Len(x)
        /\ \A k \in 1..(j - 1) : z[k] = d[k]
        /\ \A k \in (j - 1 + Len(x) + 1)..(Len(d) - (j - (j - 1)) + Len(x)) :
             z[k] = d[k - Len(x) + (j - (j - 1))]
    BY <1>8 DEF IsPut
  <2>2. Len(z) = n - 1 /\ j - 1 + Len(x) + 1 = j /\ Len(d) - (j - (j - 1)) + Len(x) = n - 1
    BY <1>2, <1>4, <2>1
  <2>3. \A k \in Nat : k - Len(x) + (j - (j - 1)) = k + 1
    BY <1>2, <1>4
  <2>4. \A k \in j..(n - 1) : z[k] = d[k + 1]
    <3>1. \A k \in j..(n - 1) : z[k] = d[k - Len(x) + (j - (j - 1))]
      BY <2>1, <2>2
    <3>2. ASSUME NEW k \in j..(n - 1) PROVE z[k] = d[k + 1]
      <4>1. PICK m : m = k - Len(x) + (j - (j - 1))
        OBVIOUS
      <4>2. m = k + 1
        BY <1>2, <2>3, <4>1
      <4> QED BY <3>1, <4>1, <4>2
    <3> QED BY <3>2
  <2> QED BY <2>1, <2>2, <2>4
<1>10. DOMAIN z = 1..(n - 1)
  BY <1>8, <1>9, LenProperties
<1>11. z # <<>>
  BY <1>2, <1>9, EmptySeq
<1>12. \A k \in 1..(n - 1) : \E i \in 1..n : z[k] = d[i] /\ i = IF k < j THEN k ELSE k + 1
  BY <1>2, <1>9
<1>13. ASSUME NEW i \in DOMAIN z, NEW k \in DOMAIN z, z[i].id = z[k].id PROVE i = k
  <2>1. PICK a \in 1..n : z[i] = d[a] /\ a = IF i < j THEN i ELSE i + 1
    BY <1>10, <1>12
  <2>2. PICK b \in 1..n : z[k] = d[b] /\ b = IF k < j THEN k ELSE k + 1
    BY <1>10, <1>12
  <2>3. a = b
    BY <1>2, <1>13, <2>1, <2>2 DEF DistinctIds
  <2> QED BY <1>2, <1>10, <2>1, <2>2, <2>3
<1>14. DistinctIds(z)
  BY <1>13 DEF DistinctIds
<1> QED BY <1>3, <1>11, <1>14

(* A paragraph is replaced by one of the same id.                          *)
LEMMA SameIds ==
  ASSUME NEW d, DistinctIds(d), d # <<>>, NEW z, DOMAIN z = DOMAIN d, NEW j \in DOMAIN d,
         \A i \in DOMAIN d : z[i].id = d[i].id
  PROVE  DistinctIds(z) /\ z # <<>>
<1>1. DistinctIds(z)
  BY DEF DistinctIds
<1> QED BY <1>1

LEMMA PlainReplacePage ==
  ASSUME NEW d, Page(d), NEW j \in DOMAIN d, NEW s \in Nat, NEW e \in Nat,
         ~Refused(d[j], s, e), NEW new \in Seq(Tokens)
  PROVE  Page(PlainReplace(d, j, s, e, new))
<1>1. d \in Documents(All) /\ d # <<>> /\ DistinctIds(d)
  BY DEF Page
<1>2. PlainReplace(d, j, s, e, new) \in Documents(All)
  BY <1>1, PlainReplaceAddsNone
<1>3. PICK z : z = PlainReplace(d, j, s, e, new)
  OBVIOUS
<1>4. (z = RemoveAt(d, j) /\ Len(d) > 1) \/ \E body : z = [d EXCEPT ![j].body = body]
  BY <1>3 DEF PlainReplace
<1>5. CASE z = RemoveAt(d, j) /\ Len(d) > 1
  <2>1. RemoveAt(d, j) # <<>> /\ DistinctIds(RemoveAt(d, j))
    BY <1>1, <1>5, RemovedIds
  <2> QED BY <1>2, <1>3, <1>5, <2>1 DEF Page
<1>6. CASE \E body : z = [d EXCEPT ![j].body = body]
  <2>1. PICK body : z = [d EXCEPT ![j].body = body]
    BY <1>6
  <2>2. [d[j] EXCEPT !.body = body].id = d[j].id
    <3>1. d[j] \in ParagraphsIn(All)
      BY <1>1, ParagraphOf
    <3> QED BY <3>1 DEF ParagraphsIn
  <2>3. DOMAIN z = DOMAIN d /\ \A i \in DOMAIN d : z[i] = IF i = j THEN [d[j] EXCEPT !.body = body] ELSE d[i]
    BY <2>1
  <2>4. \A i \in DOMAIN d : z[i].id = d[i].id
    BY <2>2, <2>3
  <2>5. DOMAIN z = DOMAIN d
    BY <2>3
  <2>6. DistinctIds(z) /\ z # <<>>
    BY <1>1, <2>4, <2>5, SameIds
  <2> QED BY <1>2, <1>3, <2>6 DEF Page
<1> QED BY <1>4, <1>5, <1>6

(* The documents of a replacement.                                         *)
LEMMA ReplaceShape ==
  ASSUME Shape, NEW j \in DOMAIN doc, NEW s \in 0..Len(TextOf(doc[j])),
         NEW e \in s..Len(TextOf(doc[j])), NEW new \in News \cup {<<>>}, Replace(j, s, e, new)
  PROVE  Shape'
<1>1. /\ doc \in Documents(All) /\ doc # <<>> /\ DistinctIds(doc)
      /\ OneEach(doc) /\ next \in Nat /\ Before(doc, next)
  BY DEF Shape, Page
<1>2. s \in Nat /\ e \in Nat /\ new \in Seq(Tokens)
  BY <1>1, RangeOfText
<1>3. ~Refused(doc[j], s, e)
  BY DEF Replace
<1>4. PICK r : r = TrackedReplace(doc[j], s, e, new, AI, next)
  OBVIOUS
<1>5. doc' = [doc EXCEPT ![j] = r.p] /\ next' = r.next
  BY <1>4 DEF Replace
<1>6. doc \in Documents(Own(doc)) /\ doc[j] \in ParagraphsIn(Own(doc))
  <2>1. doc \in Documents(Own(doc))
    BY <1>1, OwnHolds
  <2> QED BY <2>1, ParagraphOf
<1>7. PICK K \in [Nat -> {"ins", "del"}] : ReplaceAdds(r, Own(doc), K, doc[j], AI, next)
  BY <1>1, <1>2, <1>3, <1>4, <1>6, TrackedReplaceGives
<1>8. /\ r.next \in Nat /\ next <= r.next /\ r.p.id = doc[j].id
      /\ r.p \in ParagraphsIn(Own(doc) \cup GivenAs(K, AI, next, r.next))
  BY <1>7 DEF ReplaceAdds
<1>9. PICK F : F = Own(doc) \cup GivenAs(K, AI, next, r.next)
  OBVIOUS
<1>10. doc' \in Documents(F)
  <2>1. Own(doc) \subseteq F
    BY <1>9
  <2>2. doc \in Documents(F)
    BY <1>6, <2>1, DocumentsGrow
  <2>3. r.p \in ParagraphsIn(F)
    BY <1>8, <1>9
  <2> QED BY <1>5, <2>2, <2>3, ParagraphReplaced
<1>11. doc' \in Documents(All) /\ OneEach(doc') /\ Before(doc', next')
  <2>1. doc' \in Documents(Own(doc) \cup GivenAs(K, AI, next, r.next))
    BY <1>9, <1>10
  <2>2. doc' \in Documents(All) /\ OneEach(doc') /\ Before(doc', r.next)
    BY <1>1, <1>8, <2>1, NewRevisions
  <2> QED BY <1>5, <2>2
<1>12. DistinctIds(doc') /\ doc' # <<>>
  <2>1. DOMAIN doc' = DOMAIN doc
    BY <1>5
  <2>2. \A i \in DOMAIN doc : doc'[i].id = doc[i].id
    BY <1>5, <1>8
  <2> QED BY <1>1, <2>1, <2>2, SameIds
<1>13. Page(clean')
  <2>1. CASE clean' = clean
    BY <2>1 DEF Shape
  <2>2. CASE /\ HasParagraph(clean, doc[j].id)
             /\ ~Refused(clean[IndexOf(clean, doc[j].id)], s, e)
             /\ clean' = PlainReplace(clean, IndexOf(clean, doc[j].id), s, e, new)
    <3>1. IndexOf(clean, doc[j].id) \in DOMAIN clean
      BY <2>2 DEF HasParagraph, IndexOf
    <3>2. Page(clean)
      BY DEF Shape
    <3> QED BY <1>2, <2>2, <3>1, <3>2, PlainReplacePage
  <2> QED BY <2>1, <2>2 DEF Replace, CleanReplaced
<1>14. same' \in BOOLEAN
  BY DEF Shape, Replace, CleanReplaced
<1>15. apart' \in BOOLEAN
  BY DEF Replace
<1>16. edits' \in 0..MaxEdits
  <2>1. edits \in 0..MaxEdits /\ edits < MaxEdits /\ edits' = edits + 1
    BY DEF Shape, Replace
  <2> QED BY <2>1, MaxEditsAssumption
<1>17. Page(doc') /\ Page(base')
  <2>1. base' = base /\ Page(base)
    BY DEF Shape, Replace
  <2> QED BY <1>11, <1>12, <2>1 DEF Page
<1> QED BY <1>5, <1>8, <1>11, <1>13, <1>14, <1>15, <1>16, <1>17 DEF Shape

(* Those of an insertion.                                                  *)
LEMMA InsertShape ==
  ASSUME Shape, NEW j \in DOMAIN doc, NEW pos, NEW new \in News, Insert(j, pos, new)
  PROVE  Shape'
<1>1. /\ doc \in Documents(All) /\ doc # <<>> /\ DistinctIds(doc)
      /\ OneEach(doc) /\ next \in Nat /\ Before(doc, next)
      /\ clean \in Documents(All) /\ clean # <<>> /\ DistinctIds(clean)
  BY DEF Shape, Page
<1>2. new \in Seq(Tokens)
  BY NewsAssumption
<1>3. /\ NewPid \in Nat
      /\ \A i \in DOMAIN doc : doc[i].id # NewPid
      /\ \A i \in DOMAIN clean : clean[i].id # NewPid
  BY NewPidIsNew DEF Shape
<1>4. PICK pid : pid = NewPid
  OBVIOUS
<1>5. doc' = TrackedInsert(doc, j, pos, pid, new, AI, next) /\ next' = next + 2
  BY <1>4 DEF Insert
<1>6. doc \in Documents(Own(doc))
  BY <1>1, OwnHolds
<1>7. /\ TrackedInsert(doc, j, pos, pid, new, AI, next)
           \in Documents(Own(doc) \cup GivenAs(AllInserted, AI, next, next + 2))
      /\ \E p : p.id = pid /\ TrackedInsert(doc, j, pos, pid, new, AI, next) = InsertedAt(doc, j, pos, p)
  BY <1>1, <1>2, <1>3, <1>4, <1>6, TrackedInsertGives
<1>8. doc' \in Documents(All) /\ OneEach(doc') /\ Before(doc', next')
  <2>1. next + 2 \in Nat /\ next <= next + 2 /\ AllInserted \in [Nat -> {"ins", "del"}]
    BY <1>1 DEF AllInserted
  <2>2. doc' \in Documents(Own(doc) \cup GivenAs(AllInserted, AI, next, next + 2))
    BY <1>5, <1>7
  <2>3. doc' \in Documents(All) /\ OneEach(doc') /\ Before(doc', next + 2)
    BY <1>1, <2>1, <2>2, NewRevisions
  <2> QED BY <1>5, <2>3
<1>9. ASSUME NEW d \in Documents(All), d # <<>>, DistinctIds(d), NEW k \in DOMAIN d, NEW p,
             p.id = pid, \A i \in DOMAIN d : d[i].id # pid
      PROVE  DistinctIds(InsertedAt(d, k, pos, p)) /\ InsertedAt(d, k, pos, p) # <<>>
  BY <1>9, InsertedIds
<1>10. DistinctIds(doc') /\ doc' # <<>>
  <2>1. PICK p : p.id = pid /\ doc' = InsertedAt(doc, j, pos, p)
    BY <1>5, <1>7
  <2> QED BY <1>1, <1>3, <1>4, <1>9, <2>1
<1>11. Page(doc')
  BY <1>8, <1>10 DEF Page
<1>12. Page(clean')
  <2>1. CASE clean' = clean
    BY <2>1 DEF Shape
  <2>2. CASE /\ HasParagraph(clean, doc[j].id)
             /\ clean' = PlainInsert(clean, IndexOf(clean, doc[j].id), pos, pid, new)
    <3>1. PICK k \in DOMAIN clean : k = IndexOf(clean, doc[j].id)
      BY <2>2 DEF HasParagraph, IndexOf
    <3>2. PICK p : p = [id |-> pid, mark |-> {}, body |-> Items(new, <<>>)]
      OBVIOUS
    <3>3. clean' = InsertedAt(clean, k, pos, p) /\ p.id = pid
      BY <2>2, <3>1, <3>2 DEF PlainInsert
    <3>4. clean' \in Documents(All)
      <4>1. PlainInsert(clean, k, pos, pid, new) \in Documents(All)
        BY <1>1, <1>2, <1>3, <1>4, PlainInsertAddsNone
      <4> QED BY <2>2, <3>1, <4>1
    <3>5. DistinctIds(clean') /\ clean' # <<>>
      BY <1>1, <1>3, <1>4, <1>9, <3>3
    <3> QED BY <3>4, <3>5 DEF Page
  <2> QED BY <1>4, <2>1, <2>2 DEF Insert, CleanInserted
<1>13. same' \in BOOLEAN
  BY DEF Shape, Insert, CleanInserted
<1>14. apart' \in BOOLEAN
  BY DEF Shape, Insert
<1>15. edits' \in 0..MaxEdits
  <2>1. edits \in 0..MaxEdits /\ edits < MaxEdits /\ edits' = edits + 1
    BY DEF Shape, Insert
  <2> QED BY <2>1, MaxEditsAssumption
<1>16. Page(base')
  BY DEF Shape, Insert
<1>17. next' \in Nat
  BY <1>1, <1>5
<1> QED BY <1>8, <1>11, <1>12, <1>13, <1>14, <1>15, <1>16, <1>17 DEF Shape

(* Resolving leaves a document, with none of the selected revisions.       *)
LEMMA ResolvedPage ==
  ASSUME NEW d, Page(d), NEW drop, NEW keep, Kinds(drop, keep), NEW sel
  PROVE  /\ Page(Resolve(d, drop, keep, sel))
         /\ \A r \in Revisions(Resolve(d, drop, keep, sel)) : r \in Revisions(d) /\ r.id \notin sel
<1>1. d \in Documents(All) /\ d # <<>> /\ DistinctIds(d)
  BY DEF Page
<1>2. \A e \in All : e.kind \in {"ins", "del", "link"}
  BY KindsAre
<1>3. PICK F : F = LeftOf(All, sel)
  OBVIOUS
<1>4. Documents(F) \subseteq Documents(All)
  <2>1. F \subseteq All
    BY <1>3 DEF LeftOf
  <2> QED BY <2>1, DocumentsGrow
<1>5. PICK z : z = Resolve(d, drop, keep, sel)
  OBVIOUS
<1>6. z \in Documents(F) /\ z # <<>> /\ DistinctIds(z)
  BY <1>1, <1>2, <1>3, <1>5, ResolveLeaves
<1>7. Page(z)
  BY <1>4, <1>6 DEF Page
<1>8. \A r \in Revisions(z) : r \in Revisions(d) /\ r.id \notin sel
  <2>1. \A r \in Revisions(Resolve(d, drop, keep, sel)) : r \in Revisions(d) /\ r.id \notin sel
    BY <1>1, <1>2, RevisionsLeft
  <2> QED BY <1>5, <2>1
<1> QED BY <1>5, <1>7, <1>8

LEMMA ResolvedShape ==
  ASSUME Shape, NEW drop, NEW keep, Kinds(drop, keep), NEW sel, doc' = Resolve(doc, drop, keep, sel)
  PROVE  Page(doc') /\ OneEach(doc') /\ Before(doc', next)
<1>1. Page(doc) /\ OneEach(doc) /\ Before(doc, next)
  BY DEF Shape
<1>2. /\ Page(Resolve(doc, drop, keep, sel))
      /\ \A r \in Revisions(Resolve(doc, drop, keep, sel)) : r \in Revisions(doc) /\ r.id \notin sel
  BY <1>1, ResolvedPage
<1>3. Page(doc') /\ \A r \in Revisions(doc') : r \in Revisions(doc)
  BY <1>2
<1> QED BY <1>1, <1>3 DEF OneEach, Before

LEMMA KindPairs == Kinds("ins", "del") /\ Kinds("del", "ins")
BY DEF Kinds

(* Every step keeps the types.                                             *)
LEMMA StepShape == Shape /\ [Next]_vars => Shape'
<1> SUFFICES ASSUME Shape, [Next]_vars PROVE Shape'
  OBVIOUS
<1>1. ASSUME NEW j \in DOMAIN doc, NEW s \in 0..Len(TextOf(doc[j])),
             NEW e \in s..Len(TextOf(doc[j])), NEW new \in News \cup {<<>>}, Replace(j, s, e, new)
      PROVE  Shape'
  BY <1>1, ReplaceShape
<1>2. ASSUME NEW j \in DOMAIN doc, NEW pos \in {"BEFORE", "AFTER"}, NEW new \in News,
             Insert(j, pos, new)
      PROVE  Shape'
  BY <1>2, InsertShape
<1>3. Page(clean) /\ same \in BOOLEAN /\ apart \in BOOLEAN /\ edits \in 0..MaxEdits /\ next \in Nat
  BY DEF Shape
<1>4. CASE AcceptAIEdits
  <2>1. doc' = Resolve(doc, "del", "ins", Mine(doc))
    BY <1>4 DEF AcceptAIEdits, Accept
  <2>2. Page(doc') /\ OneEach(doc') /\ Before(doc', next)
    BY <2>1, KindPairs, ResolvedShape
  <2>3. base' = doc' /\ UNCHANGED <<next, clean, same, apart, edits>>
    BY <1>4 DEF AcceptAIEdits
  <2> QED BY <1>3, <2>2, <2>3 DEF Shape
<1>5. CASE RejectAIEdits
  <2>1. doc' = Resolve(doc, "ins", "del", Mine(doc))
    BY <1>5 DEF RejectAIEdits, Reject
  <2>2. Page(doc') /\ OneEach(doc') /\ Before(doc', next)
    BY <2>1, KindPairs, ResolvedShape
  <2>3. base' = doc' /\ clean' = doc' /\ UNCHANGED <<next, edits>>
    BY <1>5 DEF RejectAIEdits
  <2>4. same' \in BOOLEAN /\ apart' \in BOOLEAN
    BY <1>5 DEF RejectAIEdits
  <2> QED BY <1>3, <2>2, <2>3, <2>4 DEF Shape
<1>6. CASE AcceptChanges
  <2>1. doc' = Resolve(doc, "del", "ins", Ids(Revisions(doc)))
    BY <1>6 DEF AcceptChanges, AcceptAll, Accept
  <2>2. Page(doc') /\ OneEach(doc') /\ Before(doc', next)
    BY <2>1, KindPairs, ResolvedShape
  <2>3. clean' = Resolve(clean, "del", "ins", Ids(Revisions(clean)))
    BY <1>6 DEF AcceptChanges, AcceptAll, Accept
  <2>4. Page(Resolve(clean, "del", "ins", Ids(Revisions(clean))))
    BY <1>3, KindPairs, ResolvedPage
  <2>5. base' = doc' /\ UNCHANGED <<next, same, apart, edits>>
    BY <1>6 DEF AcceptChanges
  <2> QED BY <1>3, <2>2, <2>3, <2>4, <2>5 DEF Shape
<1>7. CASE UNCHANGED vars
  BY <1>7 DEF vars, Shape, Page, OneEach, Before
<1> QED BY <1>1, <1>2, <1>4, <1>5, <1>6, <1>7 DEF Next

LEMMA ShapeIsKept == Spec => []Shape
BY InitShape, StepShape, PTL DEF Spec

LEMMA ShapeTypes == Shape => TypeOK
<1> SUFFICES ASSUME Shape PROVE TypeOK
  OBVIOUS
<1>1. \A r \in Elements(doc) : r.kind # "link" => r \in Revisions(doc)
  BY RevisionsAre DEF Elements
<1>2. \A r, q \in Elements(doc) : r.id = q.id /\ r.kind # "link" /\ q.kind # "link" => r = q
  BY <1>1 DEF Shape, OneEach
<1>3. \A j, k \in DOMAIN doc : doc[j].id = doc[k].id => j = k
  BY DEF Shape, Page, DistinctIds
<1>4. \A r \in Revisions(doc) : r.id < next
  BY DEF Shape, Before
<1>5. doc # <<>> /\ clean # <<>>
  BY DEF Shape, Page
<1>6. {same, apart} \subseteq BOOLEAN
  BY DEF Shape
<1>7. edits \in 0..MaxEdits
  BY DEF Shape
<1> QED BY <1>2, <1>3, <1>4, <1>5, <1>6, <1>7 DEF TypeOK

(* In every behaviour each paragraph is in the document once, a revision   *)
(* id names one revision, the next one is free, and the document and its   *)
(* twin keep a paragraph (allocateRevisionId, insertParagraph and the      *)
(* merges of accept_changes.ts and reject_changes.ts).                     *)
THEOREM Types == Spec => []TypeOK
BY ShapeIsKept, ShapeTypes, PTL

(***************************************************************************)
(* Rejecting the editor's revisions                                        *)
(***************************************************************************)

(* The document lies over the one the edits started from (Over, in         *)
(* RedlinesProofs), which holds no revision of the editor.                 *)
WithoutAI(d) == \A r \in Revisions(d) : r.by # AI

Edited == Shape /\ Over(doc, base, AI) /\ WithoutAI(base)

LEMMA MineIs == \A r \in Revisions(doc) : r.by = AI => r.id \in Mine(doc)
BY DEF Mine, ByAuthor, Ids

LEMMA MineOnly ==
  ASSUME OneEach(doc), NEW r \in Revisions(doc), r.id \in Mine(doc)
  PROVE  r.by = AI
<1>1. PICK q \in Revisions(doc) : q.by = AI /\ q.id = r.id
  BY DEF Mine, ByAuthor, Ids
<1> QED BY <1>1 DEF OneEach

(* What the call selects: the editor's revisions and none of the base.     *)
LEMMA MineSelects ==
  ASSUME Edited
  PROVE  Selects(Revisions(doc), AI, Mine(doc)) /\ Spares(Revisions(base), Mine(doc))
<1>1. doc \in Documents(All) /\ base \in Documents(All) /\ OneEach(doc) /\ Over(doc, base, AI)
  BY DEF Edited, Shape, Page
<1>2. Revisions(base) \subseteq Revisions(doc)
  BY <1>1, OverHolds
<1>3. Selects(Revisions(doc), AI, Mine(doc))
  BY MineIs DEF Selects
<1>4. Spares(Revisions(base), Mine(doc))
  BY <1>1, <1>2, MineOnly DEF Spares, Edited, WithoutAI
<1> QED BY <1>3, <1>4

LEMMA RejectedMine ==
  ASSUME Edited
  PROVE  /\ Reject(doc, Mine(doc)) = base
         /\ MergesTo(EachResolved(doc, "ins", "del", Mine(doc)), JoinIds(doc, "ins", Mine(doc)),
                     Len(doc), base)
<1>1. doc \in Documents(All) /\ DistinctIds(doc) /\ base \in Documents(All) /\ Over(doc, base, AI)
  BY DEF Edited, Shape, Page
<1>2. Selects(Revisions(doc), AI, Mine(doc)) /\ Spares(Revisions(base), Mine(doc))
  BY MineSelects
<1> QED BY <1>1, <1>2, RejectingRestores

LEMMA InitEdited == Init => Edited
<1> SUFFICES ASSUME Init PROVE Edited
  OBVIOUS
<1>1. Shape
  BY InitShape
<1>2. base = doc /\ doc \in Docs
  BY DEF Init
<1>3. doc \in Documents(All)
  BY <1>1 DEF Shape, Page
<1>4. Over(doc, doc, AI)
  BY <1>3, OverItself
<1>5. WithoutAI(base)
  BY <1>2, EditorAssumption DEF WithoutAI
<1> QED BY <1>1, <1>2, <1>4, <1>5 DEF Edited

(* A call that resolves the editor's revisions starts from its result.     *)
LEMMA RestartEdited ==
  ASSUME Shape', base' = doc', WithoutAI(doc')
  PROVE  Edited'
<1>1. doc' \in Documents(All)
  BY DEF Shape, Page
<1>2. Over(doc', doc', AI)
  BY <1>1, OverItself
<1>3. Over(doc', base', AI) /\ WithoutAI(base')
  BY <1>2
<1> QED BY <1>3 DEF Edited, WithoutAI

LEMMA StepEdited == Edited /\ [Next]_vars => Edited'
<1> SUFFICES ASSUME Edited, [Next]_vars PROVE Edited'
  OBVIOUS
<1>1. Shape'
  BY StepShape DEF Edited
<1>2. /\ Page(doc) /\ doc \in Documents(All) /\ base \in Documents(All) /\ Over(doc, base, AI)
      /\ next \in Nat /\ WithoutAI(base)
  BY DEF Edited, Shape, Page
<1>3. ASSUME NEW j \in DOMAIN doc, NEW s \in 0..Len(TextOf(doc[j])),
             NEW e \in s..Len(TextOf(doc[j])), NEW new \in News \cup {<<>>}, Replace(j, s, e, new)
      PROVE  Edited'
  <2>1. s \in Nat /\ e \in Nat /\ new \in Seq(Tokens)
    BY <1>2, <1>3, RangeOfText
  <2>2. ~Refused(doc[j], s, e)
    BY <1>3 DEF Replace
  <2>3. Over([doc EXCEPT ![j] = TrackedReplace(doc[j], s, e, new, AI, next).p], base, AI)
    BY <1>2, <2>1, <2>2, ReplacedOver
  <2>4. doc' = [doc EXCEPT ![j] = TrackedReplace(doc[j], s, e, new, AI, next).p] /\ base' = base
    BY <1>3 DEF Replace
  <2>5. Over(doc', base', AI)
    BY <2>3, <2>4
  <2> QED BY <1>1, <1>2, <2>4, <2>5 DEF Edited, WithoutAI
<1>4. ASSUME NEW j \in DOMAIN doc, NEW pos \in {"BEFORE", "AFTER"}, NEW new \in News,
             Insert(j, pos, new)
      PROVE  Edited'
  <2>1. new \in Seq(Tokens) /\ NewPid \in Nat
    BY NewsAssumption, NewPidIsNew DEF Edited, Shape
  <2>2. Over(TrackedInsert(doc, j, pos, NewPid, new, AI, next), base, AI)
    BY <1>2, <2>1, InsertedOver
  <2>3. doc' = TrackedInsert(doc, j, pos, NewPid, new, AI, next) /\ base' = base
    BY <1>4 DEF Insert
  <2>4. Over(doc', base', AI)
    BY <2>2, <2>3
  <2> QED BY <1>1, <1>2, <2>3, <2>4 DEF Edited, WithoutAI
<1>5. ASSUME NEW drop, NEW keep, Kinds(drop, keep), NEW sel, \A r \in Revisions(doc) : r.by = AI => r.id \in sel,
             doc' = Resolve(doc, drop, keep, sel)
      PROVE  WithoutAI(doc')
  <2>1. \A r \in Revisions(Resolve(doc, drop, keep, sel)) : r \in Revisions(doc) /\ r.id \notin sel
    BY <1>2, <1>5, ResolvedPage
  <2> QED BY <1>5, <2>1 DEF WithoutAI
<1>6. CASE AcceptAIEdits
  <2>1. doc' = Resolve(doc, "del", "ins", Mine(doc)) /\ base' = doc'
    BY <1>6 DEF AcceptAIEdits, Accept
  <2> QED BY <1>1, <1>5, <2>1, MineIs, KindPairs, RestartEdited
<1>7. CASE RejectAIEdits
  <2>1. doc' = Resolve(doc, "ins", "del", Mine(doc)) /\ base' = doc'
    BY <1>7 DEF RejectAIEdits, Reject
  <2> QED BY <1>1, <1>5, <2>1, MineIs, KindPairs, RestartEdited
<1>8. CASE AcceptChanges
  <2>1. doc' = Resolve(doc, "del", "ins", Ids(Revisions(doc))) /\ base' = doc'
    BY <1>8 DEF AcceptChanges, AcceptAll, Accept
  <2>2. \A r \in Revisions(doc) : r.by = AI => r.id \in Ids(Revisions(doc))
    BY DEF Ids
  <2> QED BY <1>1, <1>5, <2>1, <2>2, KindPairs, RestartEdited
<1>9. CASE UNCHANGED vars
  BY <1>1, <1>2, <1>9 DEF vars, Edited, WithoutAI
<1> QED BY <1>3, <1>4, <1>6, <1>7, <1>8, <1>9 DEF Next

LEMMA EditedIsKept == Spec => []Edited
BY InitEdited, StepEdited, PTL DEF Spec

(* In every behaviour rejecting the editor's revisions gives back the      *)
(* document the edits started from, item for item (rejectChanges with the  *)
(* author's ids undoes replaceParagraphTextRange and insertParagraph).     *)
THEOREM Restores == Spec => []RejectRestores
<1>1. Edited => RejectRestores
  BY RejectedMine DEF RejectRestores
<1> QED BY <1>1, EditedIsKept, PTL

(***************************************************************************)
(* Rejecting everything                                                    *)
(***************************************************************************)

LEMMA LastParagraph ==
  ASSUME NEW d, Page(d)
  PROVE  Len(d) \in DOMAIN d /\ Last(d) = d[Len(d)]
BY LenProperties, EmptySeq DEF Page, Documents, Last

(* How the joins of one and of two resolutions end.                        *)
Ending(end, joined) ==
  /\ end.done \in Documents(All)
  /\ joined => \E q : end.last = <<q>> /\ q.body = end.carry
  /\ ~joined => end.last = <<>> /\ end.carry = <<>>

LEMMA EndingOf ==
  ASSUME NEW d, Page(d), NEW drop, NEW keep, NEW sel
  PROVE  Ending(EndOf(d, drop, keep, sel), JoiningIn(Last(d), drop, sel))
<1>1. d \in Documents(All) /\ d # <<>> /\ DistinctIds(d) /\ Len(d) \in DOMAIN d /\ Last(d) = d[Len(d)]
  BY LastParagraph DEF Page
<1>2. PICK z, joins : z = EachResolved(d, drop, keep, sel) /\ joins = JoinIds(d, drop, sel)
  OBVIOUS
<1>3. /\ z \in Documents(All) /\ z # <<>> /\ Len(z) = Len(d)
      /\ \A j \in DOMAIN d : z[j].id = d[j].id
  BY <1>1, <1>2, EachResolvedIs
<1>4. z[Len(z)].id \in joins <=> JoiningIn(Last(d), drop, sel)
  <2>1. d[Len(d)].id \in JoinIds(d, drop, sel) <=> JoiningIn(d[Len(d)], drop, sel)
    BY <1>1, JoinIdsAre
  <2> QED BY <1>1, <1>2, <1>3, <2>1
<1>5. PICK end : end = End(z, joins) /\ end = EndOf(d, drop, keep, sel)
  BY <1>2 DEF EndOf
<1>6. /\ end \in Stages(All)
      /\ z[Len(z)].id \in joins => \E q \in ParagraphsIn(All) : end.last = <<q>> /\ q.body = end.carry
      /\ z[Len(z)].id \notin joins => end.last = <<>> /\ end.carry = <<>>
  <2>1. /\ End(z, joins) \in Stages(All)
        /\ z[Len(z)].id \in joins =>
             \E q \in ParagraphsIn(All) : End(z, joins).last = <<q>> /\ q.body = End(z, joins).carry
        /\ z[Len(z)].id \notin joins => End(z, joins).last = <<>> /\ End(z, joins).carry = <<>>
    BY <1>3, EndIs
  <2> QED BY <1>5, <2>1
<1>7. Ending(end, JoiningIn(Last(d), drop, sel))
  BY <1>4, <1>6 DEF Ending, Stages
<1> QED BY <1>5, <1>7

(* Two joins that end alike leave the same texts.                          *)
LEMMA SameTexts ==
  ASSUME NEW w, NEW v, NEW a, NEW b, EndsAlike(w, v), Ending(w, a), Ending(v, b),
         OutOf(v) # <<>>, ~a => w.last = v.last
  PROVE  Contents(OutOf(w)) = Contents(OutOf(v)) /\ (~b => OutOf(w) = OutOf(v))
<1>1. w.done = v.done /\ w.carry = v.carry /\ v.done \in Documents(All)
  BY DEF EndsAlike, Ending
<1>2. CASE ~a
  BY <1>1, <1>2 DEF OutOf
<1>3. CASE ~b
  <2>1. v.last = <<>> /\ v.carry = <<>>
    BY <1>3 DEF Ending
  <2>2. OutOf(v) = v.done
    BY <2>1 DEF OutOf
  <2>3. ~HasContent(w.carry) /\ w.done # <<>>
    BY <1>1, <2>1, <2>2 DEF HasContent
  <2> QED BY <1>1, <2>2, <2>3 DEF OutOf
<1>4. CASE a /\ b
  <2>1. PICK q : w.last = <<q>> /\ q.body = w.carry
    BY <1>4 DEF Ending
  <2>2. PICK r : v.last = <<r>> /\ r.body = v.carry
    BY <1>4 DEF Ending
  <2>3. PICK d : d = v.done /\ d = w.done /\ d \in Documents(All)
    BY <1>1
  <2>4. PICK P : d \in Seq(P \cup {q, r})
    <3>1. PICK P : d \in Seq(P)
      BY <2>3 DEF Documents
    <3>2. Seq(P) \subseteq Seq(P \cup {q, r})
      BY SeqMonotonic
    <3> QED BY <3>1, <3>2
  <2>5. ASSUME NEW x \in {q, r}
        PROVE  /\ DOMAIN (d \o <<x>>) = 1..(Len(d) + 1)
               /\ \A k \in 1..(Len(d) + 1) : (d \o <<x>>)[k] = IF k = Len(d) + 1 THEN x ELSE d[k]
    <3>1. <<x>> \in Seq(P \cup {q, r}) /\ Len(<<x>>) = 1 /\ <<x>>[1] = x
      OBVIOUS
    <3>2. Len(d) \in Nat
      BY <2>4
    <3> QED BY <2>4, <3>1, <3>2, ConcatProperties
  <2>6. Contents(d \o <<q>>) = Contents(d \o <<r>>)
    <3>1. \A k \in 1..(Len(d) + 1) : (d \o <<q>>)[k].body = (d \o <<r>>)[k].body
      BY <1>1, <2>1, <2>2, <2>5
    <3>2. DOMAIN (d \o <<q>>) = 1..(Len(d) + 1) /\ DOMAIN (d \o <<r>>) = 1..(Len(d) + 1)
      BY <2>5
    <3> QED BY <3>1, <3>2 DEF Contents
  <2>7. w.last # <<>> /\ v.last # <<>>
    BY <2>1, <2>2
  <2>8. CASE HasContent(v.carry) \/ d = <<>>
    <3>1. OutOf(w) = d \o <<q>> /\ OutOf(v) = d \o <<r>>
      BY <1>1, <2>1, <2>2, <2>3, <2>7, <2>8 DEF OutOf
    <3> QED BY <1>4, <2>6, <3>1
  <2>9. CASE ~(HasContent(v.carry) \/ d = <<>>)
    <3>1. OutOf(w) = d /\ OutOf(v) = d
      BY <1>1, <2>3, <2>9 DEF OutOf
    <3> QED BY <3>1
  <2> QED BY <2>8, <2>9
<1> QED BY <1>2, <1>3, <1>4

LEMMA RejectedTogether == Edited => RejectAllIgnoresAI
<1> SUFFICES ASSUME Edited PROVE RejectAllIgnoresAI
  OBVIOUS
<1>1. Page(doc) /\ Page(base) /\ Over(doc, base, AI)
  BY DEF Edited, Shape
<1>2. PICK S, all, T : S = Mine(doc) /\ all = Ids(Revisions(doc)) /\ T = all \ S
  OBVIOUS
<1>3. S \cap T = {} /\ S \cup T = all
  BY <1>2 DEF Mine, ByAuthor, Ids
<1>4. PICK w, v : /\ w = EndOfBoth(doc, "ins", "del", S, "ins", "del", T)
                  /\ v = EndOf(base, "ins", "del", T)
  OBVIOUS
<1>5. RejectAll(doc) = OutOf(w) /\ w = EndOf(doc, "ins", "del", all)
  <2>1. doc \in Documents(All)
    BY <1>1 DEF Page
  <2>2. EndOf(doc, "ins", "del", S \cup T) = w
    BY <1>3, <1>4, <2>1, EndsTogether
  <2> QED BY <1>2, <1>3, <2>2, ResolveOut DEF RejectAll, Reject
<1>6. RejectAll(base) = OutOf(v)
  <2>1. base \in Documents(All) /\ doc \in Documents(All)
    BY <1>1 DEF Page
  <2>2. Revisions(base) \subseteq Revisions(doc)
    BY <1>1, <2>1, OverHolds
  <2>3. Spares(Revisions(base), S)
    BY <1>2, MineSelects
  <2>4. AgreeOn(Revisions(base), Ids(Revisions(base)), T)
    <3>1. \A r \in Revisions(base) : r.id \in Ids(Revisions(base)) /\ r.id \in all
      BY <1>2, <2>2 DEF Ids
    <3> QED BY <1>2, <2>3, <3>1 DEF AgreeOn, Spares
  <2>5. EndOf(base, "ins", "del", Ids(Revisions(base))) = v
    BY <1>4, <2>1, <2>4, KindPairs, ResolutionsAgree
  <2> QED BY <2>5, ResolveOut DEF RejectAll, Reject
<1>7. EndsAlike(w, v) /\ (~JoiningIn(Last(doc), "ins", S) => w.last = v.last)
  <2>1. /\ doc \in Documents(All) /\ doc # <<>> /\ DistinctIds(doc) /\ base \in Documents(All)
        /\ Len(doc) \in DOMAIN doc /\ Last(doc) = doc[Len(doc)]
    BY <1>1, LastParagraph DEF Page
  <2>2. MergesTo(EachResolved(doc, "ins", "del", S), JoinIds(doc, "ins", S), Len(doc), base)
    BY <1>2, RejectedMine
  <2>3. Len(EachResolved(doc, "ins", "del", S)) = Len(doc)
    BY <2>1, EachResolvedIs
  <2>4. EndOf(doc, "ins", "del", S).done = base /\ EndOf(doc, "ins", "del", S).carry = <<>>
    BY <2>2, <2>3 DEF MergesTo, EndOf, End
  <2>5. /\ EndsAlike(EndOfBoth(doc, "ins", "del", S, "ins", "del", T), EndOf(base, "ins", "del", T))
        /\ doc[Len(doc)].id \notin JoinIds(doc, "ins", S) =>
             EndOfBoth(doc, "ins", "del", S, "ins", "del", T).last = EndOf(base, "ins", "del", T).last
    BY <1>3, <2>1, <2>4, EndsTwice
  <2>6. doc[Len(doc)].id \in JoinIds(doc, "ins", S) <=> JoiningIn(doc[Len(doc)], "ins", S)
    BY <2>1, JoinIdsAre
  <2> QED BY <1>4, <2>1, <2>5, <2>6
<1>8. Ending(w, JoiningIn(Last(doc), "ins", all))
  BY <1>1, <1>5, EndingOf
<1>9. Ending(v, JoiningIn(Last(base), "ins", T))
  BY <1>1, <1>4, EndingOf
<1>10. OutOf(v) # <<>>
  <2>1. Page(Resolve(base, "ins", "del", T))
    BY <1>1, KindPairs, ResolvedPage
  <2> QED BY <1>4, <2>1, ResolveOut DEF Page
<1>11. PICK a, b : a = JoiningIn(Last(doc), "ins", all) /\ b = JoiningIn(Last(base), "ins", T)
  OBVIOUS
<1>12. ~a => w.last = v.last
  <2>1. JoiningIn(Last(doc), "ins", S) => a
    BY <1>3, <1>11 DEF JoiningIn
  <2> QED BY <1>7, <2>1
<1>13. Contents(OutOf(w)) = Contents(OutOf(v)) /\ (~b => OutOf(w) = OutOf(v))
  BY <1>7, <1>8, <1>9, <1>10, <1>11, <1>12, SameTexts
<1>14. (\A r \in Last(base).mark : r.kind # "ins") => ~b
  BY <1>11 DEF JoiningIn
<1> QED BY <1>5, <1>6, <1>13, <1>14 DEF RejectAllIgnoresAI

(* In every behaviour rejecting every revision gives what it gave before   *)
(* the edits, also where they lie inside the revisions of others           *)
(* (rejectChanges without a filter).                                       *)
THEOREM IgnoresAI == Spec => []RejectAllIgnoresAI
BY EditedIsKept, RejectedTogether, PTL

(***************************************************************************)
(* Resolving in any order                                                  *)
(***************************************************************************)

LEMMA InAnyOrder == Shape => ResolvedInAnyOrder
<1> SUFFICES ASSUME Shape, Last(doc).mark = {}, NEW S \in {Mine(doc)} \cup {{id} : id \in Mine(doc)},
                    NEW T, T = Ids(Revisions(doc)) \ S
             PROVE  /\ Accept(Accept(doc, S), T) = Accept(Accept(doc, T), S)
                    /\ Accept(Reject(doc, S), T) = Reject(Accept(doc, T), S)
                    /\ Reject(Accept(doc, S), T) = Accept(Reject(doc, T), S)
                    /\ Reject(Reject(doc, S), T) = Reject(Reject(doc, T), S)
  BY DEF ResolvedInAnyOrder
<1>1. Page(doc)
  BY DEF Shape
<1>2. /\ doc \in Documents(All) /\ doc # <<>> /\ DistinctIds(doc)
      /\ Len(doc) \in DOMAIN doc /\ Last(doc) = doc[Len(doc)]
  BY <1>1, LastParagraph DEF Page
<1>3. ASSUME NEW drop, NEW sel PROVE doc[Len(doc)].id \notin JoinIds(doc, drop, sel)
  <2>1. doc[Len(doc)].id \in JoinIds(doc, drop, sel) <=> JoiningIn(doc[Len(doc)], drop, sel)
    BY <1>2, JoinIdsAre
  <2> QED BY <1>2, <2>1 DEF JoiningIn
<1>4. S \cap T = {}
  OBVIOUS
<1>5. ASSUME NEW d1, NEW k1, NEW d2, NEW k2
      PROVE  Resolve(Resolve(doc, d1, k1, S), d2, k2, T) = Resolve(Resolve(doc, d2, k2, T), d1, k1, S)
  BY <1>2, <1>3, <1>4, ResolvedInEitherOrder
<1> QED BY <1>5 DEF Accept, Reject

(* In every behaviour the editor's revisions, one or all, and the rest are *)
(* resolved with the same result in either order (the selective forms of   *)
(* acceptChanges and rejectChanges), in documents without bookmarks.       *)
THEOREM OrderIsFree == Spec => []ResolvedInAnyOrder
BY ShapeIsKept, InAnyOrder, PTL

(***************************************************************************)
(* Accepting everything                                                    *)
(***************************************************************************)

(* S has the ids of the editor's revisions, now and later.                 *)
Chosen(S, d, n) ==
  /\ \A r \in Revisions(d) : r.id \in S <=> r.by = AI
  /\ \A id \in Nat : id >= n => id \in S

Pairing(d, n, c) == \E S, g : Chosen(S, d, n) /\ Twins(g, c, d, S)

Paired == Edited /\ (same /\ ~apart => Pairing(doc, next, clean))

Later(n) == {id \in Nat : id >= n}

LEMMA LaterChosen ==
  ASSUME NEW d, Page(d), NEW n \in Nat, Before(d, n), WithoutAI(d)
  PROVE  Chosen(Later(n), d, n) /\ \A r \in Revisions(d) : r.id \notin Later(n)
<1>1. \A r \in Revisions(d) : r.id \in Nat /\ r.id < n /\ r.by # AI
  <2>1. Revisions(d) \subseteq {e \in All : e.kind # "link"}
    BY RevisionsAreIn DEF Page
  <2> QED BY <2>1, KindsAre DEF Before, WithoutAI
<1>2. \A r \in Revisions(d) : r.id \notin Later(n)
  BY <1>1 DEF Later
<1> QED BY <1>1, <1>2 DEF Chosen, Later

(* A document that starts anew is its own twin.                            *)
LEMMA StartsPaired ==
  ASSUME NEW d, Page(d), NEW n \in Nat, Before(d, n), WithoutAI(d)
  PROVE  Pairing(d, n, d)
<1>1. Chosen(Later(n), d, n) /\ \A r \in Revisions(d) : r.id \notin Later(n)
  BY LaterChosen
<1>2. d \in Documents(All) /\ DistinctIds(d)
  BY DEF Page
<1>3. \E g : Twins(g, d, d, Later(n))
  BY <1>1, <1>2, TwinItself
<1> QED BY <1>1, <1>3 DEF Pairing

(* The twin of a paragraph of the document.                                *)
LEMMA TwinFound ==
  ASSUME NEW d, Page(d), NEW c, Page(c), NEW S, NEW g, Twins(g, c, d, S), NEW j \in DOMAIN d,
         HasParagraph(c, d[j].id)
  PROVE  IndexOf(c, d[j].id) \in 1..Len(c) /\ g[IndexOf(c, d[j].id)] = j
<1>1. PICK n \in Nat, m \in Nat : n = Len(d) /\ m = Len(c) /\ DOMAIN d = 1..n /\ DOMAIN c = 1..m
  BY LenProperties DEF Page, Documents
<1>2. PICK k : k = IndexOf(c, d[j].id)
  OBVIOUS
<1>3. k \in 1..m /\ c[k].id = d[j].id
  BY <1>1, <1>2 DEF HasParagraph, IndexOf
<1>4. g[k] = j
  BY <1>1, <1>3 DEF Twins
<1> QED BY <1>1, <1>2, <1>3, <1>4

(* A paragraph without markup of the file holds inserted text of the       *)
(* editor, and deletions of the editor.                                    *)
LEMMA PlainlyMine ==
  ASSUME NEW d \in Documents(All), NEW n, NEW S, Chosen(S, d, n), NEW j \in DOMAIN d, ~HoldsMarkup(d[j])
  PROVE  Plainly(d[j].body, S)
<1> SUFFICES ASSUME NEW i \in DOMAIN d[j].body
             PROVE  /\ d[j].body[i].tok # Open
                    /\ \A k \in DOMAIN d[j].body[i].in :
                         d[j].body[i].in[k].kind = "del" => d[j].body[i].in[k].id \in S
  BY DEF Plainly
<1>1. d[j].body[i].tok # Open /\ \A k \in DOMAIN d[j].body[i].in : d[j].body[i].in[k].by = AI
  BY DEF HoldsMarkup
<1>2. ASSUME NEW k \in DOMAIN d[j].body[i].in, d[j].body[i].in[k].kind = "del"
      PROVE  d[j].body[i].in[k].id \in S
  <2>1. d[j].body[i].in[k] \in Range(d[j].body[i].in)
    BY DEF Range
  <2>2. d[j].body[i].in[k] \in Revisions(d)
    BY <1>2, <2>1, RevisionsAre
  <2> QED BY <1>1, <2>2 DEF Chosen
<1> QED BY <1>1, <1>2

(* New revisions are the editor's.                                         *)
LEMMA StillChosen ==
  ASSUME NEW d \in Documents(All), NEW n \in Nat, NEW S, Chosen(S, d, n), NEW m \in Nat, n <= m,
         NEW z \in Documents(Own(d) \cup Given(AI, n, m))
  PROVE  Chosen(S, z, m)
<1>1. ASSUME NEW r \in Revisions(z) PROVE r.id \in S <=> r.by = AI
  <2>1. r \in Own(d) \cup Given(AI, n, m) /\ r.kind # "link"
    BY <1>1, RevisionsAreIn
  <2>2. CASE r \in Own(d)
    BY <2>1, <2>2 DEF Own, Chosen
  <2>3. CASE r \in Given(AI, n, m)
    <3>1. r.by = AI /\ r.id \in Nat /\ r.id >= n
      BY <2>3 DEF Given, Element
    <3> QED BY <3>1 DEF Chosen
  <2> QED BY <2>1, <2>2, <2>3
<1>2. \A id \in Nat : id >= m => id >= n
  OBVIOUS
<1> QED BY <1>1, <1>2 DEF Chosen

LEMMA ReplacePaired ==
  ASSUME Paired, NEW j \in DOMAIN doc, NEW s \in 0..Len(TextOf(doc[j])),
         NEW e \in s..Len(TextOf(doc[j])), NEW new \in News \cup {<<>>}, Replace(j, s, e, new),
         same', ~apart'
  PROVE  Pairing(doc', next', clean')
<1>1. /\ Page(doc) /\ doc \in Documents(All) /\ Page(clean) /\ clean \in Documents(All) /\ next \in Nat
  BY DEF Paired, Edited, Shape, Page
<1>2. s \in Nat /\ e \in Nat /\ s <= e /\ new \in Seq(Tokens)
  BY <1>1, RangeOfText
<1>3. same /\ ~apart
  BY DEF Replace, CleanReplaced
<1>4. PICK S, g : Chosen(S, doc, next) /\ Twins(g, clean, doc, S)
  BY <1>3 DEF Paired, Pairing
<1>5. PICK k : k = IndexOf(clean, doc[j].id)
  OBVIOUS
<1>6. HasParagraph(clean, doc[j].id) /\ clean' = PlainReplace(clean, k, s, e, new)
  BY <1>5 DEF Replace, CleanReplaced
<1>7. k \in 1..Len(clean) /\ g[k] = j
  BY <1>1, <1>4, <1>5, <1>6, TwinFound
<1>8. PICK r : r = TrackedReplace(doc[j], s, e, new, AI, next)
  OBVIOUS
<1>9. ~Refused(doc[j], s, e) /\ doc' = [doc EXCEPT ![j] = r.p] /\ next' = r.next
  BY <1>8 DEF Replace
<1>10. Blanks(doc[j], s, e, new) => ~HoldsMarkup(doc[j]) /\ Len(clean) # 1
  BY DEF Replace
<1>11. Blanks(doc[j], s, e, new) => Plainly(doc[j].body, S) /\ Len(clean) > 1
  <2>1. Len(clean) \in Nat /\ Len(clean) # 0
    BY <1>1, LenProperties, EmptySeq DEF Page, Documents
  <2>2. Len(clean) # 1 => Len(clean) > 1
    <3>1. PICK l \in Nat : l = Len(clean) /\ l # 0
      BY ONLY <2>1
    <3>2. l # 1 => l > 1
      BY ONLY l \in Nat, <3>1
    <3> QED BY ONLY <3>1, <3>2
  <2>3. ~HoldsMarkup(doc[j]) => Plainly(doc[j].body, S)
    BY <1>1, <1>4, PlainlyMine
  <2> QED BY <1>10, <2>2, <2>3
<1>12. \A id \in Nat : id >= next => id \in S
  BY <1>4 DEF Chosen
<1>13. \E h : Twins(h, PlainReplace(clean, k, s, e, new), [doc EXCEPT ![g[k]] = r.p], S)
  <2>1. ~Refused(doc[g[k]], s, e) /\ r = TrackedReplace(doc[g[k]], s, e, new, AI, next)
    BY <1>7, <1>8, <1>9
  <2>2. Blanks(doc[g[k]], s, e, new) => Plainly(doc[g[k]].body, S) /\ Len(clean) > 1
    BY <1>7, <1>11
  <2> QED BY ONLY <1>1, <1>2, <1>4, <1>7, <1>12, <2>1, <2>2, ReplacedTwins
<1>14. Chosen(S, doc', next')
  <2>1. doc \in Documents(Own(doc)) /\ doc[j] \in ParagraphsIn(Own(doc))
    <3>1. doc \in Documents(Own(doc))
      BY <1>1, OwnHolds
    <3> QED BY <3>1, ParagraphOf
  <2>2. r.next \in Nat /\ next <= r.next /\ r.p \in ParagraphsIn(Own(doc) \cup Given(AI, next, r.next))
    BY <1>1, <1>2, <1>8, <1>9, <2>1, TrackedReplaceAdds
  <2>3. doc \in Documents(Own(doc) \cup Given(AI, next, r.next))
    BY <2>1, DocumentsGrow
  <2>4. doc' \in Documents(Own(doc) \cup Given(AI, next, r.next))
    BY <1>9, <2>2, <2>3, ParagraphReplaced
  <2>5. Chosen(S, doc', r.next)
    BY <1>1, <1>4, <2>2, <2>4, StillChosen
  <2> QED BY <1>9, <2>5
<1>15. \E h : Twins(h, clean', doc', S)
  BY <1>6, <1>7, <1>9, <1>13
<1> QED BY <1>14, <1>15 DEF Pairing

LEMMA InsertPaired ==
  ASSUME Paired, NEW j \in DOMAIN doc, NEW pos \in {"BEFORE", "AFTER"}, NEW new \in News,
         Insert(j, pos, new), same', ~apart'
  PROVE  Pairing(doc', next', clean')
<1>1. /\ Page(doc) /\ doc \in Documents(All) /\ Page(clean) /\ clean \in Documents(All) /\ next \in Nat
      /\ Page(base)
  BY DEF Paired, Edited, Shape, Page
<1>2. new \in Seq(Tokens)
  BY NewsAssumption
<1>3. same /\ ~apart
  BY DEF Insert, CleanInserted
<1>4. PICK S, g : Chosen(S, doc, next) /\ Twins(g, clean, doc, S)
  BY <1>3 DEF Paired, Pairing
<1>5. PICK k, pid : k = IndexOf(clean, doc[j].id) /\ pid = NewPid
  OBVIOUS
<1>6. HasParagraph(clean, doc[j].id) /\ clean' = PlainInsert(clean, k, pos, pid, new)
  BY <1>5 DEF Insert, CleanInserted
<1>7. k \in 1..Len(clean) /\ g[k] = j
  BY <1>1, <1>4, <1>5, <1>6, TwinFound
<1>8. doc' = TrackedInsert(doc, j, pos, pid, new, AI, next) /\ next' = next + 2
  BY <1>5 DEF Insert
<1>9. pid \in Nat /\ (\A i \in 1..Len(doc) : doc[i].id # pid) /\ \A i \in 1..Len(clean) : clean[i].id # pid
  <2>1. DOMAIN doc = 1..Len(doc) /\ DOMAIN clean = 1..Len(clean)
    BY <1>1, LenProperties DEF Documents
  <2> QED BY <1>1, <1>5, <2>1, NewPidIsNew
<1>10. next \in S /\ next + 1 \in S
  BY <1>1, <1>4 DEF Chosen
<1>11. \E h : Twins(h, PlainInsert(clean, k, pos, pid, new),
                       TrackedInsert(doc, g[k], pos, pid, new, AI, next), S)
  BY ONLY <1>1, <1>2, <1>4, <1>7, <1>9, <1>10, pos \in {"BEFORE", "AFTER"}, InsertedTwins
<1>12. Chosen(S, doc', next')
  <2>1. doc \in Documents(Own(doc))
    BY <1>1, OwnHolds
  <2>2. doc' \in Documents(Own(doc) \cup Given(AI, next, next + 2))
    BY <1>1, <1>2, <1>8, <1>9, <2>1, TrackedInsertAdds
  <2>3. next + 2 \in Nat /\ next <= next + 2
    BY <1>1
  <2>4. Chosen(S, doc', next + 2)
    BY <1>1, <1>4, <2>2, <2>3, StillChosen
  <2> QED BY <1>8, <2>4
<1>13. \E h : Twins(h, clean', doc', S)
  BY <1>6, <1>7, <1>8, <1>11
<1> QED BY <1>12, <1>13 DEF Pairing

LEMMA StepPaired == Paired /\ [Next]_vars => Paired'
<1> SUFFICES ASSUME Paired, [Next]_vars PROVE Paired'
  OBVIOUS
<1>1. Edited /\ Edited'
  BY StepEdited DEF Paired
<1>2. /\ Page(doc) /\ doc \in Documents(All) /\ DistinctIds(doc)
      /\ Page(clean) /\ clean \in Documents(All) /\ DistinctIds(clean) /\ clean # <<>> /\ next \in Nat
  BY <1>1 DEF Edited, Shape, Page
<1>3. Page(doc') /\ next' \in Nat /\ Before(doc', next') /\ WithoutAI(base')
  BY <1>1 DEF Edited, Shape, WithoutAI
<1> SUFFICES ASSUME same', ~apart' PROVE Pairing(doc', next', clean')
  BY <1>1 DEF Paired, Pairing, Chosen
<1>4. ASSUME base' = doc'
      PROVE Chosen(Later(next'), doc', next') /\ \A r \in Revisions(doc') : r.id \notin Later(next')
  <2>1. WithoutAI(doc')
    BY <1>3, <1>4
  <2> QED BY <1>3, <2>1, LaterChosen
<1>5. ASSUME NEW j \in DOMAIN doc, NEW s \in 0..Len(TextOf(doc[j])),
             NEW e \in s..Len(TextOf(doc[j])), NEW new \in News \cup {<<>>}, Replace(j, s, e, new)
      PROVE  Pairing(doc', next', clean')
  BY <1>5, ReplacePaired
<1>6. ASSUME NEW j \in DOMAIN doc, NEW pos \in {"BEFORE", "AFTER"}, NEW new \in News,
             Insert(j, pos, new)
      PROVE  Pairing(doc', next', clean')
  BY <1>6, InsertPaired
<1>7. CASE AcceptAIEdits
  <2>1. doc' = Accept(doc, Mine(doc)) /\ base' = doc' /\ clean' = clean /\ same /\ ~apart
    BY <1>7 DEF AcceptAIEdits
  <2>2. PICK S, g : Chosen(S, doc, next) /\ Twins(g, clean, doc, S)
    BY <2>1 DEF Paired, Pairing
  <2>3. Accept(doc, S) = doc'
    <3>1. AgreeOn(Revisions(doc), S, Mine(doc))
      <4>1. \A r \in Revisions(doc) : r.id \in Mine(doc) <=> r.by = AI
        <5>1. OneEach(doc)
          BY <1>1 DEF Edited, Shape
        <5> QED BY <5>1, MineIs, MineOnly
      <4> QED BY <2>2, <4>1 DEF AgreeOn, Chosen
    <3>2. EndOf(doc, "del", "ins", S) = EndOf(doc, "del", "ins", Mine(doc))
      BY <1>2, <3>1, KindPairs, ResolutionsAgree
    <3> QED BY <2>1, <3>2, ResolveOut DEF Accept
  <2>4. \A r \in Revisions(Accept(doc, S)) : r.id \notin Later(next')
    BY <1>4, <2>1, <2>3
  <2>5. \E h : Twins(h, clean, Accept(doc, S), Later(next'))
    BY <1>2, <2>2, <2>4, TwinsAccepted
  <2> QED BY <1>4, <2>1, <2>3, <2>5 DEF Pairing
<1>8. CASE RejectAIEdits
  <2>1. base' = doc' /\ clean' = doc'
    BY <1>8 DEF RejectAIEdits
  <2>2. WithoutAI(doc')
    BY <1>3, <2>1
  <2>3. Pairing(doc', next', doc')
    BY <1>3, <2>2, StartsPaired
  <2> QED BY <2>1, <2>3
<1>9. CASE AcceptChanges
  <2>1. doc' = AcceptAll(doc) /\ base' = doc' /\ clean' = AcceptAll(clean) /\ same /\ ~apart
    BY <1>9 DEF AcceptChanges
  <2>2. PICK S, g : Chosen(S, doc, next) /\ Twins(g, clean, doc, S)
    BY <2>1 DEF Paired, Pairing
  <2>3. \A e \in All : e.kind \in {"ins", "del", "link"}
    BY KindsAre
  <2>4. \E h : Twins(h, AcceptAll(clean), AcceptAll(doc), Later(next'))
    BY <1>2, <2>2, <2>3, AcceptedAlike
  <2> QED BY <1>4, <2>1, <2>4 DEF Pairing
<1>10. CASE UNCHANGED vars
  <2>1. doc' = doc /\ next' = next /\ clean' = clean /\ same /\ ~apart
    BY <1>10 DEF vars
  <2> QED BY <2>1 DEF Paired
<1> QED BY <1>5, <1>6, <1>7, <1>8, <1>9, <1>10 DEF Next

LEMMA InitPaired == Init => Paired
<1> SUFFICES ASSUME Init PROVE Paired
  OBVIOUS
<1>1. Edited
  BY InitEdited
<1>2. Page(doc) /\ next \in Nat /\ Before(doc, next) /\ WithoutAI(base) /\ base = doc /\ clean = doc
  BY <1>1 DEF Edited, Shape, Init
<1>3. WithoutAI(doc)
  BY <1>2
<1>4. Pairing(doc, next, doc)
  BY <1>2, <1>3, StartsPaired
<1> QED BY <1>1, <1>2, <1>4 DEF Paired

LEMMA PairedIsKept == Spec => []Paired
BY InitPaired, StepPaired, PTL DEF Spec

LEMMA AcceptedAsUntracked == Paired => AcceptIsTheUntrackedEdit
<1> SUFFICES ASSUME Paired, same, ~apart PROVE Contents(AcceptAll(doc)) = Contents(AcceptAll(clean))
  BY DEF AcceptIsTheUntrackedEdit
<1>1. /\ doc \in Documents(All) /\ DistinctIds(doc) /\ Page(doc)
      /\ clean \in Documents(All) /\ DistinctIds(clean) /\ clean # <<>> /\ Page(clean)
  BY DEF Paired, Edited, Shape, Page
<1>2. PICK S, g : Twins(g, clean, doc, S)
  BY DEF Paired, Pairing
<1>3. \A e \in All : e.kind \in {"ins", "del", "link"}
  BY KindsAre
<1>4. PICK x, y : x = AcceptAll(clean) /\ y = AcceptAll(doc)
  OBVIOUS
<1>5. SameBodies(x, y)
  BY <1>1, <1>2, <1>3, <1>4, AcceptedAlike
<1>6. DOMAIN x = 1..Len(x) /\ DOMAIN y = 1..Len(y)
  <2>1. ASSUME NEW d, Page(d) PROVE DOMAIN AcceptAll(d) = 1..Len(AcceptAll(d))
    <3>1. Page(Resolve(d, "del", "ins", Ids(Revisions(d))))
      BY <2>1, KindPairs, ResolvedPage
    <3> QED BY <3>1, LenProperties DEF Page, Documents, AcceptAll, Accept
  <2> QED BY <1>1, <1>4, <2>1
<1>7. Contents(x) = Contents(y)
  BY <1>5, <1>6 DEF SameBodies, Contents
<1> QED BY <1>4, <1>7

(* In every behaviour, as long as no call fails on one side only and no    *)
(* only paragraph or one with markup of the file is blanked, accepting     *)
(* everything gives the texts the same calls give without tracking         *)
(* (replaceParagraphTextRange and insertParagraph with and without a       *)
(* tracking context).                                                      *)
THEOREM AcceptsTheEdit == Spec => []AcceptIsTheUntrackedEdit
BY PairedIsKept, AcceptedAsUntracked, PTL

=============================================================================
